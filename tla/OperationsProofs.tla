-------------------------- MODULE OperationsProofs --------------------------
(***************************************************************************)
(* Proofs about the parts of Contour around the rebuilds: what certgen     *)
(* wrote matches, for any number of processes that run it and any command  *)
(* lines; Envoy is not stopped before it drained; the gauges are exact for *)
(* any HTTPProxies; whatever entries Contour is started with, each setting *)
(* comes from the source that is to decide it.                             *)
(***************************************************************************)
EXTENDS Certificates, ShutdownManager, Metrics, ContourConfig, FiniteSetTheorems, TLAPS

-----------------------------------------------------------------------------
(* Certificates *)

Used == {opt.output : opt \in Options}
Kinds == {"compact", "legacy", "yaml", "pem"}

-----------------------------------------------------------------------------
(* What is written, in order *)

\* AsSecrets, AsLegacySecrets, WriteCertsPEM, WriteSecretsYAML: a list of names, not empty.
LEMMA OutputsAreLists ==
  ASSUME NEW o \in Kinds
  PROVE  /\ Len(Outputs[o]) \in Nat \ {0}
         /\ DOMAIN Outputs[o] = 1 .. Len(Outputs[o])
<1>1. CASE o = "compact"  BY <1>1 DEF Outputs
<1>2. CASE o = "legacy"  BY <1>2 DEF Outputs
<1>3. CASE o = "yaml"  BY <1>3 DEF Outputs
<1>4. CASE o = "pem"  BY <1>4 DEF Outputs
<1>. QED  BY Zenon, <1>1, <1>2, <1>3, <1>4 DEF Kinds

\* A run of certgen writes no name twice.
LEMMA WrittenOnce ==
  ASSUME NEW o \in Kinds, NEW i \in DOMAIN Outputs[o], NEW j \in DOMAIN Outputs[o],
         Outputs[o][i] = Outputs[o][j]
  PROVE  i = j
<1>0. i \in 1 .. Len(Outputs[o]) /\ j \in 1 .. Len(Outputs[o])  BY Zenon, OutputsAreLists
<1>1. CASE o = "compact"  BY <1>0, <1>1 DEF Outputs
<1>2. CASE o = "legacy"  BY <1>0, <1>2 DEF Outputs
<1>3. CASE o = "yaml"  BY <1>0, <1>3 DEF Outputs
<1>4. CASE o = "pem"  BY <1>0, <1>4 DEF Outputs
<1>. QED  BY Zenon, <1>1, <1>2, <1>3, <1>4 DEF Kinds

\* The names of Secrets, of YAML files and of PEM files.
Group(o) == CASE o = "yaml" -> {"contourcert.yaml", "envoycert.yaml"}
              [] o = "pem" -> {"cacert.pem", "contourcert.pem", "contourkey.pem", "envoycert.pem", "envoykey.pem"}
              [] OTHER -> {"contourcert", "envoycert", "cacert"}

LEMMA WrittenInGroup ==
  ASSUME NEW o \in Kinds, NEW i \in DOMAIN Outputs[o]
  PROVE  Outputs[o][i] \in Group(o)
<1>0. i \in 1 .. Len(Outputs[o])  BY Zenon, OutputsAreLists
<1>1. CASE o = "compact"  BY <1>0, <1>1 DEF Outputs, Group
<1>2. CASE o = "legacy"  BY <1>0, <1>2 DEF Outputs, Group
<1>3. CASE o = "yaml"  BY <1>0, <1>3 DEF Outputs, Group
<1>4. CASE o = "pem"  BY <1>0, <1>4 DEF Outputs, Group
<1>. QED  BY Zenon, <1>1, <1>2, <1>3, <1>4 DEF Kinds

\* Runs for different kinds of output have no name in common.
LEMMA NothingShared ==
  ASSUME NEW o \in Used, NEW other \in Used, o # other
  PROVE  Written(o) \cap Written(other) = {}
<1>0. o \in Kinds /\ other \in Kinds /\ (o = "compact" => other # "legacy") /\ (o = "legacy" => other # "compact")
  BY Zenon, OptionsAssumption DEF Used, Kinds
<1>1. Group(o) \cap Group(other) = {}
  BY <1>0 DEF Group, Kinds
<1>. QED  BY Zenon, <1>0, <1>1, WrittenInGroup DEF Written
-----------------------------------------------------------------------------
(* The inductive invariant.  While a run is at work its output is of two   *)
(* generations; the invariant says which part is of which.  It is stated   *)
(* with operators on the contents st and on the state r of a run.          *)

RunSteps == {"idle", "create", "update", "write"}
RunState == [pc : RunSteps, gen : Nat, next : Nat, opt : Options \cup {CHOOSE o \in Options : TRUE}, alone : BOOLEAN]

Item(r, i) == Outputs[r.opt.output][i]
Items(r) == DOMAIN Outputs[r.opt.output]

MatchIn(st, o) == \A m, n \in Written(o) : st[m] = st[n]

\* The run is at a step that its options allow.
WellFormed(r) ==
  /\ r.opt \in Options
  /\ r.next \in Items(r)
  /\ r.pc = "update" => r.opt.overwrite

\* Everything before the current item is of the run's generation.
Rewritten(st, r) == \A i \in Items(r) : i < r.next => st[Item(r, i)] = r.gen

\* The first item that the run has not touched.
Unwritten(r) == IF r.pc = "write" THEN r.next + 1 ELSE r.next

\* The run found a complete output that it keeps.
Keeping(st, r) ==
  /\ ~r.opt.overwrite /\ r.pc = "create"
  /\ MatchIn(st, r.opt.output)
  /\ \A n \in Written(r.opt.output) : st[n] # 0

\* The items that the run has not touched are as before, and absent unless it overwrites.
Writing(st, r) ==
  /\ Rewritten(st, r)
  /\ \A i, j \in Items(r) : i >= Unwritten(r) /\ j >= Unwritten(r) => st[Item(r, i)] = st[Item(r, j)]
  /\ ~r.opt.overwrite /\ (r.next > 1 \/ r.pc = "write") =>
       \A i \in Items(r) : i >= Unwritten(r) => st[Item(r, i)] = 0

OnCourse(st, r, D) ==
  /\ r.alone /\ r.opt.overwrite => Rewritten(st, r)
  /\ r.opt.output \notin D => Keeping(st, r) \/ Writing(st, r)

CertgenTypes ==
  /\ stored \in [Names -> Nat]
  /\ gens \in Nat
  /\ run \in [Runs -> RunState]

CertgenInv ==
  /\ CertgenTypes
  /\ \A p \in Runs : run[p].pc # "idle" => WellFormed(run[p]) /\ OnCourse(stored, run[p], disturbed)
  /\ \A p, q \in Runs : p # q /\ run[p].pc # "idle" /\ run[q].pc # "idle" =>
       ~run[p].alone /\ run[p].opt.output \in disturbed
  /\ \A o \in Used \ disturbed :
       (\A p \in Runs : run[p].pc = "idle" \/ run[p].opt.output # o) => MatchIn(stored, o)

-----------------------------------------------------------------------------
(* Steps of a run *)

\* What a run may write, in terms of its items.
LEMMA ItemFacts ==
  ASSUME NEW r, r.opt \in Options
  PROVE  /\ r.opt.output \in Kinds /\ r.opt.output \in Used /\ r.opt.overwrite \in BOOLEAN
         /\ Len(Outputs[r.opt.output]) \in Nat \ {0}
         /\ Items(r) = 1 .. Len(Outputs[r.opt.output])
         /\ Written(r.opt.output) = {Item(r, i) : i \in Items(r)}
         /\ Written(r.opt.output) \subseteq Names
         /\ \A i, j \in Items(r) : Item(r, i) = Item(r, j) => i = j
<1>1. r.opt.output \in Kinds /\ r.opt.output \in Used /\ r.opt.overwrite \in BOOLEAN
  BY Zenon, OptionsAssumption DEF Kinds, Used
<1>2. DOMAIN Outputs = Kinds
  BY Zenon DEF Outputs, Kinds
<1>3. Written(r.opt.output) \subseteq Names
  BY Zenon, <1>1, <1>2 DEF Names
<1>. QED  BY Zenon, <1>1, <1>3, OutputsAreLists, WrittenOnce DEF Item, Items, Written

\* Writing the current item leaves the other items alone.
LEMMA StoreItem ==
  ASSUME NEW st \in [Names -> Nat], NEW r, WellFormed(r), NEW v \in Nat, NEW new,
         new = [st EXCEPT ![Item(r, r.next)] = v]
  PROVE  /\ new \in [Names -> Nat]
         /\ new[Item(r, r.next)] = v
         /\ \A i \in Items(r) : i # r.next => new[Item(r, i)] = st[Item(r, i)]
         /\ \A n \in Names \ Written(r.opt.output) : new[n] = st[n]
<1>1. /\ Item(r, r.next) \in Written(r.opt.output) /\ Written(r.opt.output) \subseteq Names
      /\ r.next \in Items(r)
      /\ \A i \in Items(r) : Item(r, i) \in Names /\ (Item(r, i) = Item(r, r.next) => i = r.next)
  <2>1. r.opt \in Options /\ r.next \in Items(r)  BY Zenon DEF WellFormed
  <2>2. Written(r.opt.output) = {Item(r, i) : i \in Items(r)} /\ Written(r.opt.output) \subseteq Names
    BY Zenon, <2>1, ItemFacts
  <2>3. \A i, j \in Items(r) : Item(r, i) = Item(r, j) => i = j
    BY Zenon, <2>1, ItemFacts
  <2>. QED  BY Zenon, <2>1, <2>2, <2>3
<1>. QED  BY Zenon, <1>1

\* The output of a run is of one generation once all items are the run's, or none was touched.
LEMMA AllRewritten ==
  ASSUME NEW st, NEW r, r.opt \in Options, NEW g, \A i \in Items(r) : st[Item(r, i)] = g
  PROVE  MatchIn(st, r.opt.output)
<1>1. Written(r.opt.output) = {Item(r, i) : i \in Items(r)}  BY Zenon, ItemFacts
<1>. QED  BY Zenon, <1>1 DEF MatchIn

LEMMA NoneTouched ==
  ASSUME NEW st, NEW r \in RunState, WellFormed(r), Keeping(st, r) \/ Writing(st, r), r.next = 1, r.pc # "write"
  PROVE  MatchIn(st, r.opt.output)
<1>1. CASE Keeping(st, r)  BY Zenon, <1>1 DEF Keeping
<1>2. CASE Writing(st, r)
  <2>1. \A i, j \in Items(r) : st[Item(r, i)] = st[Item(r, j)]
    BY <1>2, ItemFacts DEF Writing, Unwritten, WellFormed
  <2>2. \A i \in Items(r) : st[Item(r, i)] = st[Item(r, r.next)]
    BY Zenon, <2>1 DEF WellFormed
  <2>. QED  BY Zenon, <2>2, AllRewritten DEF WellFormed
<1>. QED  BY Zenon, <1>1, <1>2

\* A step of one run preserves the invariant, given what it does to its own output: the other
\* outputs are not its to write, and the outputs of other active runs are disturbed already.
LEMMA OwnStep ==
  ASSUME CertgenInv, NEW p \in Runs, run[p].pc # "idle", gens' = gens,
         NEW r \in RunState, run' = [run EXCEPT ![p] = r],
         stored' \in [Names -> Nat],
         \A n \in Names \ Written(run[p].opt.output) : stored'[n] = stored[n],
         \/ /\ r.pc # "idle" /\ r.opt = run[p].opt /\ r.alone = run[p].alone
            /\ disturbed' = disturbed /\ WellFormed(r) /\ OnCourse(stored', r, disturbed)
         \/ /\ r.pc = "idle"
            /\ \/ disturbed' = disturbed
               \/ disturbed' = disturbed \cup {run[p].opt.output}
               \/ disturbed' = disturbed \ {run[p].opt.output} /\ run[p].alone
            /\ run[p].opt.output \notin disturbed' => MatchIn(stored', run[p].opt.output)
  PROVE  CertgenInv'
<1>. DEFINE o == run[p].opt.output
<1>1. CertgenTypes /\ WellFormed(run[p]) /\ o \in Used
  BY Zenon, ItemFacts DEF CertgenInv, WellFormed
<1>2. CertgenTypes'
  BY Zenon, <1>1 DEF CertgenTypes
<1>3. run'[p] = r /\ \A q \in Runs \ {p} : run'[q] = run[q]
  BY Zenon, <1>1 DEF CertgenTypes
<1>4. ASSUME NEW q \in Runs, q # p, run[q].pc # "idle"
      PROVE  ~run[q].alone /\ run[q].opt.output \in disturbed /\ ~run[p].alone /\ o \in disturbed
  BY Zenon, <1>4 DEF CertgenInv
<1>5. ASSUME NEW q \in Runs, q # p, run[q].pc # "idle"
      PROVE  run[q].opt.output \in disturbed'
  BY Zenon, <1>4, <1>5
<1>6. ASSUME NEW q \in Runs, run'[q].pc # "idle"
      PROVE  WellFormed(run'[q]) /\ OnCourse(stored', run'[q], disturbed')
  <2>1. CASE q = p
    BY Zenon, <1>3, <1>6, <2>1
  <2>2. CASE q # p
    BY <1>3, <1>4, <1>5, <1>6, <2>2 DEF CertgenInv, OnCourse
  <2>. QED  BY Zenon, <2>1, <2>2
<1>7. ASSUME NEW q \in Runs, NEW s \in Runs, q # s, run'[q].pc # "idle", run'[s].pc # "idle"
      PROVE  ~run'[q].alone /\ run'[q].opt.output \in disturbed'
  <2>1. CASE q = p
    BY Zenon, <1>3, <1>4, <1>7, <2>1
  <2>2. CASE q # p
    BY <1>3, <1>4, <1>5, <1>7, <2>2
  <2>. QED  BY Zenon, <2>1, <2>2
<1>8. ASSUME NEW u \in Used \ disturbed', \A q \in Runs : run'[q].pc = "idle" \/ run'[q].opt.output # u
      PROVE  MatchIn(stored', u)
  <2>1. CASE u = o
    <3>1. r.pc = "idle"  BY Zenon, <1>3, <1>8, <2>1
    <3>. QED  BY Zenon, <1>8, <2>1, <3>1
  <2>2. CASE u # o
    <3>1. u \notin disturbed  BY Zenon, <1>8, <2>2
    <3>2. \A q \in Runs : run[q].pc = "idle" \/ run[q].opt.output # u
      BY Zenon, <1>3, <1>8, <2>2
    <3>3. MatchIn(stored, u)  BY Zenon, <3>1, <3>2 DEF CertgenInv
    <3>4. Written(u) \cap Written(o) = {}  BY Zenon, <1>1, <2>2, NothingShared
    <3>5. Written(u) \subseteq Names
      BY OptionsAssumption DEF Used, Names, Outputs
    <3>. QED  BY <3>3, <3>4, <3>5 DEF MatchIn
  <2>. QED  BY Zenon, <2>1, <2>2
<1>. QED  BY Zenon, <1>2, <1>6, <1>7, <1>8 DEF CertgenInv

\* A run that ends early leaves its output undisturbed only if it has not touched it.
LEMMA AbortStep ==
  ASSUME CertgenInv, NEW p \in Runs, Active(p), Abort(p), gens' = gens,
         \/ stored' = stored
         \/ run[p].pc = "write" /\ stored' = [stored EXCEPT ![Current(p)] = 0]
  PROVE  CertgenInv'
<1>. DEFINE o == run[p].opt.output
<1>1. CertgenTypes /\ run[p] \in RunState /\ run[p].pc # "idle" /\ WellFormed(run[p])
  BY Zenon DEF CertgenInv, CertgenTypes, Active
<1>2. /\ Idle \in RunState /\ Idle.pc = "idle" /\ run' = [run EXCEPT ![p] = Idle]
      /\ disturbed' = disturbed \/ disturbed' = disturbed \cup {o}
  BY Zenon DEF Abort, Idle, RunState, RunSteps
<1>3. stored' \in [Names -> Nat] /\ \A n \in Names \ Written(o) : stored'[n] = stored[n]
  <2>1. CASE stored' = stored  BY Zenon, <1>1, <2>1 DEF CertgenTypes
  <2>2. CASE stored' = [stored EXCEPT ![Item(run[p], run[p].next)] = 0]
    BY <1>1, <2>2, StoreItem DEF CertgenTypes
  <2>. QED  BY Zenon, <2>1, <2>2 DEF Current, Item
<1>4. ASSUME o \notin disturbed' PROVE MatchIn(stored', o)
  <2>1. o \notin disturbed /\ ~(run[p].next > 1) /\ run[p].pc # "write"
    BY Zenon, <1>4 DEF Abort
  <2>2. run[p].next = 1
    BY <1>1, <2>1, ItemFacts DEF WellFormed
  <2>3. Keeping(stored, run[p]) \/ Writing(stored, run[p])
    BY Zenon, <1>1, <2>1 DEF CertgenInv, OnCourse
  <2>4. stored' = stored  BY Zenon, <2>1
  <2>. QED  BY Zenon, <1>1, <2>1, <2>2, <2>3, <2>4, NoneTouched
<1>. HIDE DEF o
<1>. QED  BY Zenon, <1>1, <1>2, <1>3, <1>4, OwnStep DEF o

\* The item is now of the run's generation, or the output is complete and kept.
LEMMA ItemDone ==
  ASSUME NEW st \in [Names -> Nat], NEW new, NEW r \in RunState, WellFormed(r), NEW D, OnCourse(st, r, D),
         r.pc # "idle",
         \/ /\ new = [st EXCEPT ![Item(r, r.next)] = r.gen]
            /\ r.pc = "create" /\ ~r.opt.overwrite => st[Item(r, r.next)] = 0
         \/ new = st /\ r.pc = "create" /\ ~r.opt.overwrite /\ st[Item(r, r.next)] # 0
  PROVE  /\ new \in [Names -> Nat] /\ \A n \in Names \ Written(r.opt.output) : new[n] = st[n]
         /\ r.alone /\ r.opt.overwrite => \A i \in Items(r) : i <= r.next => new[Item(r, i)] = r.gen
         /\ r.opt.output \notin D =>
              \/ /\ \A i \in Items(r) : i <= r.next => new[Item(r, i)] = r.gen
                 /\ \A i, j \in Items(r) : i > r.next /\ j > r.next => new[Item(r, i)] = new[Item(r, j)]
                 /\ ~r.opt.overwrite => \A i \in Items(r) : i > r.next => new[Item(r, i)] = 0
              \/ /\ ~r.opt.overwrite /\ MatchIn(new, r.opt.output)
                 /\ \A n \in Written(r.opt.output) : new[n] # 0
<1>0. /\ r.next \in Items(r) /\ Items(r) = 1 .. Len(Outputs[r.opt.output]) /\ Len(Outputs[r.opt.output]) \in Nat
      /\ Written(r.opt.output) = {Item(r, i) : i \in Items(r)} /\ r.opt.overwrite \in BOOLEAN
      /\ r.gen \in Nat
  BY Zenon, ItemFacts DEF WellFormed, RunState
<1>1. CASE /\ new = [st EXCEPT ![Item(r, r.next)] = r.gen]
           /\ r.pc = "create" /\ ~r.opt.overwrite => st[Item(r, r.next)] = 0
  <2>1. /\ new \in [Names -> Nat] /\ new[Item(r, r.next)] = r.gen
        /\ \A i \in Items(r) : i # r.next => new[Item(r, i)] = st[Item(r, i)]
        /\ \A n \in Names \ Written(r.opt.output) : new[n] = st[n]
    <3>1. r.gen \in Nat /\ new = [st EXCEPT ![Item(r, r.next)] = r.gen]  BY Zenon, <1>0, <1>1
    <3>. QED  BY <3>1, StoreItem
  <2>2. ASSUME Rewritten(st, r) PROVE \A i \in Items(r) : i <= r.next => new[Item(r, i)] = r.gen
    BY <1>0, <2>1, <2>2 DEF Rewritten
  <2>3. ASSUME r.opt.output \notin D
        PROVE  /\ \A i \in Items(r) : i <= r.next => new[Item(r, i)] = r.gen
               /\ \A i, j \in Items(r) : i > r.next /\ j > r.next => new[Item(r, i)] = new[Item(r, j)]
               /\ ~r.opt.overwrite => \A i \in Items(r) : i > r.next => new[Item(r, i)] = 0
    <3>1. Writing(st, r)
      <4>1. ~Keeping(st, r)  BY Zenon, <1>0, <1>1 DEF Keeping
      <4>. QED  BY Zenon, <2>3, <4>1 DEF OnCourse
    <3>2. \A i, j \in Items(r) : i > r.next /\ j > r.next => new[Item(r, i)] = new[Item(r, j)]
      BY <1>0, <2>1, <3>1 DEF Writing, Unwritten
    <3>3. ASSUME ~r.opt.overwrite, NEW i \in Items(r), i > r.next PROVE new[Item(r, i)] = 0
      <4>1. r.pc \in {"create", "write"}  BY Zenon, <3>3 DEF WellFormed, RunState, RunSteps
      <4>. QED  BY <1>0, <1>1, <2>1, <3>1, <3>3, <4>1 DEF Writing, Unwritten
    <3>. QED  BY Zenon, <2>2, <3>1, <3>2, <3>3 DEF Writing
  <2>. QED  BY Zenon, <2>1, <2>2, <2>3 DEF OnCourse
<1>2. CASE new = st /\ r.pc = "create" /\ ~r.opt.overwrite /\ st[Item(r, r.next)] # 0
  <2>1. ASSUME r.opt.output \notin D
        PROVE  MatchIn(st, r.opt.output) /\ \A n \in Written(r.opt.output) : st[n] # 0
    <3>1. CASE Keeping(st, r)  BY Zenon, <3>1 DEF Keeping
    <3>2. CASE Writing(st, r)
      <4>1. r.next = 1
        BY <1>0, <1>2, <3>2 DEF Writing, Unwritten
      <4>2. MatchIn(st, r.opt.output)
        BY Zenon, <1>2, <3>2, <4>1, NoneTouched
      <4>. QED  BY Zenon, <1>0, <1>2, <4>2 DEF MatchIn
    <3>. QED  BY Zenon, <2>1, <3>1, <3>2 DEF OnCourse
  <2>. QED  BY Zenon, <1>2, <2>1
<1>. QED  BY Zenon, <1>1, <1>2

\* Going on to the next item, or ending after the last.
LEMMA AdvanceStep ==
  ASSUME CertgenInv, NEW p \in Runs, Active(p), Advance(p), gens' = gens,
         \/ /\ stored' = [stored EXCEPT ![Current(p)] = run[p].gen]
            /\ run[p].pc = "create" /\ ~run[p].opt.overwrite => stored[Current(p)] = 0
         \/ stored' = stored /\ run[p].pc = "create" /\ ~run[p].opt.overwrite /\ stored[Current(p)] # 0
  PROVE  CertgenInv'
<1>. DEFINE r == run[p]
            o == run[p].opt.output
            next == [r EXCEPT !.next = @ + 1, !.pc = "create"]
<1>1. /\ CertgenTypes /\ r \in RunState /\ r.pc # "idle" /\ WellFormed(r) /\ OnCourse(stored, r, disturbed)
      /\ stored \in [Names -> Nat]
  BY Zenon DEF CertgenInv, CertgenTypes, Active
<1>2. /\ r.next \in Items(r) /\ Items(r) = 1 .. Len(Outputs[o]) /\ Len(Outputs[o]) \in Nat
      /\ r.opt \in Options /\ r.opt.overwrite \in BOOLEAN
  BY Zenon, <1>1, ItemFacts DEF WellFormed
<1>. HIDE DEF r
<1>3. Current(p) = Item(r, r.next)
  BY Zenon DEF Current, Item, r
<1>4. /\ stored' \in [Names -> Nat] /\ \A n \in Names \ Written(r.opt.output) : stored'[n] = stored[n]
      /\ r.alone /\ r.opt.overwrite => \A i \in Items(r) : i <= r.next => stored'[Item(r, i)] = r.gen
      /\ r.opt.output \notin disturbed =>
           \/ /\ \A i \in Items(r) : i <= r.next => stored'[Item(r, i)] = r.gen
              /\ \A i, j \in Items(r) : i > r.next /\ j > r.next => stored'[Item(r, i)] = stored'[Item(r, j)]
              /\ ~r.opt.overwrite => \A i \in Items(r) : i > r.next => stored'[Item(r, i)] = 0
           \/ /\ ~r.opt.overwrite /\ MatchIn(stored', r.opt.output)
              /\ \A n \in Written(r.opt.output) : stored'[n] # 0
  <2>1. \/ /\ stored' = [stored EXCEPT ![Item(r, r.next)] = r.gen]
           /\ r.pc = "create" /\ ~r.opt.overwrite => stored[Item(r, r.next)] = 0
        \/ stored' = stored /\ r.pc = "create" /\ ~r.opt.overwrite /\ stored[Item(r, r.next)] # 0
    BY Zenon, <1>3 DEF r
  <2>. QED  BY Zenon, <1>1, <2>1, ItemDone
<1>5. CASE r.next < Len(Outputs[o])
  <2>1. run' = [run EXCEPT ![p] = next] /\ disturbed' = disturbed
    BY Zenon, <1>1, <1>5 DEF Advance, r, CertgenTypes, RunState
  <2>2. /\ next \in RunState /\ next.pc = "create" /\ next.opt = r.opt /\ next.alone = r.alone
        /\ next.next = r.next + 1 /\ next.gen = r.gen
    <3>1. r.next + 1 \in Nat /\ "create" \in RunSteps  BY <1>1 DEF RunState, RunSteps
    <3>2. r \in RunState  BY Zenon, <1>1
    <3>3. \A n \in Nat : [r EXCEPT !.next = n, !.pc = "create"] \in RunState
      BY Zenon, <3>1, <3>2 DEF RunState
    <3>4. next.pc = "create" /\ next.next = r.next + 1 /\ next.opt = r.opt /\ next.alone = r.alone /\ next.gen = r.gen
      BY Zenon, <3>2 DEF RunState
    <3>. QED  BY Zenon, <3>1, <3>3, <3>4
  <2>. HIDE DEF next
  <2>3. WellFormed(next) /\ Items(next) = Items(r) /\ \A i : Item(next, i) = Item(r, i)
    BY <1>2, <1>5, <2>2 DEF WellFormed, Items, Item, r
  <2>4. ASSUME \A i \in Items(r) : i <= r.next => stored'[Item(r, i)] = r.gen
        PROVE  Rewritten(stored', next)
    BY <1>2, <2>2, <2>3, <2>4 DEF Rewritten
  <2>5. ASSUME r.opt.output \notin disturbed
        PROVE  Keeping(stored', next) \/ Writing(stored', next)
    <3>1. CASE /\ \A i \in Items(r) : i <= r.next => stored'[Item(r, i)] = r.gen
               /\ \A i, j \in Items(r) : i > r.next /\ j > r.next => stored'[Item(r, i)] = stored'[Item(r, j)]
               /\ ~r.opt.overwrite => \A i \in Items(r) : i > r.next => stored'[Item(r, i)] = 0
      <4>1. Unwritten(next) = r.next + 1 /\ \A i \in Items(r) : i >= Unwritten(next) => i > r.next
        BY <1>2, <2>2 DEF Unwritten
      <4>. QED  BY <2>2, <2>3, <2>4, <3>1, <4>1 DEF Writing
    <3>2. CASE ~r.opt.overwrite /\ MatchIn(stored', r.opt.output) /\ \A n \in Written(r.opt.output) : stored'[n] # 0
      BY Zenon, <2>2, <3>2 DEF Keeping
    <3>. QED  BY Zenon, <1>4, <2>5, <3>1, <3>2
  <2>6. OnCourse(stored', next, disturbed)
    BY Zenon, <1>4, <2>2, <2>4, <2>5 DEF OnCourse
  <2>7. o = r.opt.output /\ r = run[p]  BY Zenon DEF r
  <2>. QED  BY Zenon, <1>1, <1>4, <2>1, <2>2, <2>3, <2>6, <2>7, OwnStep
<1>6. CASE r.next = Len(Outputs[o])
  <2>1. /\ run' = [run EXCEPT ![p] = Idle]
        /\ disturbed' = disturbed \ IF r.alone /\ r.opt.overwrite THEN {o} ELSE {}
    BY <1>2, <1>6 DEF Advance, r
  <2>2. Idle \in RunState /\ Idle.pc = "idle"
    BY Zenon DEF Idle, RunState, RunSteps
  <2>3. ASSUME \A i \in Items(r) : i <= r.next => stored'[Item(r, i)] = r.gen
        PROVE  MatchIn(stored', r.opt.output)
    <3>1. \A i \in Items(r) : stored'[Item(r, i)] = r.gen  BY <1>2, <1>6, <2>3
    <3>. QED  BY Zenon, <1>2, <3>1, AllRewritten
  <2>4. ASSUME o \notin disturbed' PROVE MatchIn(stored', r.opt.output)
    <3>1. CASE r.alone /\ r.opt.overwrite  BY Zenon, <1>4, <2>3, <3>1
    <3>2. CASE r.opt.output \notin disturbed  BY Zenon, <1>4, <2>3, <3>2
    <3>. QED  BY Zenon, <2>1, <2>4, <3>1, <3>2 DEF r
  <2>5. o = r.opt.output /\ r = run[p]  BY Zenon DEF r
  <2>. QED  BY Zenon, <1>1, <1>4, <2>1, <2>2, <2>4, <2>5, OwnStep
<1>. QED  BY <1>2, <1>5, <1>6

\* A Secret that exists is to be updated, or a file is created empty.
LEMMA ItemBegun ==
  ASSUME CertgenInv, NEW p \in Runs, run[p].pc = "create", gens' = gens, disturbed' = disturbed,
         NEW pc \in {"update", "write"}, run' = [run EXCEPT ![p].pc = pc],
         pc = "update" => stored' = stored /\ run[p].opt.overwrite,
         pc = "write" => /\ stored' = [stored EXCEPT ![Current(p)] = Empty]
                         /\ run[p].opt.overwrite \/ stored[Current(p)] = 0
  PROVE  CertgenInv'
<1>. DEFINE r == run[p]
            next == [r EXCEPT !.pc = pc]
<1>1. /\ CertgenTypes /\ r \in RunState /\ r.pc # "idle" /\ WellFormed(r) /\ OnCourse(stored, r, disturbed)
      /\ stored \in [Names -> Nat]
  BY Zenon DEF CertgenInv, CertgenTypes
<1>2. /\ r.next \in Items(r) /\ Items(r) = 1 .. Len(Outputs[r.opt.output]) /\ Len(Outputs[r.opt.output]) \in Nat
      /\ r.opt \in Options /\ r.opt.overwrite \in BOOLEAN
      /\ Written(r.opt.output) = {Item(r, i) : i \in Items(r)}
  BY Zenon, <1>1, ItemFacts DEF WellFormed
<1>3. run' = [run EXCEPT ![p] = next]
  BY Zenon, <1>1 DEF CertgenTypes, RunState
<1>4. /\ next \in RunState /\ next.pc = pc /\ next.opt = r.opt /\ next.alone = r.alone
      /\ next.next = r.next /\ next.gen = r.gen
  BY Zenon, <1>1 DEF RunState, RunSteps
<1>5. r.pc = "create" /\ Current(p) = Item(r, r.next)
  BY Zenon DEF Current, Item
<1>6. /\ pc = "update" => stored' = stored /\ r.opt.overwrite
      /\ pc = "write" => /\ stored' = [stored EXCEPT ![Item(r, r.next)] = Empty]
                         /\ r.opt.overwrite \/ stored[Item(r, r.next)] = 0
  BY Zenon, <1>5
<1>. HIDE DEF next, r
<1>7. WellFormed(next) /\ Items(next) = Items(r) /\ \A i : Item(next, i) = Item(r, i)
  BY Zenon, <1>1, <1>4, <1>6 DEF WellFormed, Items, Item
<1>8. /\ stored' \in [Names -> Nat] /\ \A n \in Names \ Written(r.opt.output) : stored'[n] = stored[n]
      /\ \A i \in Items(r) : i # r.next => stored'[Item(r, i)] = stored[Item(r, i)]
  <2>1. CASE pc = "update"  BY Zenon, <1>1, <1>6, <2>1
  <2>2. CASE pc = "write"
    <3>1. Empty \in Nat  BY GenerationsAssumption DEF Empty
    <3>2. stored' = [stored EXCEPT ![Item(r, r.next)] = Empty]  BY Zenon, <1>6, <2>2
    <3>. QED  BY <1>1, <3>1, <3>2, StoreItem
  <2>. QED  BY Zenon, <2>1, <2>2
<1>9. ASSUME Rewritten(stored, r) PROVE Rewritten(stored', next)
  BY <1>2, <1>4, <1>7, <1>8, <1>9 DEF Rewritten
<1>10. ASSUME r.opt.output \notin disturbed PROVE Writing(stored', next)
  <2>1. Writing(stored, r)
    <3>1. ~Keeping(stored, r)  BY Zenon, <1>2, <1>6 DEF Keeping
    <3>. QED  BY Zenon, <1>1, <1>10, <3>1 DEF OnCourse
  <2>2. \A i \in Items(r) : i >= Unwritten(next) => i >= Unwritten(r) /\ stored'[Item(r, i)] = stored[Item(r, i)]
    <3>1. CASE pc = "update"  BY Zenon, <1>4, <1>5, <1>6, <3>1 DEF Unwritten
    <3>2. CASE pc = "write"  BY <1>2, <1>4, <1>5, <1>8, <3>2 DEF Unwritten
    <3>. QED  BY Zenon, <3>1, <3>2
  <2>3. ASSUME ~r.opt.overwrite, NEW i \in Items(r), i >= Unwritten(next) PROVE stored[Item(r, i)] = 0
    <3>1. stored[Item(r, r.next)] = 0 /\ Unwritten(r) = r.next  BY Zenon, <1>5, <1>6, <2>3 DEF Unwritten
    <3>. QED  BY <1>2, <2>1, <2>2, <2>3, <3>1 DEF Writing
  <2>4. \A i, j \in Items(r) : i >= Unwritten(next) /\ j >= Unwritten(next) => stored'[Item(r, i)] = stored'[Item(r, j)]
    BY Zenon, <2>1, <2>2 DEF Writing
  <2>5. Rewritten(stored', next)  BY Zenon, <1>9, <2>1 DEF Writing
  <2>. QED  BY <1>4, <1>7, <2>2, <2>3, <2>4, <2>5 DEF Writing
<1>11. OnCourse(stored', next, disturbed)
  BY Zenon, <1>1, <1>4, <1>9, <1>10 DEF OnCourse
<1>12. r = run[p]  BY Zenon DEF r
<1>13. next \in RunState /\ next.pc # "idle" /\ next.opt = run[p].opt /\ next.alone = run[p].alone
  BY Zenon, <1>4, <1>12
<1>14. /\ stored' \in [Names -> Nat] /\ run[p].pc # "idle"
       /\ \A n \in Names \ Written(run[p].opt.output) : stored'[n] = stored[n]
  BY Zenon, <1>1, <1>8, <1>12
<1>. QED  BY Zenon, <1>3, <1>7, <1>11, <1>13, <1>14, OwnStep

\* GenerateCerts: a run that begins alone finds a complete output, or none, unless it is disturbed.
LEMMA StartStep ==
  ASSUME CertgenInv, NEW p \in Runs, NEW opt \in Options, Start(p, opt)
  PROVE  CertgenInv'
<1>. DEFINE alone == \A q \in Runs : ~Active(q)
            r == [pc |-> "create", gen |-> gens', next |-> 1, opt |-> opt, alone |-> alone]
<1>1. /\ CertgenTypes /\ ~Active(p) /\ gens' = gens + 1 /\ stored' = stored /\ alone \in BOOLEAN
      /\ run' = [q \in Runs |-> IF q = p THEN r ELSE [run[q] EXCEPT !.alone = FALSE]]
      /\ disturbed' = disturbed \cup IF alone THEN {} ELSE {opt.output} \cup {run[q].opt.output : q \in {s \in Runs : Active(s)}}
  BY Zenon DEF CertgenInv, Start
<1>2. r \in RunState /\ WellFormed(r)
  <2>1. 1 \in Items(r)  BY ItemFacts
  <2>2. gens' \in Nat  BY <1>1 DEF CertgenTypes
  <2>3. r.pc = "create" /\ r.opt = opt /\ r.next = 1  BY Zenon
  <2>. QED  BY Zenon, <1>1, <2>1, <2>2, <2>3 DEF RunState, RunSteps, WellFormed
<1>3. r.pc = "create" /\ r.opt = opt /\ r.next = 1 /\ r.alone = alone
  BY Zenon
<1>. HIDE DEF r
<1>4. \A q \in Runs \ {p} : /\ run'[q] \in RunState /\ run'[q].pc = run[q].pc /\ run'[q].opt = run[q].opt
                            /\ run'[q].alone = FALSE /\ run'[q].next = run[q].next /\ run'[q].gen = run[q].gen
  BY Zenon, <1>1 DEF CertgenTypes, RunState
<1>5. run'[p] = r  BY Zenon, <1>1
<1>6. CertgenTypes'
  BY <1>1, <1>2, <1>4, <1>5 DEF CertgenTypes
<1>7. CASE alone
  <2>1. disturbed' = disturbed /\ \A q \in Runs : run[q].pc = "idle"
    BY Zenon, <1>1, <1>7 DEF Active
  <2>2. \A o \in Used \ disturbed : MatchIn(stored, o)
    BY Zenon, <2>1 DEF CertgenInv
  <2>3. OnCourse(stored', r, disturbed')
    <3>1. Rewritten(stored, r)
      BY <1>3, ItemFacts DEF Rewritten
    <3>2. ASSUME opt.output \notin disturbed PROVE Writing(stored, r)
      <4>1. opt.output \in Used  BY Zenon DEF Used
      <4>2. MatchIn(stored, opt.output)  BY Zenon, <2>2, <3>2, <4>1
      <4>3. \A i \in Items(r) : Item(r, i) \in Written(opt.output)
        BY Zenon, <1>3 DEF Items, Item, Written
      <4>. QED  BY <1>3, <3>1, <4>2, <4>3 DEF Writing, MatchIn
    <3>. QED  BY Zenon, <1>1, <1>3, <2>1, <3>1, <3>2 DEF OnCourse
  <2>4. \A q \in Runs \ {p} : run'[q].pc = "idle"
    BY Zenon, <1>4, <2>1
  <2>5. \A q \in Runs : run'[q].pc # "idle" => WellFormed(run'[q]) /\ OnCourse(stored', run'[q], disturbed')
    BY Zenon, <1>2, <1>5, <2>3, <2>4
  <2>6. \A o \in Used \ disturbed' : MatchIn(stored', o)
    BY Zenon, <1>1, <2>1, <2>2
  <2>. QED  BY Zenon, <1>6, <2>4, <2>5, <2>6 DEF CertgenInv
<1>8. CASE ~alone
  <2>1. /\ opt.output \in disturbed' /\ disturbed \subseteq disturbed'
        /\ \A q \in Runs : run[q].pc # "idle" => run[q].opt.output \in disturbed'
    BY Zenon, <1>1, <1>8 DEF Active
  <2>2. \A q \in Runs : run'[q].pc # "idle" => run'[q].opt.output \in disturbed' /\ ~run'[q].alone
    BY Zenon, <1>3, <1>4, <1>5, <1>8, <2>1
  <2>3. ASSUME NEW q \in Runs, run'[q].pc # "idle" PROVE WellFormed(run'[q])
    <3>1. CASE q = p  BY Zenon, <1>2, <1>5, <3>1
    <3>2. CASE q # p
      <4>1. WellFormed(run[q])  BY Zenon, <1>4, <2>3, <3>2 DEF CertgenInv
      <4>. QED  BY Zenon, <1>4, <3>2, <4>1 DEF WellFormed, Items
    <3>. QED  BY Zenon, <3>1, <3>2
  <2>4. \A q \in Runs : run'[q].pc # "idle" => OnCourse(stored', run'[q], disturbed')
    BY Zenon, <2>2 DEF OnCourse
  <2>5. ASSUME NEW o \in Used \ disturbed', \A q \in Runs : run'[q].pc = "idle" \/ run'[q].opt.output # o
        PROVE  MatchIn(stored', o)
    <3>1. \A q \in Runs : run[q].pc = "idle" \/ run[q].opt.output # o
      BY Zenon, <2>1, <2>5
    <3>. QED  BY Zenon, <1>1, <2>1, <2>5, <3>1 DEF CertgenInv
  <2>. QED  BY Zenon, <1>6, <2>2, <2>3, <2>4, <2>5 DEF CertgenInv
<1>. QED  BY Zenon, <1>7, <1>8

\* A part that is deleted disturbs the outputs it is a part of, and only these.
LEMMA DeleteStep ==
  ASSUME CertgenInv, NEW n \in Names, Delete(n)
  PROVE  CertgenInv'
<1>1. /\ CertgenTypes /\ gens' = gens /\ stored' = [stored EXCEPT ![n] = 0]
      /\ disturbed' = disturbed \cup {o \in DOMAIN Outputs : n \in Written(o)}
      /\ run' = [q \in Runs |-> [run[q] EXCEPT !.alone = FALSE]]
  BY Zenon DEF CertgenInv, Delete
<1>2. \A q \in Runs : /\ run'[q] \in RunState /\ run'[q].pc = run[q].pc /\ run'[q].opt = run[q].opt
                     /\ run'[q].alone = FALSE /\ run'[q].next = run[q].next /\ run'[q].gen = run[q].gen
  BY Zenon, <1>1 DEF CertgenTypes, RunState
<1>3. CertgenTypes'
  BY Zenon, <1>1, <1>2 DEF CertgenTypes
<1>4. ASSUME NEW o \in Used, o \notin disturbed'
      PROVE  /\ o \notin disturbed /\ Written(o) \subseteq Names
             /\ \A m \in Written(o) : stored'[m] = stored[m]
  <2>1. o \in DOMAIN Outputs  BY Zenon, OptionsAssumption DEF Used, Outputs
  <2>2. n \notin Written(o) /\ o \notin disturbed  BY Zenon, <1>1, <1>4, <2>1
  <2>3. Written(o) \subseteq Names  BY Zenon, <2>1 DEF Names
  <2>. QED  BY Zenon, <1>1, <2>2, <2>3 DEF CertgenTypes
<1>5. ASSUME NEW q \in Runs, run'[q].pc # "idle"
      PROVE  WellFormed(run'[q]) /\ OnCourse(stored', run'[q], disturbed')
  <2>1. WellFormed(run[q]) /\ OnCourse(stored, run[q], disturbed) /\ run[q].opt \in Options
    BY Zenon, <1>2, <1>5 DEF CertgenInv, WellFormed
  <2>2. WellFormed(run'[q])
    BY Zenon, <1>2, <2>1 DEF WellFormed, Items
  <2>3. ASSUME run[q].opt.output \notin disturbed'
        PROVE  Keeping(stored', run'[q]) \/ Writing(stored', run'[q])
    <3>1. /\ run[q].opt.output \in Used
          /\ \A i \in Items(run[q]) : Item(run[q], i) \in Written(run[q].opt.output)
      BY Zenon, <2>1 DEF Used, Items, Item, Written
    <3>2. /\ run[q].opt.output \notin disturbed
          /\ \A m \in Written(run[q].opt.output) : stored'[m] = stored[m]
      BY Zenon, <1>4, <2>3, <3>1
    <3>3. CASE Keeping(stored, run[q])
      BY <1>2, <3>2, <3>3 DEF Keeping, MatchIn
    <3>4. CASE Writing(stored, run[q])
      <4>1. /\ Items(run'[q]) = Items(run[q]) /\ Unwritten(run'[q]) = Unwritten(run[q])
            /\ \A i : Item(run'[q], i) = Item(run[q], i)
        BY Zenon, <1>2 DEF Items, Item, Unwritten
      <4>2. \A i \in Items(run[q]) : stored'[Item(run[q], i)] = stored[Item(run[q], i)]
        BY Zenon, <3>1, <3>2
      <4>. QED  BY <1>2, <3>4, <4>1, <4>2 DEF Writing, Rewritten
    <3>. QED  BY Zenon, <2>1, <3>2, <3>3, <3>4 DEF OnCourse
  <2>. QED  BY Zenon, <1>2, <2>2, <2>3 DEF OnCourse
<1>6. \A p, q \in Runs : p # q /\ run'[p].pc # "idle" /\ run'[q].pc # "idle" =>
        ~run'[p].alone /\ run'[p].opt.output \in disturbed'
  BY <1>1, <1>2 DEF CertgenInv
<1>7. ASSUME NEW o \in Used \ disturbed', \A q \in Runs : run'[q].pc = "idle" \/ run'[q].opt.output # o
      PROVE  MatchIn(stored', o)
  <2>1. \A q \in Runs : run[q].pc = "idle" \/ run[q].opt.output # o
    BY Zenon, <1>2, <1>7
  <2>2. MatchIn(stored, o)  BY Zenon, <1>4, <1>7, <2>1 DEF CertgenInv
  <2>. QED  BY Zenon, <1>4, <1>7, <2>2 DEF MatchIn
<1>. QED  BY Zenon, <1>3, <1>5, <1>6, <1>7 DEF CertgenInv

\* The state of the pods is not part of the invariant.
LEMMA PodsStep ==
  ASSUME CertgenInv, UNCHANGED certgenVars
  PROVE  CertgenInv'
<1>1. stored' = stored /\ gens' = gens /\ run' = run /\ disturbed' = disturbed
  BY Zenon DEF certgenVars
<1>2. \A p \in Runs : /\ WellFormed(run[p])' <=> WellFormed(run[p])
                     /\ OnCourse(stored, run[p], disturbed)' <=> OnCourse(stored, run[p], disturbed)
  BY <1>1 DEF OnCourse, Rewritten, Keeping, Writing, WellFormed, MatchIn
<1>3. \A o : MatchIn(stored, o)' <=> MatchIn(stored, o)
  BY Zenon, <1>1 DEF MatchIn
<1>. QED  BY Zenon, <1>1, <1>2, <1>3 DEF CertgenInv, CertgenTypes

-----------------------------------------------------------------------------
\* WriteSecretsKube, WriteSecretsYAML, WriteCertsPEM: when nobody runs certgen, each output that
\* was not disturbed is of one generation, however many runs there were, whatever their options
\* and wherever they failed.
THEOREM OneGeneration == Spec => []OutputsMatch
<1>1. Init => CertgenInv
  <2>. SUFFICES ASSUME Init PROVE CertgenInv
    BY Zenon
  <2>1. Idle \in RunState /\ Idle.pc = "idle"
    BY Zenon DEF Idle, RunState, RunSteps
  <2>2. CertgenTypes /\ \A p \in Runs : run[p].pc = "idle"
    BY Zenon, <2>1 DEF Init, CertgenTypes
  <2>3. \A o \in Used : MatchIn(stored, o)
    <3>1. \A o \in Used : Written(o) \subseteq Names
      BY Zenon, OptionsAssumption DEF Used, Names, Outputs
    <3>. QED  BY Zenon, <3>1 DEF Init, MatchIn
  <2>. QED  BY Zenon, <2>2, <2>3 DEF CertgenInv
<1>2. CertgenInv /\ [Next]_certVars => CertgenInv'
  <2>. SUFFICES ASSUME CertgenInv, [Next]_certVars PROVE CertgenInv'
    BY Zenon
  <2>1. ASSUME NEW p \in Runs, Active(p), WriteSecretsKube(p) PROVE CertgenInv'
    <3>1. CASE run[p].pc = "create" /\ stored[Current(p)] = 0 /\ stored' = [stored EXCEPT ![Current(p)] = run[p].gen] /\ Advance(p)
      BY Zenon, <2>1, <3>1, AdvanceStep DEF WriteSecretsKube
    <3>2. CASE run[p].pc = "create" /\ stored[Current(p)] # 0 /\ ~run[p].opt.overwrite /\ Advance(p) /\ stored' = stored
      BY Zenon, <2>1, <3>2, AdvanceStep DEF WriteSecretsKube
    <3>3. CASE /\ run[p].pc = "create" /\ run[p].opt.overwrite /\ run' = [run EXCEPT ![p].pc = "update"]
               /\ stored' = stored /\ disturbed' = disturbed
      BY Zenon, <2>1, <3>3, ItemBegun DEF WriteSecretsKube
    <3>4. CASE run[p].pc = "update" /\ stored' = [stored EXCEPT ![Current(p)] = run[p].gen] /\ Advance(p)
      BY Zenon, <2>1, <3>4, AdvanceStep DEF WriteSecretsKube
    <3>5. CASE Abort(p) /\ stored' = stored
      BY Zenon, <2>1, <3>5, AbortStep DEF WriteSecretsKube
    <3>. QED  BY Zenon, <2>1, <3>1, <3>2, <3>3, <3>4, <3>5 DEF WriteSecretsKube
  <2>2. ASSUME NEW p \in Runs, Active(p), WriteFile(p) PROVE CertgenInv'
    <3>1. CASE /\ run[p].pc = "create" /\ (run[p].opt.overwrite \/ stored[Current(p)] = 0)
               /\ stored' = [stored EXCEPT ![Current(p)] = Empty]
               /\ run' = [run EXCEPT ![p].pc = "write"] /\ disturbed' = disturbed
      BY Zenon, <2>2, <3>1, ItemBegun DEF WriteFile
    <3>2. CASE Abort(p) /\ stored' = stored
      BY Zenon, <2>2, <3>2, AbortStep DEF WriteFile
    <3>3. CASE run[p].pc = "write" /\ stored' = [stored EXCEPT ![Current(p)] = run[p].gen] /\ Advance(p)
      BY Zenon, <2>2, <3>3, AdvanceStep DEF WriteFile
    <3>. QED  BY Zenon, <2>2, <3>1, <3>2, <3>3 DEF WriteFile
  <2>3. ASSUME NEW p \in Runs, Fail(p) PROVE CertgenInv'
    BY Zenon, <2>3, AbortStep DEF Fail
  <2>4. ASSUME NEW p \in Runs, NEW opt \in Options, Start(p, opt) PROVE CertgenInv'
    BY Zenon, <2>4, StartStep
  <2>5. ASSUME NEW n \in Names, Delete(n) PROVE CertgenInv'
    BY Zenon, <2>5, DeleteStep
  <2>6. ASSUME UNCHANGED certgenVars PROVE CertgenInv'
    BY Zenon, <2>6, PodsStep
  <2>7. CASE (\E dir \in BOOLEAN : Bootstrap(dir)) \/ Pods \/ Disconnect
    BY Zenon, <2>6, <2>7 DEF Bootstrap, Pods, Project, ReloadPair, ReloadCA, loadConfig, Handshake, Disconnect
  <2>8. CASE UNCHANGED certVars
    BY Zenon, <2>6, <2>8 DEF certVars, certgenVars
  <2>. QED  BY Zenon, <2>1, <2>2, <2>3, <2>4, <2>5, <2>7, <2>8 DEF Next, Certgen
<1>3. CertgenInv => OutputsMatch
  BY Zenon DEF CertgenInv, OutputsMatch, Quiet, Active, Match, MatchIn, Used
<1>. QED  BY <1>1, <1>2, <1>3, PTL DEF Spec

-----------------------------------------------------------------------------
(* ShutdownManager *)

\* Only a poll that found few enough connections leads to the file, and only the file to an answer.
DrainInv ==
  /\ readyFile => drained
  /\ request = "answered" => drained
  /\ process = "stopped" => drained

LEMMA PollStep ==
  ASSUME NEW poll, Poll(poll), fewEnough(poll) => parseOpenConnections <= minOpenConnections, DrainInv
  PROVE  DrainInv'
<1>1. drained => drained'
  BY Zenon DEF Poll
<1>2. CASE fewEnough(poll)
  BY Zenon, <1>1, <1>2 DEF Poll, fewEnough, DrainInv
<1>3. CASE ~fewEnough(poll)
  BY Zenon, <1>1, <1>3 DEF Poll, DrainInv
<1>. QED  BY Zenon, <1>2, <1>3

\* However many connections there are, are opened and closed, however often failing the health
\* check or a poll fails, and whenever the preStop hooks run (shutdownHandler, shutdownReadyHandler):
\* Envoy is stopped by its hook only after a poll that found it drained.
THEOREM StopsDrained == DrainSpec => []StoppedOnlyDrained
<1>1. DrainInit => DrainInv
  BY Zenon DEF DrainInit, DrainInv
<1>2. DrainInv /\ [DrainNext]_drainVars => DrainInv'
  <2>. SUFFICES ASSUME DrainInv, [DrainNext]_drainVars PROVE DrainInv'
    BY Zenon
  <2>. USE DEF DrainInv
  <2>1. ASSUME NEW l \in Listeners, Open(l) \/ Close(l) PROVE DrainInv'
    BY <2>1 DEF Open, Close
  <2>2. CASE RunPreStopShutdown \/ RunPreStopEnvoy
    BY <2>2 DEF RunPreStopShutdown, RunPreStopEnvoy
  <2>3. CASE StopEnvoy \/ Kill
    BY <2>3 DEF StopEnvoy, Kill
  <2>4. CASE shutdownEnvoyOk \/ shutdownEnvoyError
    BY <2>4 DEF shutdownEnvoyOk, shutdownEnvoyError
  <2>5. CASE getOpenConnectionsOk
    BY Zenon, <2>5, PollStep DEF getOpenConnectionsOk, fewEnough
  <2>6. CASE getOpenConnectionsError
    BY Zenon, <2>6, PollStep DEF getOpenConnectionsError, fewEnough
  <2>7. CASE shutdownReadyHandler
    BY Zenon, <2>7 DEF shutdownReadyHandler
  <2>8. CASE UNCHANGED drainVars
    BY Zenon, <2>8 DEF drainVars
  <2>. QED  BY Zenon, <2>1, <2>2, <2>3, <2>4, <2>5, <2>6, <2>7, <2>8 DEF DrainNext
<1>3. DrainInv => StoppedOnlyDrained
  BY Zenon DEF DrainInv, StoppedOnlyDrained
<1>. QED  BY <1>1, <1>2, <1>3, PTL DEF DrainSpec

-----------------------------------------------------------------------------
(* Metrics *)

\* The gauges whose labels tell all that is counted apart.
ExactGauges == Gauges \ {"Root"}

\* The Metas that are counted for a gauge.
IsMeta(g, m) == m = Meta(m.VHost, m.Namespace) /\ (g \in {"Total", "Orphaned"} => m.VHost = "")

\* A gauge has one series for each Meta that is counted, with its count.
Follows(g, series, counts) ==
  /\ \A m \in DOMAIN counts : IsMeta(g, m)
  /\ DOMAIN series = {Labels(g, m) : m \in DOMAIN counts}
  /\ \A m \in DOMAIN counts : series[Labels(g, m)] = counts[m]

\* The gauges follow the counts that were published last, and after a rebuild of the leader those
\* are the counts of that rebuild.
MetricsInv ==
  /\ published => proxyMetricCache = calculateRouteMetric(updates)
  /\ \A g \in ExactGauges : Follows(g, gauge[g], proxyMetricCache[g])

LEMMA LabelsTellApart ==
  ASSUME NEW g \in ExactGauges, NEW m, NEW n, IsMeta(g, m), IsMeta(g, n), Labels(g, m) = Labels(g, n)
  PROVE  m = n
<1>1. CASE g \in {"Valid", "Invalid"}
  <2>1. m.Namespace = n.Namespace /\ m.VHost = n.VHost
    BY Zenon, <1>1 DEF Labels
  <2>. QED  BY Zenon, <2>1 DEF IsMeta
<1>2. CASE g \in {"Total", "Orphaned"}
  <2>1. <<m.Namespace>> = <<n.Namespace>> /\ m.VHost = "" /\ n.VHost = ""
    BY Zenon, <1>2 DEF Labels, IsMeta
  <2>2. m.Namespace = n.Namespace
    BY Zenon, <2>1
  <2>. QED  BY Zenon, <2>1, <2>2 DEF IsMeta
<1>. QED  BY Zenon, <1>1, <1>2 DEF ExactGauges, Gauges

\* SetHTTPProxyMetric: no series of the old counts is left that the new ones do not have, and none
\* is deleted that they have.
LEMMA SetGaugeFollows ==
  ASSUME NEW g \in ExactGauges, NEW counts, NEW cached, NEW old, Follows(g, old, cached),
         \A m \in DOMAIN counts : IsMeta(g, m),
         NEW f \in SetGauge(g, counts, cached, old)
  PROVE  Follows(g, f, counts)
<1>. DEFINE set == {Labels(g, m) : m \in DOMAIN counts}
            deleted == {Labels(g, m) : m \in DOMAIN cached \ DOMAIN counts}
            values(l) == IF l \in set THEN {counts[m] : m \in {x \in DOMAIN counts : Labels(g, x) = l}}
                         ELSE {old[l]}
            series == (DOMAIN old \cup set) \ deleted
<1>1. DOMAIN f = series /\ \A l \in series : f[l] \in values(l)
  BY Zenon DEF SetGauge
<1>2. \A m \in DOMAIN cached : IsMeta(g, m)
  BY Zenon DEF Follows
<1>3. series = set
  <2>1. ASSUME NEW l \in series  PROVE l \in set
    <3>. SUFFICES ASSUME l \in DOMAIN old, l \notin deleted PROVE l \in set
      BY Zenon, <2>1
    <3>1. PICK m \in DOMAIN cached : l = Labels(g, m)
      BY Zenon DEF Follows
    <3>. QED  BY Zenon, <3>1
  <2>2. ASSUME NEW l \in set  PROVE l \notin deleted
    <3>1. PICK m \in DOMAIN counts : l = Labels(g, m)
      BY Zenon, <2>2
    <3>2. \A n \in DOMAIN cached \ DOMAIN counts : l # Labels(g, n)
      BY Zenon, <1>2, <3>1, LabelsTellApart
    <3>. QED  BY Zenon, <3>2
  <2>. QED  BY Zenon, <2>1, <2>2
<1>4. ASSUME NEW m \in DOMAIN counts  PROVE f[Labels(g, m)] = counts[m]
  <2>1. Labels(g, m) \in set /\ f[Labels(g, m)] \in values(Labels(g, m))
    BY Zenon, <1>1, <1>3
  <2>2. PICK n \in DOMAIN counts : Labels(g, n) = Labels(g, m) /\ f[Labels(g, m)] = counts[n]
    BY Zenon, <2>1
  <2>3. n = m
    BY Zenon, <2>2, LabelsTellApart
  <2>. QED  BY Zenon, <2>2, <2>3
<1>. QED  BY Zenon, <1>1, <1>3, <1>4 DEF Follows

LEMMA CountsOf ==
  ASSUME NEW us
  PROVE  /\ calculateRouteMetric(us)["Total"] = ByNamespace(us)
         /\ calculateRouteMetric(us)["Orphaned"] = ByNamespace({u \in us : ~u.valid /\ u.orphaned})
         /\ calculateRouteMetric(us)["Valid"] = ByHost({u \in us : u.valid})
         /\ calculateRouteMetric(us)["Invalid"] = ByHost({u \in us : ~u.valid /\ ~u.orphaned})
  BY Zenon DEF calculateRouteMetric, calcMetrics, Gauges

\* calculateRouteMetric counts under Metas that the labels tell apart.
LEMMA CountsHaveMetas ==
  ASSUME NEW us, NEW g \in ExactGauges, NEW m \in DOMAIN calculateRouteMetric(us)[g]
  PROVE  IsMeta(g, m)
<1>1. \A host, ns : Meta(host, ns) = Meta(Meta(host, ns).VHost, Meta(host, ns).Namespace)
  BY Zenon DEF Meta
<1>2. \A ns : Meta("", ns).VHost = ""
  BY Zenon DEF Meta
<1>3. CASE g \in {"Total", "Orphaned"}
  <2>0. \/ calculateRouteMetric(us)[g] = ByNamespace(us)
        \/ calculateRouteMetric(us)[g] = ByNamespace({u \in us : ~u.valid /\ u.orphaned})
    BY Zenon, <1>3, CountsOf
  <2>1. PICK vs : calculateRouteMetric(us)[g] = ByNamespace(vs)
    BY Zenon, <2>0
  <2>2. PICK u \in vs : m = Meta("", u.ns)
    BY Zenon, <2>1 DEF ByNamespace
  <2>. QED  BY Zenon, <1>1, <1>2, <2>2 DEF IsMeta
<1>4. CASE g \in {"Valid", "Invalid"}
  <2>0. \/ calculateRouteMetric(us)[g] = ByHost({u \in us : u.valid})
        \/ calculateRouteMetric(us)[g] = ByHost({u \in us : ~u.valid /\ ~u.orphaned})
    BY Zenon, <1>4, CountsOf
  <2>1. PICK vs : calculateRouteMetric(us)[g] = ByHost(vs)
    BY Zenon, <2>0
  <2>2. PICK u \in vs : m = Meta(u.vhost, u.ns)
    BY Zenon, <2>1 DEF ByHost
  <2>. QED  BY Zenon, <1>1, <1>4, <2>2 DEF IsMeta
<1>. QED  BY Zenon, <1>3, <1>4 DEF ExactGauges, Gauges

LEMMA MetricsStep ==
  ASSUME MetricsInv, [MetricsNext]_metricsVars
  PROVE  MetricsInv'
<1>1. CASE OnElectedLeader
  BY Zenon, <1>1 DEF OnElectedLeader, MetricsInv
<1>2. ASSUME NEW us, OnChange(us)
      PROVE  MetricsInv'
  <2>1. CASE elected
    <3>. DEFINE metrics == calculateRouteMetric(us)
    <3>1. proxyMetricCache' = metrics /\ updates' = us
      BY Zenon, <1>2, <2>1 DEF OnChange, SetHTTPProxyMetric
    <3>2. \A g \in ExactGauges : gauge'[g] \in SetGauge(g, metrics[g], proxyMetricCache[g], gauge[g])
      BY <1>2, <2>1 DEF OnChange, SetHTTPProxyMetric, ExactGauges, Gauges
    <3>3. ASSUME NEW g \in ExactGauges  PROVE Follows(g, gauge'[g], metrics[g])
      <4>1. Follows(g, gauge[g], proxyMetricCache[g])
        BY Zenon DEF MetricsInv
      <4>2. \A m \in DOMAIN metrics[g] : IsMeta(g, m)
        BY Zenon, CountsHaveMetas
      <4>. QED  BY Zenon, <3>2, <4>1, <4>2, SetGaugeFollows
    <3>. QED  BY Zenon, <3>1, <3>3 DEF MetricsInv
  <2>2. CASE ~elected
    BY Zenon, <1>2, <2>2 DEF OnChange, MetricsInv
  <2>. QED  BY Zenon, <2>1, <2>2
<1>3. CASE UNCHANGED metricsVars
  BY Zenon, <1>3 DEF metricsVars, MetricsInv
<1>. QED  BY Zenon, <1>1, <1>2, <1>3 DEF MetricsNext

\* A gauge that follows the counts by namespace, or by host, shows how many updates there are.
LEMMA ShownByNamespace ==
  ASSUME NEW g \in {"Total", "Orphaned"}, NEW us, Follows(g, gauge[g], ByNamespace(us)), NEW ns
  PROVE  Shown(g, <<ns>>) = Cardinality({u \in us : u.ns = ns})
<1>. DEFINE counts == ByNamespace(us)
            m == Meta("", ns)
            here == {u \in us : u.ns = ns}
<1>1. Labels(g, m) = <<ns>> /\ \A n : Labels(g, n) = <<ns>> => n.Namespace = ns
  BY Zenon DEF Labels, Meta
<1>2. here = {u \in us : Meta("", u.ns) = m}
  <2>1. \A x : Meta("", x) = m <=> x = ns
    BY Zenon DEF Meta
  <2>. QED  BY Zenon, <2>1
<1>3. CASE m \in DOMAIN counts
  <2>1. gauge[g][<<ns>>] = counts[m] /\ <<ns>> \in DOMAIN gauge[g]
    BY Zenon, <1>1, <1>3 DEF Follows
  <2>2. counts[m] = Cardinality(here)
    BY Zenon, <1>2, <1>3 DEF ByNamespace
  <2>. QED  BY Zenon, <2>1, <2>2 DEF Shown
<1>4. CASE m \notin DOMAIN counts
  <2>1. here = {}
    BY Zenon, <1>2, <1>4 DEF ByNamespace
  <2>2. ASSUME <<ns>> \in DOMAIN gauge[g]  PROVE FALSE
    <3>1. PICK n \in DOMAIN counts : <<ns>> = Labels(g, n)
      BY Zenon, <2>2 DEF Follows
    <3>2. IsMeta(g, n) /\ n.Namespace = ns
      BY Zenon, <1>1, <3>1 DEF Follows
    <3>3. n = m
      BY Zenon, <3>2 DEF IsMeta
    <3>. QED  BY Zenon, <1>4, <3>1, <3>3
  <2>. QED  BY Zenon, <2>1, <2>2, FS_EmptySet DEF Shown
<1>. QED  BY Zenon, <1>3, <1>4

LEMMA ShownByHost ==
  ASSUME NEW g \in {"Valid", "Invalid"}, NEW us, Follows(g, gauge[g], ByHost(us)), NEW ns, NEW host
  PROVE  Shown(g, <<ns, host>>) = Cardinality({u \in us : u.ns = ns /\ u.vhost = host})
<1>. DEFINE counts == ByHost(us)
            m == Meta(host, ns)
            here == {u \in us : u.ns = ns /\ u.vhost = host}
<1>1. Labels(g, m) = <<ns, host>>
      /\ \A n : Labels(g, n) = <<ns, host>> => n.Namespace = ns /\ n.VHost = host
  BY Zenon DEF Labels, Meta
<1>2. here = {u \in us : Meta(u.vhost, u.ns) = m}
  <2>1. \A x, y : Meta(x, y) = m <=> x = host /\ y = ns
    BY Zenon DEF Meta
  <2>. QED  BY Zenon, <2>1
<1>3. CASE m \in DOMAIN counts
  <2>1. gauge[g][<<ns, host>>] = counts[m] /\ <<ns, host>> \in DOMAIN gauge[g]
    BY Zenon, <1>1, <1>3 DEF Follows
  <2>2. counts[m] = Cardinality(here)
    BY Zenon, <1>2, <1>3 DEF ByHost
  <2>. QED  BY Zenon, <2>1, <2>2 DEF Shown
<1>4. CASE m \notin DOMAIN counts
  <2>1. here = {}
    BY Zenon, <1>2, <1>4 DEF ByHost
  <2>2. ASSUME <<ns, host>> \in DOMAIN gauge[g]  PROVE FALSE
    <3>1. PICK n \in DOMAIN counts : <<ns, host>> = Labels(g, n)
      BY Zenon, <2>2 DEF Follows
    <3>2. IsMeta(g, n) /\ n.Namespace = ns /\ n.VHost = host
      BY Zenon, <1>1, <3>1 DEF Follows
    <3>3. n = m
      BY Zenon, <3>2 DEF IsMeta
    <3>. QED  BY Zenon, <1>4, <3>1, <3>3
  <2>. QED  BY Zenon, <2>1, <2>2, FS_EmptySet DEF Shown
<1>. QED  BY Zenon, <1>3, <1>4

\* Whatever HTTPProxies the rebuilds find (calculateRouteMetric, SetHTTPProxyMetric): after each
\* rebuild of the leader the total, orphaned, valid and invalid gauges show the HTTPProxies of that
\* rebuild, and no series of an earlier one is left.
THEOREM GaugesShowTheRebuild == MetricsSpec => []GaugesExact
<1>1. MetricsInit => MetricsInv
  BY DEF MetricsInit, MetricsInv, Follows, ExactGauges
<1>2. MetricsInv => GaugesExact
  <2>. SUFFICES ASSUME MetricsInv, published, NEW ns \in Namespaces, NEW vhost \in Hosts
                PROVE  /\ Shown("Total", <<ns>>) = Cardinality(In(ns))
                       /\ Shown("Orphaned", <<ns>>) = Cardinality({u \in In(ns) : ~u.valid /\ u.orphaned})
                       /\ Shown("Valid", <<ns, vhost>>) = Cardinality({u \in Serving(ns, vhost) : u.valid})
                       /\ Shown("Invalid", <<ns, vhost>>) =
                            Cardinality({u \in Serving(ns, vhost) : ~u.valid /\ ~u.orphaned})
    BY ZenonT(60) DEF GaugesExact, Namespaces, Hosts
  <2>. DEFINE orphans == {u \in updates : ~u.valid /\ u.orphaned}
              valid == {u \in updates : u.valid}
              invalid == {u \in updates : ~u.valid /\ ~u.orphaned}
  <2>0. /\ proxyMetricCache["Total"] = ByNamespace(updates)
        /\ proxyMetricCache["Orphaned"] = ByNamespace(orphans)
        /\ proxyMetricCache["Valid"] = ByHost(valid)
        /\ proxyMetricCache["Invalid"] = ByHost(invalid)
    BY Zenon, CountsOf DEF MetricsInv
  <2>1. /\ Follows("Total", gauge["Total"], ByNamespace(updates))
        /\ Follows("Orphaned", gauge["Orphaned"], ByNamespace(orphans))
        /\ Follows("Valid", gauge["Valid"], ByHost(valid))
        /\ Follows("Invalid", gauge["Invalid"], ByHost(invalid))
    BY Zenon, <2>0 DEF MetricsInv, ExactGauges, Gauges
  <2>2. /\ In(ns) = {u \in updates : u.ns = ns}
        /\ {u \in In(ns) : ~u.valid /\ u.orphaned} = {u \in orphans : u.ns = ns}
        /\ {u \in Serving(ns, vhost) : u.valid} = {u \in valid : u.ns = ns /\ u.vhost = vhost}
        /\ {u \in Serving(ns, vhost) : ~u.valid /\ ~u.orphaned} =
             {u \in invalid : u.ns = ns /\ u.vhost = vhost}
    BY Zenon DEF In, Serving
  <2>. HIDE DEF orphans, valid, invalid
  <2>. QED  BY <2>1, <2>2, ShownByNamespace, ShownByHost
<1>. QED  BY <1>1, <1>2, MetricsStep, PTL DEF MetricsSpec

-----------------------------------------------------------------------------
(* Configuration.  What a start makes of the entries is followed through the *)
(* two parses (MainIs) and the conversion, one setting at a time.            *)

OneEntryEach(S) == \A e, f \in S : e.src = f.src /\ e.key = f.key => e = f

ConfigInv ==
  /\ given \subseteq Entries
  /\ OneEntryEach(given)
  /\ outcome = Serve(given)

\* The value of a flag or of its environment variable.
Args(S) == Over(From(S, "flag"), From(S, "env"))

\* Over and Filled, by their values.
LEMMA OverIs ==
  ASSUME NEW f, NEW g
  PROVE  /\ DOMAIN Over(f, g) = DOMAIN f \cup DOMAIN g
         /\ \A k \in DOMAIN f : Over(f, g)[k] = f[k]
         /\ \A k \in DOMAIN g : k \notin DOMAIN f => Over(f, g)[k] = g[k]
  BY Zenon DEF Over

LEMMA FilledIs ==
  ASSUME NEW keys, NEW values
  PROVE  /\ DOMAIN Filled(keys, values) = keys
         /\ \A k \in keys : /\ k \in DOMAIN values => Filled(keys, values)[k] = values[k]
                            /\ k \notin DOMAIN values => Filled(keys, values)[k] = Zero
  BY Zenon DEF Filled

\* From: one entry for each key, so that CHOOSE has no choice.
LEMMA FromIs ==
  ASSUME NEW S, OneEntryEach(S), NEW src
  PROVE  /\ \A k : k \in DOMAIN From(S, src) <=> \E e \in S : e.src = src /\ e.key = k
         /\ \A e \in S : e.src = src => From(S, src)[e.key] = e.value
<1>. DEFINE of == {e \in S : e.src = src}
            keys == {e.key : e \in of}
<1>1. From(S, src) = [k \in keys |-> (CHOOSE e \in of : e.key = k).value]
  BY Zenon DEF From
<1>2. \A k : k \in keys <=> \E e \in S : e.src = src /\ e.key = k
  BY Zenon
<1>3. ASSUME NEW e \in S, e.src = src PROVE From(S, src)[e.key] = e.value
  <2>1. e.key \in keys /\ e \in of
    BY Zenon, <1>3
  <2>2. \A f \in of : f.key = e.key => f = e
    BY Zenon, <1>3 DEF OneEntryEach
  <2>3. (CHOOSE f \in of : f.key = e.key) = e
    BY Zenon, <2>1, <2>2
  <2>. HIDE DEF of, keys
  <2>. QED  BY Zenon, <1>1, <2>1, <2>3
<1>. HIDE DEF of, keys
<1>. QED  BY Zenon, <1>1, <1>2, <1>3

-----------------------------------------------------------------------------
(* The two parses *)

\* A context that holds what the entries say: flags, then the file, then defaults.
Parsed(S, c) ==
  /\ DOMAIN c.ctx = CtxKeys
  /\ \A k \in CtxKeys : c.ctx[k] = IF k \in DOMAIN Args(S) THEN Args(S)[k] ELSE newServeContext.ctx[k]
  /\ DOMAIN c.config = FileKeys
  /\ \A k \in FileKeys :
       c.config[k] = IF k \in DOMAIN Args(S) \cap ConfigFlags THEN Args(S)[k] ELSE Parse(From(S, "file"))[k]

\* newServeContext, by its fields.
LEMMA DefaultsIs ==
  /\ DOMAIN Defaults = FileKeys
  /\ DOMAIN newServeContext.ctx = CtxKeys
  /\ newServeContext.config = Defaults
  /\ newServeContext.parsed = FALSE
  /\ Defaults["httpVersions"] = Zero
<1>1. newServeContext.config = Defaults /\ newServeContext.parsed = FALSE
  BY Zenon DEF newServeContext
<1>2. DOMAIN Defaults = FileKeys /\ DOMAIN newServeContext.ctx = CtxKeys
  BY Zenon, FilledIs DEF Defaults, newServeContext
<1>3. Defaults["httpVersions"] = Zero
  BY DEF Defaults, Filled, FileKeys
<1>. QED  BY Zenon, <1>1, <1>2, <1>3

\* Parse: what the file has, and the defaults for the rest.
LEMMA ParseIs ==
  ASSUME NEW file, DOMAIN file \subseteq FileKeys
  PROVE  /\ DOMAIN Parse(file) = FileKeys
         /\ \A k \in FileKeys \ {"httpVersions"} :
              Parse(file)[k] = IF k \in DOMAIN file THEN file[k] ELSE Defaults[k]
         /\ Parse(file)["httpVersions"] =
              IF "httpVersions" \in DOMAIN file THEN ToLower(file["httpVersions"]) ELSE Zero
<1>. DEFINE conf == Over(file, Defaults)
<1>1. DOMAIN conf = FileKeys
  BY DefaultsIs DEF Over
<1>2. \A k \in FileKeys : conf[k] = IF k \in DOMAIN file THEN file[k] ELSE Defaults[k]
  BY DefaultsIs DEF Over
<1>3. "httpVersions" \in FileKeys
  BY Zenon DEF FileKeys
<1>4. ToLower(Zero) = Zero
  BY DEF ToLower, Zero
<1>5. Parse(file) = [conf EXCEPT !["httpVersions"] = ToLower(conf["httpVersions"])]
  BY Zenon DEF Parse
<1>. HIDE DEF conf
<1>. QED  BY Zenon, <1>1, <1>2, <1>3, <1>4, <1>5, DefaultsIs

\* main: a file that is loaded between the two parses does not hide a flag.
LEMMA MainIs ==
  ASSUME NEW S, S \subseteq Entries, OneEntryEach(S), Main(S).ok
  PROVE  Parsed(S, Main(S).c) /\ ParametersValidate(Main(S).c.config)
<1>. DEFINE args == Args(S)
            one == AppParse(newServeContext, S)
            first == parseConfig(one, S)
            two == AppParse(first.c, S)
            second == parseConfig(two, S)
            file == From(S, "file")
<1>1. /\ first.ok /\ second.ok /\ ParametersValidate(second.c.config)
      /\ Main(S).c = second.c
  BY Zenon DEF Main
<1>2. DOMAIN file \subseteq FileKeys
  BY FromIs, EntriesAssumption
<1>3. ~FileGiven(S) => DOMAIN file = {}
  <2>1. ~FileGiven(S) => \A k : k \notin DOMAIN file
    BY FromIs DEF FileGiven
  <2>. HIDE DEF file
  <2>. QED  BY Zenon, <2>1
<1>4. \A c : /\ AppParse(c, S).ctx = Over(Only(args, CtxKeys), c.ctx)
             /\ AppParse(c, S).config = Over(Only(args, ConfigFlags), c.config)
             /\ AppParse(c, S).parsed = c.parsed
  BY Zenon DEF AppParse, Args
<1>. HIDE DEF args, file
<1>5. second.c = two /\ first.c.ctx = one.ctx
      /\ first.c.config = IF FileGiven(S) THEN Parse(file) ELSE one.config
  <2>1. one.parsed = FALSE
    BY Zenon, <1>4, DefaultsIs
  <2>2. CASE FileGiven(S)
    <3>1. first.c = [ctx |-> one.ctx, config |-> Parse(file), parsed |-> TRUE]
      BY Zenon, <1>1, <2>1, <2>2 DEF parseConfig, file
    <3>2. two.parsed = TRUE
      BY Zenon, <1>4, <3>1
    <3>3. second.c = two
      BY Zenon, <1>1, <3>2 DEF parseConfig
    <3>. QED  BY <2>2, <3>1, <3>3
  <2>3. CASE ~FileGiven(S)
    <3>1. first.c = one
      BY Zenon, <1>1, <2>3 DEF parseConfig
    <3>2. second.c = two
      BY Zenon, <1>1, <2>3 DEF parseConfig
    <3>. QED  BY Zenon, <2>3, <3>1, <3>2
  <2>. QED  BY Zenon, <2>2, <2>3
<1>6. /\ two.ctx = Over(Only(args, CtxKeys), Over(Only(args, CtxKeys), newServeContext.ctx))
      /\ two.config = Over(Only(args, ConfigFlags),
                           IF FileGiven(S) THEN Parse(file) ELSE Over(Only(args, ConfigFlags), Defaults))
  BY SMTT(20), <1>4, <1>5, DefaultsIs
<1>7. DOMAIN two.ctx = CtxKeys
      /\ \A k \in CtxKeys : two.ctx[k] = IF k \in DOMAIN args THEN args[k] ELSE newServeContext.ctx[k]
  BY <1>6, DefaultsIs DEF Over, Only
<1>8. DOMAIN two.config = FileKeys
      /\ \A k \in FileKeys :
           two.config[k] = IF k \in DOMAIN args \cap ConfigFlags THEN args[k] ELSE Parse(file)[k]
  <2>1. ConfigFlags \subseteq FileKeys
    BY Zenon DEF FileKeys
  <2>2. CASE FileGiven(S)
    <3>1. DOMAIN Parse(file) = FileKeys
      BY SMTT(20), <1>2, ParseIs
    <3>. QED  BY SMTT(20), <1>6, <2>1, <2>2, <3>1 DEF Over, Only
  <2>3. CASE ~FileGiven(S)
    <3>1. \A k \in FileKeys : Parse(file)[k] = Defaults[k]
      BY <1>2, <1>3, <2>3, ParseIs, DefaultsIs
    <3>. QED  BY SMTT(20), <1>6, <2>1, <2>3, <3>1, DefaultsIs DEF Over, Only
  <2>. QED  BY Zenon, <2>2, <2>3
<1>. QED  BY ZenonT(30), <1>1, <1>5, <1>7, <1>8 DEF Parsed, args, file

-----------------------------------------------------------------------------
(* The entries for a setting *)

\* The flag that decides a setting.
FlagFor(k) == IF k \in {"envoyHealthPort", "envoyMetricsPort"} THEN "statsPort" ELSE k

\* A flag has the name of its setting, but --stats-port decides two.
LEMMA AboutIs ==
  ASSUME NEW k \in SpecKeys, NEW e \in Entries
  PROVE  /\ e.src \in {"flag", "env"} => (k \in Sets(e.key) <=> e.key = FlagFor(k))
         /\ e.src \in {"file", "crd"} => (k \in Sets(e.key) <=> e.key = k)
<1>. DEFINE ports == {"envoyHealthPort", "envoyMetricsPort"}
<1>1. "statsPort" \notin SpecKeys /\ ports \cap (CtxKeys \cup ConfigFlags) = {} /\ "statsPort" \notin FileKeys
  BY Zenon DEF SpecKeys, FileKeys, CtxKeys, ConfigFlags
<1>2. e.src \in {"flag", "env"} => e.key \in CtxKeys \cup ConfigFlags
  BY Zenon, EntriesAssumption DEF CtxKeys
<1>3. e.src \in {"file", "crd"} => e.key # "statsPort"
  BY Zenon, <1>1, EntriesAssumption
<1>4. k \in Sets(e.key) <=> IF e.key = "statsPort" THEN k \in ports ELSE k = e.key
  BY Zenon DEF Sets
<1>. QED  BY Zenon, <1>1, <1>2, <1>3, <1>4 DEF FlagFor

\* A flag, or its environment variable, that decides a setting; the file that does.
LEMMA FlagIs ==
  ASSUME NEW S, S \subseteq Entries, OneEntryEach(S), NEW k \in SpecKeys
  PROVE  LET flags == First(About(S, "flag", k), About(S, "env", k))
         IN  \/ flags = {} /\ FlagFor(k) \notin DOMAIN Args(S)
             \/ /\ FlagFor(k) \in DOMAIN Args(S)
                /\ \E e \in flags : Means(e) = Args(S)[FlagFor(k)]
<1>1. \A e \in S : e.src = "flag" \/ e.src = "env" => (e \in About(S, e.src, k) <=> e.key = FlagFor(k))
  BY Zenon, AboutIs DEF About
<1>2. \A e \in S : e.src = "flag" \/ e.src = "env" => Means(e) = e.value
  BY Zenon DEF Means
<1>3. \A src : \A e \in About(S, src, k) : e \in S /\ e.src = src
  BY Zenon DEF About
<1>4. DOMAIN Args(S) = DOMAIN From(S, "flag") \cup DOMAIN From(S, "env")
  BY Zenon, OverIs DEF Args
<1>5. CASE About(S, "flag", k) # {}
  <2>1. PICK e \in About(S, "flag", k) : TRUE
    BY Zenon, <1>5
  <2>2. e \in S /\ e.src = "flag" /\ e.key = FlagFor(k)
    BY Zenon, <1>1, <1>3, <2>1
  <2>3. FlagFor(k) \in DOMAIN From(S, "flag") /\ From(S, "flag")[FlagFor(k)] = e.value
    BY <2>2, FromIs
  <2>4. Args(S)[FlagFor(k)] = e.value
    BY <2>3 DEF Args, Over
  <2>. QED  BY Zenon, <1>2, <1>4, <1>5, <2>1, <2>2, <2>3, <2>4 DEF First
<1>6. CASE About(S, "flag", k) = {}
  <2>1. FlagFor(k) \notin DOMAIN From(S, "flag")
    BY <1>1, <1>6, FromIs
  <2>2. CASE About(S, "env", k) = {}
    <3>1. FlagFor(k) \notin DOMAIN From(S, "env")
      BY <1>1, <2>2, FromIs
    <3>. QED  BY Zenon, <1>4, <1>6, <2>1, <2>2, <3>1 DEF First
  <2>3. CASE About(S, "env", k) # {}
    <3>1. PICK e \in About(S, "env", k) : TRUE
      BY Zenon, <2>3
    <3>2. e \in S /\ e.src = "env" /\ e.key = FlagFor(k)
      BY Zenon, <1>1, <1>3, <3>1
    <3>3. FlagFor(k) \in DOMAIN From(S, "env") /\ From(S, "env")[FlagFor(k)] = e.value
      BY <3>2, FromIs
    <3>4. Args(S)[FlagFor(k)] = e.value
      BY <2>1, <3>3 DEF Args, Over
    <3>. QED  BY Zenon, <1>2, <1>4, <1>6, <3>1, <3>2, <3>3, <3>4 DEF First
  <2>. QED  BY Zenon, <2>2, <2>3
<1>. QED  BY Zenon, <1>5, <1>6

\* The entry of the file or of the resource that decides a setting.
LEMMA SectionIs ==
  ASSUME NEW S, S \subseteq Entries, OneEntryEach(S), NEW k \in SpecKeys, NEW src \in {"file", "crd"}
  PROVE  \/ About(S, src, k) = {} /\ k \notin DOMAIN From(S, src)
         \/ /\ k \in DOMAIN From(S, src)
            /\ \E e \in About(S, src, k) : /\ About(S, src, k) = {e} /\ e.src = src /\ e.key = k
                                           /\ From(S, src)[k] = e.value
<1>1. \A e \in S : e.src = src => (e \in About(S, src, k) <=> e.key = k)
  BY Zenon, AboutIs DEF About
<1>2. \A e \in About(S, src, k) : e \in S /\ e.src = src
  BY Zenon DEF About
<1>3. CASE About(S, src, k) = {}
  BY <1>1, <1>3, FromIs
<1>4. CASE About(S, src, k) # {}
  <2>1. PICK e \in About(S, src, k) : TRUE
    BY Zenon, <1>4
  <2>2. e \in S /\ e.src = src /\ e.key = k
    BY Zenon, <1>1, <1>2, <2>1
  <2>3. \A f \in About(S, src, k) : f = e
    BY Zenon, <1>1, <1>2, <2>2 DEF OneEntryEach
  <2>4. k \in DOMAIN From(S, src) /\ From(S, src)[k] = e.value
    BY <2>2, FromIs
  <2>. QED  BY Zenon, <2>1, <2>2, <2>3, <2>4
<1>. QED  BY Zenon, <1>3, <1>4

-----------------------------------------------------------------------------
(* The conversion *)

Ports == {"metricsPort", "envoyMetricsPort", "envoyHealthPort"}
Checked == {"accessLogFormat", "accessLogLevel", "dnsFamily", "xdsServerType",
            "fallback", "client", "metricsTLS", "envoyMetricsTLS"}
Reshaped == {"serverHeader", "httpVersions", "rateLimit", "extAuth"}

\* A parameter that passed the validation is converted to itself.
LEMMA CheckedIs ==
  ASSUME NEW c, ParametersValidate(c.config),
         {c.config.metricsTLS, c.config.envoyMetricsTLS} \subseteq {Zero, "pair", "cert", "ca"},
         NEW k \in Checked
  PROVE  convertToContourConfigurationSpec(c)[k] = c.config[k]
<1>. DEFINE spec == convertToContourConfigurationSpec(c)
            conf == c.config
<1>1. /\ spec.accessLogFormat = OneOf(conf.accessLogFormat, AccessLogTypes)
      /\ spec.accessLogLevel = OneOf(conf.accessLogLevel, AccessLogLevels)
      /\ spec.dnsFamily = OneOf(conf.dnsFamily, DNSFamilies)
      /\ spec.xdsServerType = IF conf.xdsServerType = "envoy" THEN "envoy" ELSE "contour"
  BY ZenonT(30) DEF convertToContourConfigurationSpec, Converted, Over
<1>2. /\ spec.fallback = IF NameGiven(conf.fallback) THEN conf.fallback ELSE Zero
      /\ spec.client = IF NameGiven(conf.client) THEN conf.client ELSE Zero
      /\ spec.metricsTLS = MetricsTLS(conf.metricsTLS)
      /\ spec.envoyMetricsTLS = MetricsTLS(conf.envoyMetricsTLS)
  BY ZenonT(30) DEF convertToContourConfigurationSpec, Converted, Over
<1>. HIDE DEF spec
<1>3. /\ spec.accessLogFormat = conf.accessLogFormat
      /\ spec.accessLogLevel = conf.accessLogLevel
      /\ spec.dnsFamily = conf.dnsFamily
  BY Zenon, <1>1 DEF ParametersValidate, OneOf
<1>4. spec.xdsServerType = conf.xdsServerType
  BY Zenon, <1>1 DEF ParametersValidate, ServerTypes
<1>5. spec.fallback = conf.fallback /\ spec.client = conf.client
  BY Zenon, <1>2 DEF ParametersValidate, TLSValid, NamespacedNameValid
<1>6. spec.metricsTLS = conf.metricsTLS /\ spec.envoyMetricsTLS = conf.envoyMetricsTLS
  BY Zenon, <1>2 DEF ParametersValidate, MetricsValid, MetricsTLS, HasTLS
<1>. QED  BY Zenon, <1>3, <1>4, <1>5, <1>6 DEF Checked, spec

\* The settings that the conversion may change.
LEMMA ReshapedIs ==
  ASSUME NEW c
  PROVE  /\ convertToContourConfigurationSpec(c).serverHeader = OneOf(c.config.serverHeader, ServerHeaders)
         /\ convertToContourConfigurationSpec(c).httpVersions = HTTPVersionOf(c.config.httpVersions)
         /\ convertToContourConfigurationSpec(c).rateLimit = NamedSection(c.config.rateLimit)
         /\ convertToContourConfigurationSpec(c).extAuth = NamedSection(c.config.extAuth)
  BY ZenonT(30) DEF convertToContourConfigurationSpec, Converted, Over

\* setMetricsFromConfig, and the port of Envoy's health checks.
LEMMA PortsAre ==
  ASSUME NEW c
  PROVE  /\ convertToContourConfigurationSpec(c).metricsPort = MetricsPort(c.config.metricsPort, c.ctx.metricsPort)
         /\ convertToContourConfigurationSpec(c).envoyMetricsPort = MetricsPort(c.config.envoyMetricsPort, c.ctx.statsPort)
         /\ convertToContourConfigurationSpec(c).envoyHealthPort = c.ctx.statsPort
  BY ZenonT(30) DEF convertToContourConfigurationSpec, Converted, Over

\* The other settings are carried over.
LEMMA CarriedIs ==
  ASSUME NEW c, DOMAIN c.ctx = CtxKeys, DOMAIN c.config = FileKeys,
         NEW k \in SpecKeys, k \notin Ports \cup Checked \cup Reshaped
  PROVE  convertToContourConfigurationSpec(c)[k] = IF k \in CtxKeys THEN c.ctx[k] ELSE c.config[k]
<1>. DEFINE rest == Over(Only(c.ctx, SpecKeys), c.config)
<1>1. k \in CtxKeys \cup FileKeys
  BY Zenon DEF SpecKeys, Ports
<1>2. k \in DOMAIN rest /\ rest[k] = IF k \in CtxKeys THEN c.ctx[k] ELSE c.config[k]
  BY SMTT(20), <1>1 DEF Over, Only
<1>. HIDE DEF rest
<1>3. DOMAIN Converted(c) = Ports \cup Checked \cup Reshaped
  BY DEF Converted, Ports, Checked, Reshaped
<1>4. convertToContourConfigurationSpec(c) = Over(Converted(c), rest)
  BY Zenon DEF convertToContourConfigurationSpec, rest
<1>. QED  BY <1>2, <1>3, <1>4 DEF Over

\* What can be on the command line, and what in the file.
LEMMA ArgsAre ==
  ASSUME NEW S, S \subseteq Entries, OneEntryEach(S), NEW k \in DOMAIN Args(S)
  PROVE  k \in CtxKeys \cup ConfigFlags
<1>1. PICK e \in S : e.src \in {"flag", "env"} /\ e.key = k
  <2>1. k \in DOMAIN From(S, "flag") \cup DOMAIN From(S, "env")
    BY DEF Args, Over
  <2>. QED  BY <2>1, FromIs
<1>. QED  BY Zenon, <1>1, EntriesAssumption DEF CtxKeys

LEMMA FileIs ==
  ASSUME NEW S, S \subseteq Entries, OneEntryEach(S)
  PROVE  DOMAIN From(S, "file") \subseteq FileKeys
<1>1. SUFFICES ASSUME NEW k \in DOMAIN From(S, "file") PROVE k \in FileKeys
  BY Zenon
<1>2. PICK e \in S : e.src = "file" /\ e.key = k
  BY FromIs
<1>. QED  BY Zenon, <1>2, EntriesAssumption

\* The TLS paths of the metrics servers are those of the file, or none.
LEMMA TLSPathsAre ==
  ASSUME NEW S, S \subseteq Entries, OneEntryEach(S), NEW c, Parsed(S, c)
  PROVE  {c.config.metricsTLS, c.config.envoyMetricsTLS} \subseteq {Zero, "pair", "cert", "ca"}
<1>. DEFINE keys == {"metricsTLS", "envoyMetricsTLS"}
            file == From(S, "file")
<1>1. SUFFICES ASSUME NEW k \in keys PROVE c.config[k] \in {Zero, "pair", "cert", "ca"}
  BY Zenon
<1>2. k \in FileKeys /\ k \notin ConfigFlags /\ k # "httpVersions"
  BY Zenon DEF FileKeys, ConfigFlags
<1>3. c.config[k] = IF k \in DOMAIN file THEN file[k] ELSE Defaults[k]
  BY SMTT(20), <1>2, ParseIs, FileIs DEF Parsed
<1>4. Defaults["metricsTLS"] = Zero /\ Defaults["envoyMetricsTLS"] = Zero
  BY DEF Defaults, Filled, FileKeys
<1>5. k \in DOMAIN file => file[k] \in {Zero, "pair", "cert", "ca"}
  <2>1. SUFFICES ASSUME k \in DOMAIN file PROVE file[k] \in {Zero, "pair", "cert", "ca"}
    OBVIOUS
  <2>2. PICK e \in S : e.src = "file" /\ e.key = k
    BY <2>1, FromIs
  <2>3. file[k] = e.value
    BY <2>2, FromIs
  <2>. HIDE DEF file
  <2>. QED  BY Zenon, <2>2, <2>3, EntriesAssumption
<1>. HIDE DEF file
<1>. QED  BY Zenon, <1>3, <1>4, <1>5

\* A default is converted to itself.
LEMMA ReshapedDefaults ==
  /\ OneOf(Defaults["serverHeader"], ServerHeaders) = Defaults["serverHeader"]
  /\ HTTPVersionOf(Zero) = Defaults["httpVersions"]
  /\ \A k \in {"rateLimit", "extAuth"} : NamedSection(Defaults[k]) = Defaults[k]
<1>1. Defaults["serverHeader"] = "overwrite"
  BY DEF Defaults, Filled, FileKeys
<1>2. Defaults["rateLimit"] = Zero /\ Defaults["extAuth"] = Zero
  BY DEF Defaults, Filled, FileKeys
<1>3. HTTPVersionOf(Zero) = Zero /\ NamedSection(Zero) = Zero
  BY DEF HTTPVersionOf, NamedSection, Zero
<1>. QED  BY Zenon, <1>1, <1>2, <1>3, DefaultsIs DEF OneOf, ServerHeaders

-----------------------------------------------------------------------------
(* Precedence *)

\* A value that came from the command line, from the file or from nowhere.
Decided(S, k, v) ==
  LET flags == First(About(S, "flag", k), About(S, "env", k))
      file  == About(S, "file", k)
      said  == IF k \in {"metricsPort", "envoyMetricsPort"}
               THEN First({e \in file : ~IsEmpty(e.value)}, flags)
               ELSE First(flags, file)
  IN  IF said = {}
      THEN IF k \in FileKeys /\ Defaults[k] # Zero THEN v = Defaults[k] ELSE v \in {Zero, SpecDefaults[k]}
      ELSE \E e \in said : v = Means(e)

\* The defaults of newServeContext are those of contourconfig.Defaults.
LEMMA CtxDefaults ==
  \A k \in SpecKeys \ FileKeys : newServeContext.ctx[FlagFor(k)] \in {Zero, SpecDefaults[k]}
<1>1. newServeContext.ctx["httpPort"] = "8080" /\ SpecDefaults["httpPort"] = "8080"
  BY SMTT(20) DEF newServeContext, SpecDefaults, Filled, CtxKeys, SpecKeys
<1>2. newServeContext.ctx["healthPort"] = "8000" /\ SpecDefaults["healthPort"] = "8000"
  BY SMTT(20) DEF newServeContext, SpecDefaults, Filled, CtxKeys, SpecKeys
<1>3. newServeContext.ctx["statsPort"] = "8002" /\ SpecDefaults["envoyHealthPort"] = "8002"
  BY DEF newServeContext, SpecDefaults, Filled, CtxKeys, SpecKeys
<1>4. \A k \in {"caFile", "certFile", "keyFile", "rootNamespaces"} : newServeContext.ctx[k] = Zero
  BY DEF newServeContext, Filled, CtxKeys
<1>5. SpecKeys \ FileKeys \subseteq {"httpPort", "healthPort", "envoyHealthPort", "caFile", "certFile", "keyFile", "rootNamespaces"}
  BY Zenon DEF SpecKeys, FileKeys, CtxKeys
<1>. QED  BY Zenon, <1>1, <1>2, <1>3, <1>4, <1>5 DEF FlagFor

LEMMA PortDefaults ==
  /\ newServeContext.ctx["metricsPort"] = SpecDefaults["metricsPort"]
  /\ newServeContext.ctx["statsPort"] = SpecDefaults["envoyMetricsPort"]
  /\ Defaults["metricsPort"] = Zero
  /\ Defaults["envoyMetricsPort"] = Zero
<1>1. newServeContext.ctx["metricsPort"] = "8000" /\ newServeContext.ctx["statsPort"] = "8002"
  BY DEF newServeContext, Filled, CtxKeys
<1>2. SpecDefaults["metricsPort"] = "8000" /\ SpecDefaults["envoyMetricsPort"] = "8002"
  BY SMTT(20) DEF SpecDefaults, Filled, FileKeys, SpecKeys
<1>3. Defaults["metricsPort"] = Zero /\ Defaults["envoyMetricsPort"] = Zero
  BY DEF Defaults, Filled, FileKeys
<1>. QED  BY Zenon, <1>1, <1>2, <1>3

\* A field of serveContext.
LEMMA CtxDecided ==
  ASSUME NEW S, S \subseteq Entries, OneEntryEach(S), NEW c, Parsed(S, c), NEW k \in SpecKeys \ FileKeys
  PROVE  Decided(S, k, c.ctx[FlagFor(k)])
<1>. DEFINE flags == First(About(S, "flag", k), About(S, "env", k))
<1>1. FlagFor(k) \in CtxKeys /\ k \notin {"metricsPort", "envoyMetricsPort"}
  BY Zenon DEF FlagFor, SpecKeys, CtxKeys, FileKeys
<1>2. About(S, "file", k) = {}
  <2>1. SUFFICES ASSUME NEW e \in S, e.src = "file", k \in Sets(e.key) PROVE FALSE
    BY Zenon DEF About
  <2>2. e.key = k
    BY Zenon, <2>1, AboutIs
  <2>. QED  BY Zenon, <2>1, <2>2, EntriesAssumption
<1>3. First(flags, About(S, "file", k)) = flags
  BY Zenon, <1>2 DEF First
<1>4. \/ flags = {} /\ FlagFor(k) \notin DOMAIN Args(S)
      \/ FlagFor(k) \in DOMAIN Args(S) /\ \E e \in flags : Means(e) = Args(S)[FlagFor(k)]
  BY Zenon, FlagIs
<1>. HIDE DEF flags
<1>5. CASE FlagFor(k) \notin DOMAIN Args(S)
  <2>1. c.ctx[FlagFor(k)] \in {Zero, SpecDefaults[k]}
    BY Zenon, <1>1, <1>5, CtxDefaults DEF Parsed
  <2>. QED  BY Zenon, <1>1, <1>3, <1>4, <1>5, <2>1 DEF Decided, flags
<1>6. CASE FlagFor(k) \in DOMAIN Args(S)
  <2>1. c.ctx[FlagFor(k)] = Args(S)[FlagFor(k)]
    BY Zenon, <1>1, <1>6 DEF Parsed
  <2>. QED  BY Zenon, <1>1, <1>3, <1>4, <1>6, <2>1 DEF Decided, flags
<1>. QED  BY Zenon, <1>5, <1>6

\* A parameter of the configuration file, once it is converted.
LEMMA FileDecided ==
  ASSUME NEW S, S \subseteq Entries, OneEntryEach(S), NEW c, Parsed(S, c), ParametersValidate(c.config),
         NEW k \in FileKeys \ {"metricsPort", "envoyMetricsPort"}
  PROVE  Decided(S, k, convertToContourConfigurationSpec(c)[k])
<1>. DEFINE flags == First(About(S, "flag", k), About(S, "env", k))
            file == From(S, "file")
            v == convertToContourConfigurationSpec(c)[k]
<1>1. k \in SpecKeys /\ FlagFor(k) = k /\ k \notin CtxKeys /\ k \notin Ports
  BY Zenon DEF FlagFor, SpecKeys, CtxKeys, FileKeys, ConfigFlags, Ports
<1>2. \/ flags = {} /\ k \notin DOMAIN Args(S)
      \/ k \in DOMAIN Args(S) /\ \E e \in flags : Means(e) = Args(S)[k]
  BY Zenon, <1>1, FlagIs
<1>3. k \in DOMAIN Args(S) => k \in ConfigFlags
  BY Zenon, <1>1, ArgsAre
<1>4. \/ About(S, "file", k) = {} /\ k \notin DOMAIN file
      \/ k \in DOMAIN file /\ \E e \in About(S, "file", k) : e.src = "file" /\ e.key = k /\ file[k] = e.value
  BY <1>1, SectionIs
<1>5. DOMAIN file \subseteq FileKeys
  BY Zenon, FileIs
<1>. HIDE DEF flags, file
<1>6. {c.config.metricsTLS, c.config.envoyMetricsTLS} \subseteq {Zero, "pair", "cert", "ca"}
  BY Zenon, TLSPathsAre
<1>7. /\ k \in DOMAIN Args(S) => v = Args(S)[k]
      /\ k \notin DOMAIN Args(S) /\ k \notin DOMAIN file => v = Defaults[k]
      /\ k \notin DOMAIN Args(S) /\ k \in DOMAIN file =>
           \A e : e.src = "file" /\ e.key = k /\ file[k] = e.value => v = Means(e)
  <2>1. CASE k \notin Reshaped
    <3>1. v = c.config[k]
      BY Zenon, <1>1, <1>6, <2>1, CheckedIs, CarriedIs DEF Parsed
    <3>2. \A e : e.src = "file" /\ e.key = k => Means(e) = e.value
      BY Zenon, <2>1 DEF Means, Reshaped
    <3>3. k # "httpVersions"
      BY Zenon, <2>1 DEF Reshaped
    <3>. QED  BY SMTT(20), <1>3, <1>5, <3>1, <3>2, <3>3, ParseIs DEF Parsed, file
  <2>2. CASE k \in Reshaped
    <3>1. k \notin ConfigFlags /\ k \notin DOMAIN Args(S)
      BY Zenon, <1>3, <2>2 DEF Reshaped, ConfigFlags
    <3>2. c.config[k] = Parse(file)[k]
      BY Zenon, <3>1 DEF Parsed, file
    <3>3. k # "httpVersions" => c.config[k] = IF k \in DOMAIN file THEN file[k] ELSE Defaults[k]
      BY Zenon, <1>5, <3>2, ParseIs
    <3>4. k = "httpVersions" => c.config[k] = IF k \in DOMAIN file THEN ToLower(file[k]) ELSE Zero
      BY ZenonT(30), <1>5, <3>2, ParseIs
    <3>5. CASE k = "serverHeader"
      <4>1. v = OneOf(c.config[k], ServerHeaders)
        BY Zenon, <3>5, ReshapedIs
      <4>2. OneOf(Defaults["serverHeader"], ServerHeaders) = Defaults["serverHeader"]
        BY Zenon, ReshapedDefaults
      <4>3. \A e : e.src = "file" /\ e.key = k => Means(e) = OneOf(e.value, ServerHeaders)
        BY Zenon, <3>5 DEF Means
      <4>. HIDE DEF v
      <4>. QED  BY Zenon, <3>1, <3>3, <3>5, <4>1, <4>2, <4>3
    <3>6. CASE k = "httpVersions"
      <4>1. v = HTTPVersionOf(c.config[k])
        BY Zenon, <3>6, ReshapedIs
      <4>2. HTTPVersionOf(Zero) = Defaults["httpVersions"]
        BY Zenon, ReshapedDefaults
      <4>3. \A e : e.src = "file" /\ e.key = k => Means(e) = HTTPVersionOf(ToLower(e.value))
        BY Zenon, <3>6 DEF Means
      <4>. HIDE DEF v
      <4>. QED  BY Zenon, <3>1, <3>4, <3>6, <4>1, <4>2, <4>3
    <3>7. CASE k \in {"rateLimit", "extAuth"}
      <4>1. v = NamedSection(c.config[k])
        BY Zenon, <3>7, ReshapedIs
      <4>2. NamedSection(Defaults[k]) = Defaults[k]
        BY Zenon, <3>7, ReshapedDefaults
      <4>3. \A e : e.src = "file" /\ e.key = k => Means(e) = NamedSection(e.value)
        BY Zenon, <3>7 DEF Means
      <4>. HIDE DEF v
      <4>. QED  BY Zenon, <3>1, <3>3, <3>7, <4>1, <4>2, <4>3
    <3>. QED  BY Zenon, <2>2, <3>5, <3>6, <3>7 DEF Reshaped
  <2>. QED  BY Zenon, <2>1, <2>2
<1>. HIDE DEF v
<1>8. k \notin {"metricsPort", "envoyMetricsPort"}
  OBVIOUS
<1>9. CASE flags # {}
  BY Zenon, <1>2, <1>7, <1>8, <1>9 DEF Decided, First, flags, v
<1>10. CASE flags = {} /\ About(S, "file", k) # {}
  BY Zenon, <1>2, <1>4, <1>7, <1>8, <1>10 DEF Decided, First, flags, v
<1>11. CASE flags = {} /\ About(S, "file", k) = {}
  BY Zenon, <1>2, <1>4, <1>7, <1>8, <1>11 DEF Decided, First, flags, v
<1>. QED  BY Zenon, <1>9, <1>10, <1>11

\* A port of a metrics server.
LEMMA PortDecided ==
  ASSUME NEW S, S \subseteq Entries, OneEntryEach(S), NEW c, Parsed(S, c),
         NEW k \in {"metricsPort", "envoyMetricsPort"}
  PROVE  Decided(S, k, convertToContourConfigurationSpec(c)[k])
<1>. DEFINE flags == First(About(S, "flag", k), About(S, "env", k))
            file == From(S, "file")
            v == convertToContourConfigurationSpec(c)[k]
            full == {e \in About(S, "file", k) : ~IsEmpty(e.value)}
<1>1. /\ k \in SpecKeys /\ k \in FileKeys /\ FlagFor(k) \in CtxKeys
      /\ k \notin ConfigFlags /\ k # "httpVersions"
  BY Zenon DEF FlagFor, SpecKeys, CtxKeys, FileKeys, ConfigFlags
<1>2. v = MetricsPort(c.config[k], c.ctx[FlagFor(k)])
  BY Zenon, PortsAre DEF FlagFor
<1>3. \/ flags = {} /\ FlagFor(k) \notin DOMAIN Args(S)
      \/ FlagFor(k) \in DOMAIN Args(S) /\ \E e \in flags : Means(e) = Args(S)[FlagFor(k)]
  BY Zenon, <1>1, FlagIs
<1>4. c.ctx[FlagFor(k)] = IF FlagFor(k) \in DOMAIN Args(S) THEN Args(S)[FlagFor(k)] ELSE SpecDefaults[k]
  BY ZenonT(30), <1>1, PortDefaults DEF Parsed, FlagFor
<1>5. c.config[k] = IF k \in DOMAIN file THEN file[k] ELSE Zero
  BY <1>1, ParseIs, FileIs, PortDefaults DEF Parsed
<1>6. \/ full = {} /\ IsEmpty(c.config[k])
      \/ ~IsEmpty(c.config[k]) /\ \E e \in full : Means(e) = c.config[k]
  <2>1. \/ About(S, "file", k) = {} /\ k \notin DOMAIN file
        \/ /\ k \in DOMAIN file
           /\ \E e \in About(S, "file", k) : /\ About(S, "file", k) = {e} /\ e.src = "file" /\ e.key = k
                                             /\ file[k] = e.value
    BY <1>1, SectionIs
  <2>. HIDE DEF file
  <2>2. CASE k \notin DOMAIN file
    BY Zenon, <1>5, <2>1, <2>2 DEF IsEmpty
  <2>3. CASE k \in DOMAIN file
    <3>1. PICK e \in About(S, "file", k) : About(S, "file", k) = {e} /\ e.src = "file" /\ e.key = k
                                           /\ file[k] = e.value
      BY Zenon, <2>1, <2>3
    <3>2. Means(e) = e.value
      BY Zenon, <3>1 DEF Means
    <3>3. c.config[k] = e.value
      BY Zenon, <1>5, <2>3, <3>1
    <3>. QED  BY Zenon, <3>1, <3>2, <3>3
  <2>. QED  BY Zenon, <2>2, <2>3
<1>7. v = IF IsEmpty(c.config[k]) THEN c.ctx[FlagFor(k)] ELSE c.config[k]
  BY Zenon, <1>2 DEF MetricsPort, IsEmpty
<1>8. Defaults[k] = Zero
  BY Zenon, PortDefaults
<1>. HIDE DEF flags, file, v, full
<1>9. IF First(full, flags) = {} THEN v \in {Zero, SpecDefaults[k]} ELSE \E e \in First(full, flags) : v = Means(e)
  <2>1. CASE IsEmpty(c.config[k])
    BY Zenon, <1>3, <1>4, <1>6, <1>7, <2>1 DEF First
  <2>2. CASE ~IsEmpty(c.config[k])
    BY Zenon, <1>6, <1>7, <2>2 DEF First
  <2>. QED  BY Zenon, <2>1, <2>2
<1>. QED  BY Zenon, <1>8, <1>9 DEF Decided, flags, v, full

\* OverlayOnDefaults, for one setting.
LEMMA OverlayIs ==
  ASSUME NEW user, NEW k \in SpecKeys
  PROVE  OverlayOnDefaults(user)[k] = OrDefault(k, user[k])
  BY Zenon DEF OverlayOnDefaults, OrDefault

\* What the command line and the file come to.
LEMMA ConvertedDecided ==
  ASSUME NEW S, S \subseteq Entries, OneEntryEach(S), NEW c, Parsed(S, c), ParametersValidate(c.config),
         NEW k \in SpecKeys
  PROVE  Decided(S, k, convertToContourConfigurationSpec(c)[k])
<1>1. CASE k \in {"metricsPort", "envoyMetricsPort"}
  BY Zenon, <1>1, PortDecided
<1>2. CASE k \in FileKeys \ {"metricsPort", "envoyMetricsPort"}
  BY Zenon, <1>2, FileDecided
<1>3. CASE k \notin FileKeys
  <2>1. Decided(S, k, c.ctx[FlagFor(k)])
    BY Zenon, <1>3, CtxDecided
  <2>2. CASE k = "envoyHealthPort"
    <3>1. FlagFor(k) = "statsPort"
      BY Zenon, <2>2 DEF FlagFor
    <3>. QED  BY Zenon, <2>1, <2>2, <3>1, PortsAre
  <2>3. CASE k # "envoyHealthPort"
    <3>1. FlagFor(k) = k /\ k \in CtxKeys /\ k \notin Ports \cup Checked \cup Reshaped
      BY Zenon, <1>3, <2>3 DEF FlagFor, SpecKeys, FileKeys, ConfigFlags, CtxKeys, Ports, Checked, Reshaped
    <3>. QED  BY Zenon, <2>1, <3>1, CarriedIs DEF Parsed
  <2>. QED  BY Zenon, <2>2, <2>3
<1>. QED  BY Zenon, <1>1, <1>2, <1>3

\* No default of the file is a 0 that the overlay would take for no setting.
LEMMA DefaultsNotEmpty ==
  \A k \in FileKeys : Defaults[k] # Zero => ~IsEmpty(Defaults[k])
<1>. DEFINE said == {"xdsServerType", "accessLogFormat", "accessLogLevel", "serverHeader", "idleTimeout",
                     "connectTimeout", "envoyService", "dnsFamily", "adminPort"}
<1>1. \A k \in FileKeys \ said : Defaults[k] = Zero
  BY DEF Defaults, Filled
<1>2. \A k \in said : Defaults[k] # "0"
  <2>1. Defaults["xdsServerType"] = "envoy" /\ Defaults["accessLogFormat"] = "envoy"
    BY DEF Defaults, Filled, FileKeys, ConfigFlags
  <2>2. Defaults["accessLogLevel"] = "info" /\ Defaults["serverHeader"] = "overwrite"
    BY DEF Defaults, Filled, FileKeys
  <2>3. Defaults["idleTimeout"] = "60s" /\ Defaults["connectTimeout"] = "2s"
    BY DEF Defaults, Filled, FileKeys
  <2>4. Defaults["envoyService"] = "projectcontour/envoy" /\ Defaults["dnsFamily"] = "auto"
    BY DEF Defaults, Filled, FileKeys, ConfigFlags
  <2>5. Defaults["adminPort"] = "9001"
    BY DEF Defaults, Filled, FileKeys
  <2>. QED  BY Zenon, <2>1, <2>2, <2>3, <2>4, <2>5
<1>. QED  BY Zenon, <1>1, <1>2 DEF IsEmpty

\* A value from the right source is still one after the overlay.
LEMMA DecidedAllowed ==
  ASSUME NEW S, ~CrdNamed(S), NEW k \in SpecKeys, NEW v, Decided(S, k, v)
  PROVE  OrDefault(k, v) \in Allowed(S, k)
<1>. DEFINE flags == First(About(S, "flag", k), About(S, "env", k))
            file  == About(S, "file", k)
            said  == IF k \in {"metricsPort", "envoyMetricsPort"}
                     THEN First({e \in file : ~IsEmpty(e.value)}, flags)
                     ELSE First(flags, file)
<1>1. Allowed(S, k) = IF said = {} THEN {Unsaid(S, k)} ELSE {OrDefault(k, Means(e)) : e \in said}
  BY Zenon DEF Allowed
<1>2. IF said = {}
      THEN IF k \in FileKeys /\ Defaults[k] # Zero THEN v = Defaults[k] ELSE v \in {Zero, SpecDefaults[k]}
      ELSE \E e \in said : v = Means(e)
  BY Zenon DEF Decided
<1>. HIDE DEF said
<1>3. CASE said # {}
  BY Zenon, <1>1, <1>2, <1>3
<1>4. CASE said = {}
  <2>1. OrDefault(k, v) = Unsaid(S, k)
    BY Zenon, <1>2, <1>4, DefaultsNotEmpty DEF OrDefault, Unsaid, IsEmpty
  <2>. QED  BY Zenon, <1>1, <1>4, <2>1
<1>. QED  BY Zenon, <1>3, <1>4

\* A ContourConfiguration resource decides alone.
LEMMA ResourceAllowed ==
  ASSUME NEW S, S \subseteq Entries, OneEntryEach(S), CrdNamed(S), NEW k \in SpecKeys
  PROVE  OrDefault(k, Filled(SpecKeys, From(S, "crd"))[k]) \in Allowed(S, k)
<1>. DEFINE said == About(S, "crd", k)
            v == Filled(SpecKeys, From(S, "crd"))[k]
<1>1. Allowed(S, k) = IF said = {} THEN {Unsaid(S, k)} ELSE {OrDefault(k, Means(e)) : e \in said}
  BY Zenon DEF Allowed
<1>2. v = IF k \in DOMAIN From(S, "crd") THEN From(S, "crd")[k] ELSE Zero
  BY SMTT(20), FilledIs
<1>3. \/ said = {} /\ k \notin DOMAIN From(S, "crd")
      \/ /\ k \in DOMAIN From(S, "crd")
         /\ \E e \in said : e.src = "crd" /\ From(S, "crd")[k] = e.value
  BY SectionIs
<1>4. \A e : e.src = "crd" => Means(e) = e.value
  BY Zenon DEF Means
<1>. HIDE DEF said, v
<1>5. CASE k \notin DOMAIN From(S, "crd")
  <2>1. OrDefault(k, v) = Unsaid(S, k)
    BY Zenon, <1>2, <1>5 DEF OrDefault, Unsaid, IsEmpty
  <2>. QED  BY Zenon, <1>1, <1>3, <1>5, <2>1 DEF v
<1>6. CASE k \in DOMAIN From(S, "crd")
  BY ZenonT(30), <1>1, <1>2, <1>3, <1>4, <1>6 DEF v
<1>. QED  BY Zenon, <1>5, <1>6

\* What a start comes to.
LEMMA ServeIs ==
  ASSUME NEW S, Serve(S).serving
  PROVE  LET conf == getConfig(Main(S).c, S)
         IN  /\ Main(S).ok
             /\ NamespacesWatched(watchedNamespaces(Main(S).c), conf.spec)
             /\ Serve(S).spec = conf.spec
             /\ Serve(S).watched = watchedNamespaces(Main(S).c)
             /\ Serve(S).secrets = secretNamespaces(conf.spec)
<1>. DEFINE conf == getConfig(Main(S).c, S)
            good == /\ Main(S).ok
                    /\ conf.ok
                    /\ NamespacesWatched(watchedNamespaces(Main(S).c), conf.spec)
                    /\ ParseTimeoutPolicy(conf.spec)
                    /\ verifyTLSFlags(conf.spec)
            yes == [serving |-> TRUE, spec |-> conf.spec,
                    watched |-> watchedNamespaces(Main(S).c),
                    secrets |-> secretNamespaces(conf.spec), admin |-> AdminListener(conf.spec)]
<1>1. Serve(S) = IF good THEN yes ELSE Stopped
  BY Zenon DEF Serve
<1>2. Stopped.serving = FALSE
  BY Zenon DEF Stopped
<1>3. good /\ Serve(S) = yes
  <2>. HIDE DEF good, yes
  <2>. QED  BY Zenon, <1>1, <1>2
<1>. HIDE DEF conf
<1>. QED  BY <1>3 DEF conf

\* doServe: each setting of a start that succeeds.
LEMMA ServeAllowed ==
  ASSUME NEW S, S \subseteq Entries, OneEntryEach(S), Serve(S).serving, NEW k \in SpecKeys
  PROVE  Serve(S).spec[k] \in Allowed(S, k)
<1>. DEFINE c == Main(S).c
            user == IF CrdNamed(S) THEN Filled(SpecKeys, From(S, "crd")) ELSE convertToContourConfigurationSpec(c)
<1>1. Serve(S).spec = OverlayOnDefaults(user) /\ Main(S).ok
  BY Zenon, ServeIs DEF getConfig
<1>2. Parsed(S, c) /\ ParametersValidate(c.config)
  BY Zenon, <1>1, MainIs
<1>. HIDE DEF c
<1>3. Serve(S).spec[k] = OrDefault(k, user[k])
  BY Zenon, <1>1, OverlayIs
<1>4. CASE CrdNamed(S)
  BY Zenon, <1>3, <1>4, ResourceAllowed
<1>5. CASE ~CrdNamed(S)
  <2>1. Decided(S, k, user[k])
    BY Zenon, <1>2, <1>5, ConvertedDecided
  <2>. HIDE DEF user
  <2>. QED  BY Zenon, <1>3, <1>5, <2>1, DecidedAllowed
<1>. QED  BY Zenon, <1>4, <1>5

\* Any sequence of restarts.
LEMMA ConfigInvariant == ConfigSpec => []ConfigInv
<1>1. ConfigInit => ConfigInv
  BY Zenon DEF ConfigInit, ConfigInv, OneEntryEach
<1>2. ASSUME ConfigInv, [ConfigNext]_configVars PROVE ConfigInv'
  <2>1. CASE UNCHANGED configVars
    BY Zenon, <1>2, <2>1 DEF ConfigInv, configVars
  <2>2. ASSUME NEW e \in Entries, Restart(e) PROVE ConfigInv'
    <3>1. given' \subseteq Entries
      BY Zenon, <1>2, <2>2 DEF ConfigInv, Restart
    <3>2. OneEntryEach(given')
      BY Zenon, <1>2, <2>2 DEF ConfigInv, Restart, OneEntryEach
    <3>3. outcome' = Serve(given')
      BY Zenon, <2>2 DEF Restart
    <3>. QED  BY Zenon, <3>1, <3>2, <3>3 DEF ConfigInv
  <2>. QED  BY Zenon, <1>2, <2>1, <2>2 DEF ConfigNext
<1>. QED  BY <1>1, <1>2, PTL DEF ConfigSpec

\* Whatever is written on the command line, in the environment, in the file and
\* in the resource, every setting of a running Contour comes from the source
\* that registerServe's comment puts first: main parses the arguments twice and
\* convertToContourConfigurationSpec and OverlayOnDefaults keep what came of it.
THEOREM PrecedenceAlways == ConfigSpec => []Precedence
<1>1. ConfigInv => Precedence
  BY Zenon, ServeAllowed DEF ConfigInv, Precedence
<1>. QED  BY <1>1, ConfigInvariant, PTL

\* The Secret informers doServe starts reach every namespace the configuration
\* takes certificates from, and stay inside the namespaces it was told to watch.
THEOREM SecretsReachableAlways == ConfigSpec => []SecretsReachable
<1>1. ConfigInv => SecretsReachable
  <2>1. SUFFICES ASSUME NEW S, outcome = Serve(S), Serve(S).serving PROVE SecretsReachable
    BY Zenon DEF ConfigInv, SecretsReachable
  <2>. DEFINE s == outcome.spec
              needed == proxyRootNamespaces(s) \cup CertificateNamespaces(s)
  <2>2. outcome.secrets = secretNamespaces(s) /\ NamespacesWatched(outcome.watched, s)
    BY Zenon, <2>1, ServeIs
  <2>3. outcome.secrets \in {{}, needed}
    BY Zenon, <2>2 DEF secretNamespaces
  <2>4. outcome.watched # {} => needed \subseteq outcome.watched
    BY Zenon, <2>2 DEF NamespacesWatched
  <2>. HIDE DEF s, needed
  <2>5. /\ outcome.secrets = {} \/ needed \subseteq outcome.secrets
        /\ outcome.watched # {} => needed \cup outcome.secrets \subseteq outcome.watched
    BY Zenon, <2>3, <2>4
  <2>. QED  BY Zenon, <2>5 DEF SecretsReachable, s, needed
<1>. QED  BY <1>1, ConfigInvariant, PTL
=============================================================================
