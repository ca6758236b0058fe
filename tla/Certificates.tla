---------------------------- MODULE Certificates ----------------------------
(***************************************************************************)
(* The certificates of the connection between Envoy and Contour: `contour  *)
(* certgen` writes them (cmd/contour/certgen.go, internal/certgen),        *)
(* Kubernetes projects the Secrets into the pods, `contour bootstrap`      *)
(* points Envoy at them (envoy/v3/bootstrap.go), and Contour loads them at *)
(* each handshake (tlsconfig in cmd/contour/servecontext.go).              *)
(*                                                                         *)
(* What one run of certgen generates is a generation, a number: a CA and   *)
(* two certificates that it signed.  0 is an absent file or Secret.        *)
(***************************************************************************)
EXTENDS Naturals, Sequences

CONSTANTS Runs,             \* the processes that may run certgen
          Options,          \* the command lines: [output, overwrite]
          MaxGenerations    \* bound on the runs

\* The legacy and the compact Secrets have names in common, so a cluster uses only one of the two.
ASSUME OptionsAssumption ==
  /\ \A opt \in Options : /\ opt.output \in {"compact", "legacy", "yaml", "pem"}
                          /\ opt.overwrite \in BOOLEAN
  /\ ~(\E opt, other \in Options : opt.output = "compact" /\ other.output = "legacy")

ASSUME GenerationsAssumption == MaxGenerations \in Nat

VARIABLES stored,      \* the generation in each Secret or file
          gens,        \* the generations so far
          run,         \* the state of each process
          disturbed,   \* outputs of which a run was cut short or overlapped another, or a part was deleted
          mount,       \* the files of each pod
          server,      \* the handshake at Contour: what it has read so far
          sds,         \* Envoy was bootstrapped with --resources-dir
          envoy,       \* what Envoy has loaded
          connected    \* Envoy has a connection to Contour

certgenVars == <<stored, gens, run, disturbed>>
podVars == <<mount, server, sds, envoy, connected>>
certVars == <<stored, gens, run, disturbed, mount, server, sds, envoy, connected>>

-----------------------------------------------------------------------------
(* certgen *)

\* AsSecrets, AsLegacySecrets, WriteCertsPEM, WriteSecretsYAML: what is written, in order.
Outputs == [compact |-> <<"contourcert", "envoycert">>,
            legacy  |-> <<"contourcert", "envoycert", "cacert">>,
            yaml    |-> <<"contourcert.yaml", "envoycert.yaml">>,
            pem     |-> <<"cacert.pem", "contourcert.pem", "contourkey.pem", "envoycert.pem", "envoykey.pem">>]
Kube(output) == output \in {"compact", "legacy"}
Written(output) == {Outputs[output][i] : i \in DOMAIN Outputs[output]}
Names == UNION {Written(o) : o \in DOMAIN Outputs}

Empty == MaxGenerations + 1          \* a file with nothing in it

Idle == [pc |-> "idle", gen |-> 0, next |-> 1, opt |-> CHOOSE o \in Options : TRUE, alone |-> FALSE]
Active(p) == run[p].pc # "idle"
Current(p) == Outputs[run[p].opt.output][run[p].next]

\* doCertgen, GenerateCerts: a new CA and two certificates that it signed.
Start(p, opt) ==
  /\ ~Active(p) /\ gens < MaxGenerations
  /\ gens' = gens + 1
  /\ LET alone == \A q \in Runs : ~Active(q)
     IN /\ run' = [q \in Runs |-> IF q = p THEN [pc |-> "create", gen |-> gens', next |-> 1,
                                                opt |-> opt, alone |-> alone]
                                  ELSE [run[q] EXCEPT !.alone = FALSE]]
        /\ disturbed' = disturbed \cup IF alone THEN {} ELSE {opt.output} \cup {run[q].opt.output : q \in {r \in Runs : Active(r)}}
  /\ UNCHANGED <<stored, podVars>>

\* The run ends early; what it wrote stays.
Abort(p) ==
  /\ run' = [run EXCEPT ![p] = Idle]
  /\ disturbed' = disturbed \cup IF run[p].next > 1 \/ run[p].pc = "write" THEN {run[p].opt.output} ELSE {}

\* The item is dealt with; after the last the run has succeeded.
Advance(p) ==
  IF run[p].next < Len(Outputs[run[p].opt.output])
  THEN /\ run' = [run EXCEPT ![p].next = @ + 1, ![p].pc = "create"]
       /\ UNCHANGED disturbed
  ELSE /\ run' = [run EXCEPT ![p] = Idle]
       /\ disturbed' = disturbed \ IF run[p].alone /\ run[p].opt.overwrite THEN {run[p].opt.output} ELSE {}

WriteSecretsKube_KeepsSecrets(p) ==
  /\ Kube(run[p].opt.output) /\ run[p].pc = "create"
  /\ stored' = [stored EXCEPT ![Current(p)] = IF @ = 0 THEN run[p].gen ELSE @]
  /\ Advance(p)
  /\ UNCHANGED <<gens, podVars>>

\* WriteSecretsKube: a Secret that exists is kept, or is to be updated.
WriteSecretsKube(p) ==
  LET n == Current(p) IN
  /\ Kube(run[p].opt.output)
  /\ \/ /\ run[p].pc = "create" /\ stored[n] = 0
        /\ stored' = [stored EXCEPT ![n] = run[p].gen]
        /\ Advance(p)
     \/ /\ run[p].pc = "create" /\ stored[n] # 0 /\ ~run[p].opt.overwrite
        /\ Advance(p) /\ UNCHANGED stored
     \/ /\ run[p].pc = "create" /\ stored[n] # 0 /\ run[p].opt.overwrite
        /\ run' = [run EXCEPT ![p].pc = "update"]
        /\ UNCHANGED <<stored, disturbed>>
     \/ /\ run[p].pc = "update" /\ stored[n] # 0
        /\ stored' = [stored EXCEPT ![n] = run[p].gen]
        /\ Advance(p)
     \/ /\ run[p].pc = "update" /\ stored[n] = 0
        /\ Abort(p) /\ UNCHANGED stored
  /\ UNCHANGED <<gens, podVars>>

\* createFile, writePEM: a file that exists is an error, or is removed and created empty first.
WriteFile(p) ==
  LET n == Current(p) IN
  /\ ~Kube(run[p].opt.output)
  /\ \/ /\ run[p].pc = "create" /\ (run[p].opt.overwrite \/ stored[n] = 0)
        /\ stored' = [stored EXCEPT ![n] = Empty]
        /\ run' = [run EXCEPT ![p].pc = "write"]
        /\ UNCHANGED disturbed
     \/ /\ run[p].pc = "create" /\ ~run[p].opt.overwrite /\ stored[n] # 0
        /\ Abort(p) /\ UNCHANGED stored
     \/ /\ run[p].pc = "write"
        /\ stored' = [stored EXCEPT ![n] = run[p].gen]
        /\ Advance(p)
  /\ UNCHANGED <<gens, podVars>>

\* A request or a write fails, or the process is killed.  checkFile removes a file that could
\* not be written.
Fail(p) ==
  /\ Active(p)
  /\ Abort(p)
  /\ \/ UNCHANGED stored
     \/ run[p].pc = "write" /\ stored' = [stored EXCEPT ![Current(p)] = 0]
  /\ UNCHANGED <<gens, podVars>>

\* Someone deletes a Secret or a file.
Delete(n) ==
  /\ stored[n] # 0
  /\ stored' = [stored EXCEPT ![n] = 0]
  /\ disturbed' = disturbed \cup {o \in DOMAIN Outputs : n \in Written(o)}
  /\ run' = [q \in Runs |-> [run[q] EXCEPT !.alone = FALSE]]
  /\ UNCHANGED <<gens, podVars>>

-----------------------------------------------------------------------------
(* The pods.  They mount Secrets in the compact format. *)

SecretOf == [contour |-> "contourcert", envoy |-> "envoycert"]

\* The kubelet replaces all files of the volume at once.
Project(pod) ==
  /\ stored[SecretOf[pod]] \notin {0, mount[pod]}
  /\ mount' = [mount EXCEPT ![pod] = stored[SecretOf[pod]]]
  /\ UNCHANGED <<certgenVars, server, sds, envoy, connected>>

\* bootstrap: fails, and is run again, until the files are there; then Envoy starts and loads them.
Bootstrap(dir) ==
  /\ envoy.pc = "bootstrap" /\ mount.envoy # 0
  /\ sds' = dir
  /\ envoy' = [pc |-> "up", pair |-> mount.envoy, ca |-> mount.envoy]
  /\ UNCHANGED <<certgenVars, mount, server, connected>>

\* tlsCertificateSdsSecretConfig, validationContextSdsSecretConfig: two resources, which Envoy
\* reloads each for itself when the files that they name change.
ReloadPair == /\ envoy.pc = "up" /\ sds /\ envoy.pair # mount.envoy
              /\ envoy' = [envoy EXCEPT !.pair = mount.envoy]
              /\ UNCHANGED <<certgenVars, mount, server, sds, connected>>
ReloadCA == /\ envoy.pc = "up" /\ sds /\ envoy.ca # mount.envoy
            /\ envoy' = [envoy EXCEPT !.ca = mount.envoy]
            /\ UNCHANGED <<certgenVars, mount, server, sds, connected>>

\* loadConfig, at each handshake: the certificate, the key and the CA are read one after the other.
NoConfig == [pc |-> "cert", cert |-> 0, key |-> 0, ca |-> 0]
loadConfig ==
  /\ envoy.pc = "up" /\ ~connected /\ mount.contour # 0
  /\ server' = CASE server.pc = "cert" -> [server EXCEPT !.pc = "key", !.cert = mount.contour]
                 [] server.pc = "key" -> [server EXCEPT !.pc = "pair", !.key = mount.contour]
                 [] server.pc = "pair" /\ server.cert # server.key -> NoConfig
                 [] server.pc = "pair" /\ server.cert = server.key ->
                      [server EXCEPT !.pc = "handshake", !.ca = mount.contour]
                 [] OTHER -> server
  /\ server.pc # "handshake"
  /\ UNCHANGED <<certgenVars, mount, sds, envoy, connected>>

Handshake_KeepsConfig ==
  /\ server.pc = "handshake"
  /\ connected' = (server.cert = envoy.ca /\ envoy.pair = server.ca)
  /\ UNCHANGED <<certgenVars, mount, server, sds, envoy>>

\* Each side verifies that the certificate of the other is signed by its CA.
Handshake ==
  /\ server.pc = "handshake"
  /\ connected' = (server.cert = envoy.ca /\ envoy.pair = server.ca)
  /\ server' = NoConfig
  /\ UNCHANGED <<certgenVars, mount, sds, envoy>>

Disconnect == connected /\ connected' = FALSE /\ UNCHANGED <<certgenVars, mount, server, sds, envoy>>

-----------------------------------------------------------------------------
Init ==
  /\ stored = [n \in Names |-> 0] /\ gens = 0 /\ disturbed = {}
  /\ run = [p \in Runs |-> Idle]
  /\ mount = [contour |-> 0, envoy |-> 0] /\ server = NoConfig
  /\ sds = TRUE /\ envoy = [pc |-> "bootstrap", pair |-> 0, ca |-> 0] /\ connected = FALSE

Certgen(p) == WriteSecretsKube(p) \/ WriteFile(p)
Pods == (\E pod \in {"contour", "envoy"} : Project(pod)) \/ ReloadPair \/ ReloadCA \/ loadConfig \/ Handshake

Next == \/ \E p \in Runs : (Active(p) /\ Certgen(p)) \/ Fail(p) \/ \E opt \in Options : Start(p, opt)
        \/ \E n \in Names : Delete(n)
        \/ \E dir \in BOOLEAN : Bootstrap(dir)
        \/ Pods \/ Disconnect

\* The kubelet, Envoy and Contour keep going; nothing makes anybody run certgen.
Fairness == /\ \A pod \in {"contour", "envoy"} : WF_certVars(Project(pod))
            /\ WF_certVars(ReloadPair) /\ WF_certVars(ReloadCA)
            /\ WF_certVars(loadConfig) /\ WF_certVars(Handshake)
            /\ WF_certVars(\E dir \in BOOLEAN : Bootstrap(dir))

Spec == Init /\ [][Next]_certVars /\ Fairness

-----------------------------------------------------------------------------
Quiet == \A p \in Runs : ~Active(p)
Match(output) == \A m, n \in Written(output) : stored[m] = stored[n]

\* OutputCerts: the Secrets or files of each kind of output are all of one generation whenever
\* certgen is not running, unless a run was cut short, two overlapped or one was deleted; and
\* after any of these a run with --overwrite that nothing disturbs mends it.
OutputsMatch == Quiet => \A o \in {opt.output : opt \in Options} \ disturbed : Match(o)

\* tlsconfig, upstreamSdsTLSContext: once the Secrets are there, match and stay as they are,
\* an Envoy that reloads its certificates connects to Contour again and again, whatever was
\* rotated before and whatever either had loaded by then.
Settled == Quiet /\ stored["contourcert"] # 0 /\ Match("compact")
EventuallyConnected == <>[](Settled /\ (envoy.pc = "up" => sds)) => []<>connected
=============================================================================
