------------------------------ MODULE XdsStream ------------------------------
(***************************************************************************)
(* One resource of the "contour" xDS server: a cache that several          *)
(* goroutines update, the condition variable it announces updates with     *)
(* (internal/contour/cond.go), and the streams that serve it to Envoy      *)
(* (internal/xds/v3/contour.go).                                           *)
(*                                                                         *)
(* A cache is abstracted to the number of updates it has seen.  The        *)
(* endpoint translators have two updating goroutines, and notify after     *)
(* releasing the lock of the cache.  The other caches change and notify    *)
(* under one lock, which the model includes as the behaviours in which     *)
(* NotifyLater directly follows Update.                                    *)
(***************************************************************************)
EXTENDS Integers, Sequences, FiniteSets

CONSTANTS
  Streams,       \* gRPC streams open at some time
  Names,         \* names of the resources in the cache
  Writers,       \* goroutines that update the cache
  HintSets,      \* hints that callers pass to Notify; {} stands for none
  MaxUpdates     \* bound on the number of updates

ASSUME XdsAssumption ==
  /\ MaxUpdates \in Nat
  /\ HintSets \subseteq SUBSET Names

VARIABLES
  content,      \* updates made to the cache so far
  notifying,    \* by writer: hints of a Notify call still to be made, or Idle
  condLast,     \* Cond.last
  waiters,      \* Cond.waiters: the streams registered, each with its own ch
  pc,           \* by stream: "recv", "wait", "contents", "send", "closed"
  names,        \* by stream: the ResourceNames of its request, {} for all
  last,         \* by stream: the variable last
  ch,           \* by stream: the channel ch, of capacity 1
  response,     \* by stream: content of the response under construction
  delivered,    \* by stream: version and content of the last response sent
  relevant,     \* history, by stream: last notification that concerned it
  announced     \* history: content in the cache at each notification

condVars   == <<condLast, waiters, ch, relevant, announced>>
streamVars == <<pc, names, last, response, delivered>>
vars == <<content, notifying, condVars, streamVars>>

Idle == Names \cup {Names}   \* not a set of hints

-----------------------------------------------------------------------------
(* Cond                                                                    *)

intersection(left, right) == left \cap right # {}

\* The waiter of stream s is notified: unconditionally, or by a hint.
concerns(hints, s) == hints = {} \/ intersection(hints, names[s])

putBack_None(hints) == {}

\* Waiters that are not notified this time are put back on the list.
putBack(hints) == {s \in waiters : ~concerns(hints, s)}

\* The sends to the waiters' channels do not block: see NotifyNeverBlocks.
Notify(hints) ==
  /\ condLast' = condLast + 1
  /\ waiters' = putBack(hints)
  /\ ch' = [s \in Streams |-> IF s \in waiters /\ concerns(hints, s)
                                THEN Append(ch[s], condLast + 1)
                                ELSE ch[s]]
  /\ relevant' = [s \in Streams |-> IF concerns(hints, s) THEN condLast + 1 ELSE relevant[s]]
  /\ announced' = Append(announced, content)

\* The caller of Register has missed a notification.
missed(l) == l < condLast

Register(s) ==
  IF missed(last[s])
    THEN ch' = [ch EXCEPT ![s] = Append(@, condLast)] /\ UNCHANGED waiters
    ELSE waiters' = waiters \cup {s} /\ UNCHANGED ch

-----------------------------------------------------------------------------
(* The goroutines that update the cache.                                   *)

\* Update, or the change to e.entries of a translator.
Update(w) ==
  /\ notifying[w] = Idle
  /\ content < MaxUpdates
  /\ content' = content + 1
  /\ \E hints \in HintSets : notifying' = [notifying EXCEPT ![w] = hints]
  /\ UNCHANGED <<condVars, streamVars>>

\* The call of Notify that follows.
NotifyLater(w) ==
  /\ notifying[w] # Idle
  /\ Notify(notifying[w])
  /\ notifying' = [notifying EXCEPT ![w] = Idle]
  /\ UNCHANGED <<content, streamVars>>

-----------------------------------------------------------------------------
(* contourServer.stream                                                    *)

\* st.Recv returns a request; the same stream always asks for the same names.
Recv(s) ==
  /\ pc[s] = "recv"
  /\ Register(s)
  /\ pc' = [pc EXCEPT ![s] = "wait"]
  /\ UNCHANGED <<content, notifying, condLast, names, last, response, delivered, relevant,
                 announced>>

\* case last = <-ch
Woken(s) ==
  /\ pc[s] = "wait"
  /\ ch[s] # <<>>
  /\ last' = [last EXCEPT ![s] = Head(ch[s])]
  /\ ch' = [ch EXCEPT ![s] = Tail(@)]
  /\ pc' = [pc EXCEPT ![s] = "contents"]
  /\ UNCHANGED <<content, notifying, condLast, waiters, names, response, delivered, relevant,
                 announced>>

Contents_Reused(s) ==
  /\ pc[s] = "contents"
  /\ response' = [response EXCEPT ![s] = IF delivered[s].version > 0 THEN response[s] ELSE content]
  /\ pc' = [pc EXCEPT ![s] = "send"]
  /\ UNCHANGED <<content, notifying, condVars, names, last, delivered>>

Contents_OnlyNewer(s) ==
  /\ pc[s] = "contents"
  /\ response' = [response EXCEPT ![s] = content]
  /\ pc' = [pc EXCEPT ![s] = IF last[s] > delivered[s].version + 1 THEN "send" ELSE "recv"]
  /\ UNCHANGED <<content, notifying, condVars, names, last, delivered>>

\* r.Contents or r.Query, under the lock of the cache.
Contents(s) ==
  /\ pc[s] = "contents"
  /\ response' = [response EXCEPT ![s] = content]
  /\ pc' = [pc EXCEPT ![s] = "send"]
  /\ UNCHANGED <<content, notifying, condVars, names, last, delivered>>

\* st.Send(resp); Envoy answers with the next request.
Send(s) ==
  /\ pc[s] = "send"
  /\ delivered' = [delivered EXCEPT ![s] = [version |-> last[s], content |-> response[s]]]
  /\ pc' = [pc EXCEPT ![s] = "recv"]
  /\ UNCHANGED <<content, notifying, condVars, names, last, response>>

\* Recv or Send fails or the context is done; ch stays registered.
Close(s) ==
  /\ pc[s] # "contents"
  /\ pc[s] # "closed"
  /\ pc' = [pc EXCEPT ![s] = "closed"]
  /\ UNCHANGED <<content, notifying, condVars, names, last, response, delivered>>

-----------------------------------------------------------------------------

Init ==
  /\ content = 0
  /\ notifying = [w \in Writers |-> Idle]
  /\ condLast = 0
  /\ waiters = {}
  /\ pc = [s \in Streams |-> "recv"]
  /\ names \in [Streams -> SUBSET Names]
  /\ last = [s \in Streams |-> -1]
  /\ ch = [s \in Streams |-> <<>>]
  /\ response = [s \in Streams |-> 0]
  /\ delivered = [s \in Streams |-> [version |-> -1, content |-> 0]]
  /\ relevant = [s \in Streams |-> 0]
  /\ announced = <<>>

Next ==
  \/ \E w \in Writers : Update(w) \/ NotifyLater(w)
  \/ \E s \in Streams : Recv(s) \/ Woken(s) \/ Contents(s) \/ Send(s) \/ Close(s)

Spec == Init /\ [][Next]_vars

\* Goroutines keep running and Envoy answers every response with a request.
Fairness ==
  /\ \A w \in Writers : WF_vars(NotifyLater(w))
  /\ \A s \in Streams : WF_vars(Recv(s)) /\ WF_vars(Woken(s)) /\ WF_vars(Contents(s))
                        /\ WF_vars(Send(s))

FairSpec == Spec /\ Fairness

-----------------------------------------------------------------------------
(* Properties.                                                             *)

\* "Sends by the broadcaster to ch must not block": Notify holds the lock of
\* the Cond, often that of the cache too, so one full channel would stop every
\* update.  A registered channel is empty, those of closed streams included.
NotifyNeverBlocks == \A s \in Streams : s \in waiters => ch[s] = <<>>

\* A stream that waits with nothing to receive has not missed a notification
\* that concerned it, also when one is made between its response and its next
\* Register.  "Each stream will generate a response immediately, then wait": with
\* last = -1 this leaves no wait before the first response.
NothingMissed ==
  \A s \in Streams : pc[s] = "wait" /\ ch[s] = <<>> => s \in waiters /\ last[s] >= relevant[s]

\* A response labelled with version v is at least as new as what notification v
\* announced.
VersionsAreHonest ==
  \A s \in Streams :
    LET d == delivered[s] IN d.version > 0 => d.content >= announced[d.version]

\* A stream that stays open is sent a response for every notification that
\* concerns it, or one for a later notification; VersionsAreHonest says that
\* the response then holds the update the notification announced.
EveryStreamCatchesUp ==
  \A s \in Streams, n \in 1 .. MaxUpdates :
    relevant[s] = n ~> delivered[s].version >= n \/ pc[s] = "closed"
=============================================================================
