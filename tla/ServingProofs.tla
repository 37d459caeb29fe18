---------------------------- MODULE ServingProofs ----------------------------
(***************************************************************************)
(* The HTTP side of any number of generations, against the contract of the *)
(* engine.  First who holds what (SInv): nobody holds a dangling pointer,  *)
(* and the drain counts the connections that are open.  Then what is       *)
(* written (WInv, on top of SInv): the frames of a response, as lemmas on  *)
(* sequences, then one lemma per callback; a connection that its request   *)
(* has let go of has its whole answer queued.                              *)
(***************************************************************************)
EXTENDS Serving, FiniteSetTheorems, SequenceTheorems, TLAPS

Live == {"held", "failing", "ended", "silent"}     \* the engine has a reference
Conns == {"none", "open", "closing", "freed"}
Grs == {"none", "running", "closing", "freed"}

TypesOK ==
    /\ refs \in [Reqs -> Nat] /\ phase \in [Reqs -> Phases]
    /\ conn \in [Reqs -> Conns] /\ gr \in [Reqs -> Grs]
    /\ gen_owned \subseteq Reqs /\ attached \subseteq Reqs /\ timer \subseteq Reqs
    /\ cb \subseteq Reqs /\ on_push \subseteq Reqs

(* A stream has the reference of its gen_request and the engine's; its     *)
(* callback is installed as long as the gen_request runs, and due only     *)
(* while the engine has its reference.                                     *)
Count(r) == (IF gr[r] = "running" THEN 1 ELSE 0) + (IF phase[r] \in Live THEN 1 ELSE 0)
OwnersOK ==
    /\ \A r \in Reqs : refs[r] = Count(r)
    /\ \A r \in cb : gr[r] = "running" /\ phase[r] \in Live
    /\ \A r \in on_push : gr[r] = "running"

(* A connection and its gen_request point at each other or not at all.     *)
AttachedOK ==
    /\ observer = attached
    /\ \A r \in attached : conn[r] = "open" /\ gr[r] = "running" /\ r \notin timer
    /\ \A r \in Reqs : gr[r] = "running" \/ r \in timer => r \in gen_owned

PointersOK == TypesOK /\ OwnersOK /\ AttachedOK

(* try_teardown, whatever callback it is called from.                      *)
LEMMA TeardownEffect ==
  ASSUME TypesOK, OwnersOK, NEW R \in SUBSET Reqs, Teardown(R), phase' = phase
  PROVE  /\ OwnersOK' /\ refs' \in [Reqs -> Nat] /\ gr' \in [Reqs -> Grs]
         /\ timer' \subseteq timer \cup {r \in R : gr[r] = "running"}
         /\ on_push' \subseteq on_push /\ cb' = cb
         /\ \A r \in Reqs \ R : gr'[r] = gr[r]
         /\ \A r \in Reqs : gr'[r] = "running" => gr[r] = "running"
<1> DEFINE live == {r \in R : gr[r] = "running"}
           done == {r \in live : refs[r] = 1}
<1>1. /\ gr' = [r \in Reqs |-> IF r \in done THEN "closing" ELSE gr[r]]
      /\ refs' = [r \in Reqs |-> IF r \in done THEN refs[r] - 1 ELSE refs[r]]
      /\ on_push' = on_push \ done /\ timer' = timer \cup (live \ done) /\ cb' = cb
  BY DEF Teardown, StreamSoleOwner
<1>2. ASSUME NEW r \in Reqs
      PROVE  refs'[r] = Count(r)' /\ refs'[r] \in Nat /\ gr'[r] \in Grs
             /\ (r \in cb => r \notin done)
  <2>1. /\ refs[r] = Count(r) /\ refs[r] \in Nat /\ gr[r] \in Grs
        /\ r \in cb => gr[r] = "running" /\ phase[r] \in Live
    BY DEF TypesOK, OwnersOK
  <2>2. r \in done => phase[r] \notin Live /\ gr[r] = "running" /\ refs[r] = 1
    BY <2>1 DEF Count
  <2>3. QED
    BY <1>1, <2>1, <2>2 DEF Count, Grs
<1>3. refs' \in [Reqs -> Nat] /\ gr' \in [Reqs -> Grs]
  BY <1>1, <1>2
<1>4. OwnersOK'
  BY <1>1, <1>2 DEF OwnersOK, TypesOK
<1>5. QED
  BY <1>1, <1>3, <1>4

(* close_conn of a set of connections.                                     *)
LEMMA CloseEffect ==
  ASSUME PointersOK, NEW R \in SUBSET Reqs, NEW extra, CloseConns(R, extra),
         UNCHANGED <<phase, gen_owned>>
  PROVE  PointersOK' /\ Open' = Open \ R
<1> DEFINE open == {r \in R : conn[r] = "open"}
           gone == open \cap observer
<1>1. /\ conn' = [r \in Reqs |-> IF r \in open THEN "closing" ELSE conn[r]]
      /\ observer' = observer \ gone /\ attached' = attached \ gone
      /\ Teardown(gone) /\ gone \in SUBSET Reqs
  BY DEF CloseConns
<1>2. TypesOK /\ OwnersOK /\ AttachedOK
  BY DEF PointersOK
<1>3. /\ OwnersOK' /\ refs' \in [Reqs -> Nat] /\ gr' \in [Reqs -> Grs]
      /\ timer' \subseteq timer \cup {r \in gone : gr[r] = "running"}
      /\ on_push' \subseteq on_push /\ cb' = cb
      /\ \A r \in Reqs \ gone : gr'[r] = gr[r]
      /\ \A r \in Reqs : gr'[r] = "running" => gr[r] = "running"
  BY <1>1, <1>2, TeardownEffect
<1> HIDE DEF gone
<1>4. conn' \in [Reqs -> Conns]
  BY <1>1, <1>2 DEF TypesOK, Conns
<1>5. TypesOK'
  BY <1>1, <1>2, <1>3, <1>4 DEF TypesOK
<1>6. Open' = Open \ R
  BY <1>1, <1>2 DEF Open, TypesOK
<1>7. AttachedOK'
  <2>1. observer' = attached'
    BY <1>1, <1>2 DEF AttachedOK
  <2>2. ASSUME NEW r \in attached'
        PROVE  conn'[r] = "open" /\ gr'[r] = "running" /\ r \notin timer'
    <3>1. r \in attached /\ r \notin gone /\ r \in observer /\ r \in Reqs
      BY <1>1, <1>2, <2>2 DEF AttachedOK, TypesOK
    <3>2. conn[r] = "open" /\ gr[r] = "running" /\ r \notin timer
      BY <1>2, <3>1 DEF AttachedOK
    <3>3. r \notin open
      BY <3>1 DEF gone
    <3>4. QED
      BY <1>1, <1>3, <3>1, <3>2, <3>3
  <2>3. ASSUME NEW r \in Reqs, gr'[r] = "running" \/ r \in timer'  PROVE r \in gen_owned'
    BY <1>2, <1>3, <2>3 DEF AttachedOK
  <2>4. QED
    BY <2>1, <2>2, <2>3 DEF AttachedOK
<1>8. QED
  BY <1>3, <1>5, <1>6, <1>7 DEF PointersOK

(* finish_response and finish_error.                                       *)
LEMMA FinishEffect ==
  ASSUME PointersOK, NEW r \in Reqs, NEW fs, NEW cancel, Finish(r, fs, cancel),
         UNCHANGED <<phase, gen_owned>>
  PROVE  /\ PointersOK'
         /\ \/ Open' = Open /\ UNCHANGED <<drain_timer, drain_open_conns>>
            \/ r \in Open /\ Open' = Open \ {r} /\ DrainCheck(1)
<1>1. TypesOK /\ OwnersOK /\ AttachedOK
  BY DEF PointersOK
<1>2. /\ Teardown({r}) /\ attached' = attached \ {r}
      /\ observer' = observer \ ({r} \cap attached)
      /\ \/ conn' = conn /\ UNCHANGED <<drain_timer, drain_open_conns>>
         \/ r \in attached /\ conn' = [conn EXCEPT ![r] = "closing"] /\ DrainCheck(1)
  BY DEF Finish
<1>3. /\ OwnersOK' /\ refs' \in [Reqs -> Nat] /\ gr' \in [Reqs -> Grs]
      /\ timer' \subseteq timer \cup {x \in {r} : gr[x] = "running"}
      /\ on_push' \subseteq on_push /\ cb' = cb
      /\ \A x \in Reqs \ {r} : gr'[x] = gr[x]
      /\ \A x \in Reqs : gr'[x] = "running" => gr[x] = "running"
  BY <1>1, <1>2, TeardownEffect
<1>4. conn' \in [Reqs -> Conns] /\ \A x \in Reqs \ {r} : conn'[x] = conn[x]
  BY <1>1, <1>2 DEF TypesOK, Conns
<1>5. TypesOK'
  BY <1>1, <1>2, <1>3, <1>4 DEF TypesOK
<1>6. AttachedOK'
  BY <1>1, <1>2, <1>3, <1>4 DEF AttachedOK, TypesOK
<1>7. CASE conn' = conn /\ UNCHANGED <<drain_timer, drain_open_conns>>
  BY <1>3, <1>5, <1>6, <1>7 DEF PointersOK, Open
<1>8. CASE r \in attached /\ conn' = [conn EXCEPT ![r] = "closing"] /\ DrainCheck(1)
  <2>1. r \in Open /\ Open' = Open \ {r}
    BY <1>1, <1>8 DEF Open, AttachedOK, TypesOK
  <2>2. QED
    BY <1>3, <1>5, <1>6, <1>8, <2>1 DEF PointersOK
<1>9. QED
  BY <1>2, <1>7, <1>8

-----------------------------------------------------------------------------
(* The drain counts the connections that are open; once the server has     *)
(* begun to stop, those all have a generation.                             *)
DrainOK ==
    /\ IsFiniteSet(Open)
    /\ stop = "handled" => Open \subseteq gen_owned
    /\ drain_timer = "active" \/ loop \in {"stop", "signal"} => stop = "handled"
    /\ drain_timer = "active" => drain_open_conns = Cardinality(Open) /\ Open # {}

LEMMA DrainKept ==
  ASSUME DrainOK, gen_owned \subseteq gen_owned', stop' = stop,
         loop' \in {"stop", "signal"} => loop \in {"stop", "signal"},
         \/ Open' = Open /\ UNCHANGED <<drain_timer, drain_open_conns>>
         \/ \E r \in Open : Open' = Open \ {r} /\ DrainCheck(1)
         \/ drain_timer' = "closed" /\ Open' \subseteq Open
  PROVE  DrainOK'
<1>1. CASE Open' = Open /\ UNCHANGED <<drain_timer, drain_open_conns>>
  BY <1>1 DEF DrainOK
<1>2. ASSUME NEW r \in Open, Open' = Open \ {r}, DrainCheck(1)  PROVE DrainOK'
  <2>1. /\ IsFiniteSet(Open') /\ Cardinality(Open) \in Nat /\ Cardinality(Open') \in Nat
        /\ Cardinality(Open') = Cardinality(Open) - 1
        /\ Cardinality(Open') = 0 <=> Open' = {}
    BY <1>2, FS_RemoveElement, FS_CardinalityType, FS_EmptySet DEF DrainOK
  <2>2. CASE drain_timer = "active"
    <3>1. /\ drain_open_conns' = drain_open_conns - 1
          /\ drain_timer' = IF drain_open_conns = 1 THEN "closed" ELSE "active"
          /\ drain_open_conns = Cardinality(Open)
      BY <1>2, <2>2 DEF DrainCheck, DrainOK
    <3>2. QED
      BY <1>2, <2>1, <2>2, <3>1 DEF DrainOK
  <2>3. CASE drain_timer # "active"
    <3>1. UNCHANGED <<drain_timer, drain_open_conns>>
      BY <1>2, <2>3 DEF DrainCheck
    <3>2. QED
      BY <1>2, <2>1, <2>3, <3>1 DEF DrainOK
  <2>4. QED
    BY <2>2, <2>3
<1>3. CASE drain_timer' = "closed" /\ Open' \subseteq Open
  <2>1. IsFiniteSet(Open')
    BY <1>3, FS_Subset DEF DrainOK
  <2>2. QED
    BY <1>3, <2>1 DEF DrainOK
<1>4. QED
  BY <1>1, <1>2, <1>3

SInv == PointersOK /\ DrainOK

(* The engine, through the contract.                                       *)
LEMMA EngineKeeps ==
  ASSUME SInv, NEW r \in Reqs, EngineStep(r) \/ NotifyCb(r)
  PROVE  SInv'
<1> USE DEF connection, request, server
<1>1. TypesOK /\ OwnersOK /\ AttachedOK /\ DrainOK
  BY DEF SInv, PointersOK
<1>2. /\ UNCHANGED <<conn, gr, gen_owned, observer, attached, timer, on_push>>
      /\ UNCHANGED <<loop, stop, drain_timer, drain_open_conns>>
  BY DEF EngineStep, NotifyCb, SendToken, SendError, SendDone, CutShort, GiveUp, Release, Notify,
         StreamPush, StreamFinishCancelled, StreamRelease, Callback, streams
<1>3. AttachedOK' /\ DrainOK'
  <2>1. Open' = Open
    BY <1>2 DEF Open
  <2>2. QED
    BY <1>1, <1>2, <2>1, DrainKept DEF AttachedOK
<1>4. CASE EngineStep(r) /\ Release(r)
  <2>1. /\ phase[r] \in Live /\ phase' = [phase EXCEPT ![r] = "gone"] /\ r \notin cb
        /\ refs' = [refs EXCEPT ![r] = @ - 1] /\ cb' = cb
    BY <1>4 DEF Release, To, StreamRelease, Live
  <2>2. ASSUME NEW x \in Reqs  PROVE refs'[x] = Count(x)' /\ refs'[x] \in Nat
    BY <1>1, <1>2, <2>1 DEF TypesOK, OwnersOK, Count, Live, Phases
  <2>3. refs' \in [Reqs -> Nat] /\ phase' \in [Reqs -> Phases]
    BY <1>1, <2>1, <2>2 DEF TypesOK, Phases
  <2>4. TypesOK'
    BY <1>1, <1>2, <2>1, <2>3 DEF TypesOK
  <2>5. OwnersOK'
    BY <1>1, <1>2, <2>1, <2>2 DEF OwnersOK, TypesOK
  <2>6. QED
    BY <1>3, <2>4, <2>5 DEF SInv, PointersOK
<1>5. CASE ~(EngineStep(r) /\ Release(r))
  <2> DEFINE Moves == phase' = phase \/ (phase[r] \in Live /\ \E p \in Live : phase' = [phase EXCEPT ![r] = p])
             Due == cb' \subseteq cb \/ (phase[r] \in Live /\ cb' = cb \cup ({r} \cap on_push))
  <2>1. refs' = refs /\ Moves /\ Due
    <3>1. ASSUME SendToken(r)  PROVE refs' = refs /\ Moves /\ Due
      BY <3>1 DEF SendToken, StreamPush, Live
    <3>2. ASSUME SendError(r) \/ SendDone(r) \/ CutShort(r)  PROVE refs' = refs /\ Moves /\ Due
      BY <3>2 DEF SendError, SendDone, CutShort, StreamPush, StreamFinishCancelled, To, Live
    <3>3. ASSUME GiveUp(r)  PROVE refs' = refs /\ Moves /\ Due
      BY <3>3 DEF GiveUp, streams, To, Live
    <3>4. ASSUME NotifyCb(r)  PROVE refs' = refs /\ Moves /\ Due
      BY <3>4 DEF NotifyCb, Notify, Callback
    <3>5. QED
      BY <1>5, <3>1, <3>2, <3>3, <3>4 DEF EngineStep
  <2>2. phase' \in [Reqs -> Phases] /\ \A x \in Reqs : phase'[x] \in Live <=> phase[x] \in Live
    BY <1>1, <2>1 DEF TypesOK, Live, Phases
  <2>3. cb' \subseteq Reqs
    BY <1>1, <2>1 DEF TypesOK
  <2>4. TypesOK'
    BY <1>1, <1>2, <2>1, <2>2, <2>3 DEF TypesOK
  <2>5. \A x \in Reqs : refs'[x] = Count(x)'
    BY <1>1, <1>2, <2>1, <2>2 DEF OwnersOK, Count
  <2>6. OwnersOK'
    BY <1>1, <1>2, <2>1, <2>2, <2>3, <2>5 DEF OwnersOK, TypesOK
  <2>7. QED
    BY <1>3, <2>4, <2>6 DEF SInv, PointersOK
<1>6. QED
  BY <1>4, <1>5

(* Connections, and the start of a generation.                             *)
LEMMA ConnectionKeeps ==
  ASSUME SInv, NEW r \in Reqs, OnNewConnection(r) \/ Respond(r) \/ OnConnClose(r)
  PROVE  SInv'
<1> USE DEF gvars, streams, request, server
<1>1. TypesOK /\ OwnersOK /\ AttachedOK /\ DrainOK
  BY DEF SInv, PointersOK
<1>2. /\ UNCHANGED <<refs, phase, gr, gen_owned, observer, attached, timer, cb, on_push>>
      /\ UNCHANGED <<loop, stop, drain_timer, drain_open_conns>>
      /\ \/ conn' = conn
         \/ conn[r] = "none" /\ stop # "handled" /\ conn' = [conn EXCEPT ![r] = "open"]
         \/ conn[r] = "closing" /\ conn' = [conn EXCEPT ![r] = "freed"]
  BY DEF OnNewConnection, Respond, OnConnClose
<1>3. TypesOK' /\ OwnersOK'
  BY <1>1, <1>2 DEF TypesOK, Conns, OwnersOK, Count
<1>4. AttachedOK'
  BY <1>1, <1>2 DEF AttachedOK, TypesOK
<1>5. Open' = Open \/ (stop # "handled" /\ Open' = Open \cup {r})
  BY <1>1, <1>2 DEF Open, TypesOK
<1>6. CASE Open' = Open
  BY <1>1, <1>2, <1>3, <1>4, <1>6, DrainKept DEF SInv, PointersOK
<1>7. CASE stop # "handled" /\ Open' = Open \cup {r}
  <2>1. IsFiniteSet(Open')
    BY <1>1, <1>7, FS_AddElement DEF DrainOK
  <2>2. DrainOK'
    BY <1>1, <1>2, <1>7, <2>1 DEF DrainOK
  <2>3. QED
    BY <1>3, <1>4, <2>2 DEF SInv, PointersOK
<1>8. QED
  BY <1>5, <1>6, <1>7

LEMMA StartKeeps ==
  ASSUME SInv, NEW r \in Reqs, GenRequestStart(r)
  PROVE  SInv'
<1> USE DEF server
<1>1. TypesOK /\ OwnersOK /\ AttachedOK /\ DrainOK
  BY DEF SInv, PointersOK
<1>2. /\ conn[r] = "open" /\ r \notin gen_owned
      /\ phase' = [phase EXCEPT ![r] = "held"] /\ gr' = [gr EXCEPT ![r] = "running"]
      /\ refs' = [refs EXCEPT ![r] = 2] /\ on_push' = on_push \cup {r} /\ cb' = cb
      /\ gen_owned' = gen_owned \cup {r}
      /\ UNCHANGED <<loop, stop, drain_timer, drain_open_conns>>
  BY DEF GenRequestStart, To, StreamCreate
<1>3. \/ /\ attached' = attached \cup {r} /\ observer' = observer \cup {r}
         /\ UNCHANGED <<conn, timer>>
      \/ /\ conn' = [conn EXCEPT ![r] = "closing"] /\ timer' = timer \cup {r}
         /\ UNCHANGED <<attached, observer>>
  BY DEF GenRequestStart
<1>4. TypesOK'
  <2>1. conn' \in [Reqs -> Conns] /\ gr' \in [Reqs -> Grs] /\ phase' \in [Reqs -> Phases]
        /\ refs' \in [Reqs -> Nat]
    BY <1>1, <1>2, <1>3 DEF TypesOK, Conns, Grs, Phases
  <2>2. QED
    BY <1>1, <1>2, <1>3, <2>1 DEF TypesOK
<1>5. OwnersOK'
  BY <1>1, <1>2 DEF OwnersOK, TypesOK, Count, Live
<1>6. r \notin attached /\ r \notin timer
  BY <1>1, <1>2 DEF AttachedOK
<1>7. AttachedOK'
  BY <1>1, <1>2, <1>3, <1>6 DEF AttachedOK, TypesOK
<1>8. r \in Open /\ stop # "handled"
  BY <1>1, <1>2 DEF Open, DrainOK
<1>9. DrainOK'
  <2>1. Open' \subseteq Open
    BY <1>1, <1>3 DEF Open, TypesOK
  <2>2. IsFiniteSet(Open')
    BY <1>1, <2>1, FS_Subset DEF DrainOK
  <2>3. QED
    BY <1>1, <1>2, <1>8, <2>2 DEF DrainOK
<1>10. QED
  BY <1>4, <1>5, <1>7, <1>9 DEF SInv, PointersOK

LEMMA GoneKeeps ==
  ASSUME SInv, NEW r \in Reqs, OnWrite(r) \/ PeerGone(r)
  PROVE  SInv'
<1>1. PointersOK /\ DrainOK /\ TypesOK
  BY DEF SInv, PointersOK
<1>2. CASE CloseConns({r}, {}) /\ DrainCheck(1)
  <2>1. UNCHANGED <<phase, gen_owned, stop, loop>> /\ conn[r] = "open"
    BY DEF OnWrite, PeerGone
  <2>2. PointersOK' /\ Open' = Open \ {r}
    BY <1>1, <1>2, <2>1, CloseEffect
  <2>3. r \in Open
    BY <2>1 DEF Open
  <2>4. QED
    BY <1>1, <1>2, <2>1, <2>2, <2>3, DrainKept DEF SInv
<1>3. CASE ~(CloseConns({r}, {}) /\ DrainCheck(1))
  <2>1. /\ UNCHANGED <<refs, phase, conn, gr, gen_owned, observer, attached, timer, cb, on_push>>
        /\ UNCHANGED <<stop, loop, drain_timer, drain_open_conns>>
    BY <1>3 DEF OnWrite, PeerGone
  <2>2. PointersOK' /\ Open' = Open
    BY <1>1, <2>1 DEF PointersOK, TypesOK, OwnersOK, Count, AttachedOK, Open
  <2>3. QED
    BY <1>1, <2>1, <2>2, DrainKept DEF SInv
<1>4. QED
  BY <1>2, <1>3

(* gen_on_async, the poll timer and the close callback of a gen_request.   *)
LEMMA AsyncKeeps ==
  ASSUME SInv, NEW r \in Reqs, GenOnAsync(r) \/ Async(r) \/ OnTimer(r) \/ OnCloseCb(r)
  PROVE  SInv'
<1> USE DEF gvars, streams, connection, request, server
<1>1. PointersOK /\ DrainOK /\ TypesOK /\ OwnersOK /\ AttachedOK
  BY DEF SInv, PointersOK
<1>2. UNCHANGED <<phase, gen_owned, stop>>
  BY DEF GenOnAsync, Async, AsyncEmpty, AsyncToken, AsyncTokenError, AsyncError, AsyncDone,
         TakeChunk, OnTimer, OnCloseCb
<1>3. loop' \in {"stop", "signal"} => loop \in {"stop", "signal"}
  <2>1. loop' \in {loop, r, None}
    BY DEF GenOnAsync, Async, AsyncEmpty, AsyncToken, AsyncTokenError, AsyncError, AsyncDone,
         Finish, OnTimer, OnCloseCb
  <2>2. QED
    BY <2>1, ServingAssumption
<1>4. ASSUME UNCHANGED <<refs, conn, gr, observer, attached, timer, cb, on_push>>,
             UNCHANGED <<drain_timer, drain_open_conns>>
      PROVE  SInv'
  <2>1. PointersOK' /\ Open' = Open
    BY <1>1, <1>2, <1>4 DEF PointersOK, TypesOK, OwnersOK, Count, AttachedOK, Open
  <2>2. QED
    BY <1>1, <1>2, <1>3, <1>4, <2>1, DrainKept DEF SInv
<1>5. CASE GenOnAsync(r) \/ AsyncEmpty(r)
  BY <1>4, <1>5 DEF GenOnAsync, AsyncEmpty
<1>6. ASSUME NEW fs, NEW cancel, Finish(r, fs, cancel)  PROVE SInv'
  <2>1. /\ PointersOK'
        /\ \/ Open' = Open /\ UNCHANGED <<drain_timer, drain_open_conns>>
           \/ r \in Open /\ Open' = Open \ {r} /\ DrainCheck(1)
    BY <1>1, <1>2, <1>6, FinishEffect
  <2>2. QED
    BY <1>1, <1>2, <1>3, <2>1, DrainKept DEF SInv
<1>7. CASE AsyncError(r) \/ AsyncDone(r) \/ AsyncTokenError(r)
  BY <1>6, <1>7 DEF AsyncError, AsyncDone, AsyncTokenError
<1>8. CASE AsyncToken(r)
  <2>1. \/ /\ UNCHANGED <<refs, conn, gr, observer, attached, timer, cb, on_push>>
           /\ UNCHANGED <<drain_timer, drain_open_conns>>
        \/ conn[r] = "open" /\ CloseConns({r}, {}) /\ DrainCheck(1)
    <3>1. UNCHANGED <<refs, on_push, cb>> \/ CloseConns({r}, {})
      BY <1>8 DEF AsyncToken
    <3>2. QED
      BY <1>8, <3>1 DEF AsyncToken, WriteFailing
  <2>2. CASE conn[r] = "open" /\ CloseConns({r}, {}) /\ DrainCheck(1)
    <3>1. PointersOK' /\ Open' = Open \ {r} /\ r \in Open
      BY <1>1, <1>2, <2>2, CloseEffect DEF Open
    <3>2. QED
      BY <1>1, <1>2, <1>3, <2>2, <3>1, DrainKept DEF SInv
  <2>3. QED
    BY <1>4, <2>1, <2>2
<1>9. CASE OnTimer(r)
  <2>1. /\ Teardown({r}) /\ r \in timer /\ UNCHANGED <<conn, observer, attached>>
        /\ UNCHANGED <<drain_timer, drain_open_conns>>
    BY <1>9 DEF OnTimer
  <2>2. /\ OwnersOK' /\ refs' \in [Reqs -> Nat] /\ gr' \in [Reqs -> Grs]
        /\ timer' \subseteq timer \cup {x \in {r} : gr[x] = "running"}
        /\ on_push' \subseteq on_push /\ cb' = cb
        /\ \A x \in Reqs \ {r} : gr'[x] = gr[x]
        /\ \A x \in Reqs : gr'[x] = "running" => gr[x] = "running"
    BY <1>1, <1>2, <2>1, TeardownEffect
  <2>3. TypesOK' /\ Open' = Open
    BY <1>1, <1>2, <2>1, <2>2 DEF TypesOK, Open
  <2>4. AttachedOK'
    BY <1>1, <1>2, <2>1, <2>2 DEF AttachedOK, TypesOK
  <2>5. QED
    BY <1>1, <1>2, <1>3, <2>1, <2>2, <2>3, <2>4, DrainKept DEF SInv, PointersOK
<1>10. CASE OnCloseCb(r)
  <2>1. /\ gr[r] = "closing" /\ gr' \in {gr, [gr EXCEPT ![r] = "freed"]}
        /\ UNCHANGED <<refs, conn, observer, attached, timer, cb, on_push>>
        /\ UNCHANGED <<drain_timer, drain_open_conns>>
    BY <1>10 DEF OnCloseCb
  <2>2. TypesOK' /\ Open' = Open
    BY <1>1, <1>2, <2>1 DEF TypesOK, Open, Grs
  <2>3. \A x \in Reqs : gr'[x] = "running" <=> gr[x] = "running"
    BY <1>1, <2>1 DEF TypesOK
  <2>4. OwnersOK' /\ AttachedOK'
    BY <1>1, <1>2, <2>1, <2>3 DEF OwnersOK, Count, AttachedOK, TypesOK
  <2>5. QED
    BY <1>1, <1>2, <1>3, <2>1, <2>2, <2>4, DrainKept DEF SInv, PointersOK
<1>11. QED
  BY <1>5, <1>7, <1>8, <1>9, <1>10 DEF Async

(* Stop and drain.                                                         *)
LEMMA StopKeeps ==
  ASSUME SInv, HttpServerStop \/ OnStopAsync \/ OnStopStore \/ OnStopSignal \/ OnDrainTimeout
               \/ UNCHANGED vars
  PROVE  SInv'
<1> USE DEF gvars, streams, connection, request, server
<1>1. PointersOK /\ DrainOK /\ TypesOK /\ OwnersOK /\ AttachedOK
  BY DEF SInv, PointersOK
<1>2. ASSUME UNCHANGED <<refs, phase, conn, gr, gen_owned, observer, attached, timer, cb, on_push>>
      PROVE  PointersOK' /\ Open' = Open
  BY <1>1, <1>2 DEF PointersOK, TypesOK, OwnersOK, Count, AttachedOK, Open
<1>3. CASE OnDrainTimeout
  <2>1. PICK I : CloseConns(Open, I)
    BY <1>3 DEF OnDrainTimeout
  <2>2. UNCHANGED <<phase, gen_owned, stop, loop>> /\ drain_timer' = "closed"
    BY <1>3 DEF OnDrainTimeout
  <2>3. Open \in SUBSET Reqs
    BY DEF Open
  <2>4. PointersOK' /\ Open' = Open \ Open
    BY <1>1, <2>1, <2>2, <2>3, CloseEffect
  <2>5. QED
    BY <1>1, <2>2, <2>4, DrainKept DEF SInv
<1>4. CASE OnStopAsync
  <2>1. /\ stop = "sent" /\ stop' = "handled" /\ loop' = "stop" /\ loop = None
        /\ conn' = [r \in Reqs |-> IF r \in Open \ gen_owned THEN "closing" ELSE conn[r]]
        /\ UNCHANGED <<refs, phase, gr, gen_owned, observer, attached, timer, cb, on_push>>
        /\ UNCHANGED <<drain_timer, drain_open_conns>>
    BY <1>4 DEF OnStopAsync, Free
  <2>2. TypesOK' /\ OwnersOK'
    BY <1>1, <2>1 DEF TypesOK, Conns, OwnersOK, Count
  <2>3. AttachedOK'
    BY <1>1, <2>1 DEF AttachedOK, TypesOK, Open
  <2>4. Open' = Open \cap gen_owned
    BY <1>1, <2>1 DEF Open, TypesOK
  <2>5. IsFiniteSet(Open')
    BY <1>1, <2>4, FS_Subset DEF DrainOK
  <2>6. DrainOK'
    BY <1>1, <2>1, <2>4, <2>5 DEF DrainOK
  <2>7. QED
    BY <2>2, <2>3, <2>6 DEF SInv, PointersOK
<1>5. CASE HttpServerStop \/ OnStopStore \/ OnStopSignal \/ UNCHANGED vars
  <2>1. UNCHANGED <<refs, phase, conn, gr, gen_owned, observer, attached, timer, cb, on_push>>
    BY <1>5 DEF HttpServerStop, OnStopStore, OnStopSignal, vars
  <2>2. PointersOK' /\ Open' = Open
    BY <1>2, <2>1
  <2>3. DrainOK'
    <3>1. CASE HttpServerStop
      BY <1>1, <2>1, <2>2, <3>1 DEF HttpServerStop, DrainOK
    <3>2. CASE OnStopStore
      BY <1>1, <2>1, <2>2, <3>2 DEF OnStopStore, DrainOK
    <3>3. CASE OnStopSignal
      BY <1>1, <2>1, <2>2, <3>3, ServingAssumption DEF OnStopSignal, DrainOK
    <3>4. CASE UNCHANGED vars
      BY <1>1, <2>1, <2>2, <3>4 DEF vars, DrainOK
    <3>5. QED
      BY <1>5, <3>1, <3>2, <3>3, <3>4
  <2>4. QED
    BY <2>2, <2>3 DEF SInv
<1>6. QED
  BY <1>3, <1>4, <1>5

LEMMA ServingStep == SInv /\ [Next]_vars => SInv'
<1> SUFFICES ASSUME SInv, [Next]_vars PROVE SInv'
  OBVIOUS
<1>1. QED
  BY EngineKeeps, ConnectionKeeps, StartKeeps, GoneKeeps, AsyncKeeps, StopKeeps DEF Next

LEMMA ServingInit == Init => SInv
<1> SUFFICES ASSUME Init PROVE SInv
  OBVIOUS
<1> USE DEF Init, GInit, StreamsInit
<1>1. TypesOK
  BY DEF TypesOK, Phases, Conns, Grs
<1>2. OwnersOK
  BY DEF OwnersOK, Count, Live
<1>3. AttachedOK
  BY DEF AttachedOK
<1>4. DrainOK
  <2>1. Open = {}
    BY DEF Open
  <2>2. QED
    BY <2>1, FS_EmptySet, ServingAssumption DEF DrainOK
<1>5. QED
  BY <1>1, <1>2, <1>3, <1>4 DEF SInv, PointersOK

LEMMA ServingInductive == Spec => []SInv
  BY ServingInit, ServingStep, PTL DEF Spec

(* notify_cb on the engine's thread, the observer of a connection, the     *)
(* connection of a gen_request and the stream of either side: nobody       *)
(* follows a pointer to something that is gone, however the peer's hang-   *)
(* up, the engine's last chunk, the poll timer and the stop interleave.    *)
THEOREM PointersNeverDangle == Spec => []NoDanglingPointer
<1>1. SInv => NoDanglingPointer
  BY DEF SInv, PointersOK, TypesOK, OwnersOK, AttachedOK, Count, Live, NoDanglingPointer
<1>2. QED
  BY <1>1, ServingInductive, PTL

(* The drain counter is the number of connections still open: the last one *)
(* to close ends the drain, whichever callback closes it.                  *)
THEOREM DrainCounts == Spec => []DrainCount
<1>1. SInv => DrainCount
  BY DEF SInv, DrainOK, DrainCount
<1>2. QED
  BY <1>1, ServingInductive, PTL

-----------------------------------------------------------------------------
(* The frames of a response.  Shape is ResponseShape of one request, Body  *)
(* what is written while tokens arrive, and Ending what the frames that    *)
(* close a response must look like behind a body of n frames.              *)
Sound(m, o, i) ==
    /\ (o[i] = "head") <=> (i = 1)
    /\ o[i] = "role" => i = 2
    /\ m \in {"chat", "chat_usage"} /\ o[i] \in {"content", "final"} => o[2] = "role"
    /\ o[i] = "usage" => o[i - 1] = "final" /\ m = "chat_usage"
    /\ o[i] = "done" => /\ i = Len(o)
                       /\ o[i - 1] = IF m = "chat_usage" /\ o[i - 1] # "error"
                                       THEN "usage"
                                       ELSE IF o[i - 1] = "error" THEN "error" ELSE "final"
    /\ o[i] \in {"final", "error"} => \A j \in (i + 1)..Len(o) : o[j] \in {"usage", "done"}
Shape(m, o) ==
    /\ m = "json" => o \in {<<>>, <<"json">>, <<"json_error">>}
    /\ m # "json" => \A i \in 1..Len(o) : Sound(m, o, i)

Body(m, sent, o) ==
    /\ m = "json" => o = <<>>
    /\ m # "json" =>
         /\ Len(o) >= 1 /\ o[1] = "head"
         /\ \A i \in 2..Len(o) :
              o[i] = IF i = 2 /\ m \in {"chat", "chat_usage"} THEN "role" ELSE "content"
         /\ m \in {"chat", "chat_usage"} => (sent <=> Len(o) >= 2)

Ending(m, fs, n) ==
    \A j \in 1..Len(fs) :
        /\ fs[j] # "head"
        /\ fs[j] = "role" => j = 1 /\ n = 1
        /\ m \in {"chat", "chat_usage"} /\ fs[j] \in {"content", "final"}
              => n >= 2 \/ fs[1] = "role"
        /\ fs[j] = "usage" => j > 1 /\ fs[j - 1] = "final" /\ m = "chat_usage"
        /\ fs[j] = "done" => /\ j > 1 /\ j = Len(fs)
                             /\ fs[j - 1] = IF m = "chat_usage" /\ fs[j - 1] # "error"
                                       THEN "usage"
                                       ELSE IF fs[j - 1] = "error" THEN "error" ELSE "final"
        /\ fs[j] \in {"final", "error"} => \A k \in (j + 1)..Len(fs) : fs[k] \in {"usage", "done"}
Finals == {"done", "json", "json_error"}

LEMMA BodyShape ==
  ASSUME NEW m, NEW sent, NEW o \in Seq(Frames), Body(m, sent, o)
  PROVE  Shape(m, o)
<1>1. CASE m = "json"
  BY <1>1 DEF Body, Shape
<1>2. CASE m # "json"
  <2>1. ASSUME NEW i \in 1..Len(o)  PROVE Sound(m, o, i)
    <3>1. CASE i = 1
      BY <1>2, <3>1 DEF Body, Sound
    <3>2. CASE i # 1
      <4>1. i \in 2..Len(o)
        BY <3>2
      <4>2. o[i] = IF i = 2 /\ m \in {"chat", "chat_usage"} THEN "role" ELSE "content"
        BY <1>2, <4>1 DEF Body
      <4>3. 2 \in 2..Len(o)
        BY <4>1
      <4>4. m \in {"chat", "chat_usage"} => o[2] = "role"
        BY <1>2, <4>3 DEF Body
      <4>5. QED
        BY <3>2, <4>2, <4>4 DEF Sound
    <3>3. QED
      BY <3>1, <3>2
  <2>2. QED
    BY <1>2, <2>1 DEF Shape
<1>3. QED
  BY <1>1, <1>2

(* A body with any first part of an ending behind it.                      *)
LEMMA EndingShape ==
  ASSUME NEW m, m # "json", NEW sent, NEW o \in Seq(Frames), Body(m, sent, o),
         NEW fs \in Seq(Frames), Ending(m, fs, Len(o)), NEW k \in 0..Len(fs),
         NEW p \in Seq(Frames), Len(p) = Len(o) + k,
         \A i \in 1..Len(p) : p[i] = IF i <= Len(o) THEN o[i] ELSE fs[i - Len(o)]
  PROVE  Shape(m, p)
<1>1. SUFFICES ASSUME NEW i \in 1..Len(p)  PROVE Sound(m, p, i)
  BY DEF Shape
<1>2. Len(o) \in Nat /\ Len(o) >= 1 /\ Len(fs) \in Nat /\ o[1] = "head" /\ p[1] = "head"
  <2>1. Len(o) \in Nat /\ Len(o) >= 1 /\ Len(fs) \in Nat /\ o[1] = "head"
    <3>1. Len(o) >= 1 /\ o[1] = "head"
      BY Zenon DEF Body
    <3>2. QED
      BY <3>1, LenProperties
  <2>2. p[1] = o[1]
    <3>1. 1 \in 1..Len(p) /\ 1 <= Len(o)
      BY <2>1
    <3>2. QED
      BY <3>1
  <2>3. QED
    BY <2>1, <2>2
<1> k \in Nat /\ k <= Len(fs) /\ Len(p) = Len(o) + k /\ Len(p) \in Nat
  BY <1>2
<1>3. m \in {"chat", "chat_usage"} /\ Len(o) >= 2 => p[2] = "role"
  <2>1. SUFFICES ASSUME m \in {"chat", "chat_usage"}, Len(o) >= 2  PROVE p[2] = "role"
    OBVIOUS
  <2>2. o[2] = "role" /\ p[2] = o[2]
    <3>1. Len(o) \in Nat /\ 2 <= Len(o) /\ Len(p) \in Nat /\ 2 <= Len(p)
      <4>1. Len(o) \in Nat /\ 2 <= Len(o)
        BY <1>2, <2>1
      <4>2. \A a, b \in Nat : 2 <= a => 2 <= a + b
        OBVIOUS
      <4>3. QED
        BY <4>1, <4>2
    <3>2. 2 \in 2..Len(o) /\ 2 \in 1..Len(p)
      BY <3>1
    <3>3. QED
      BY <2>1, <3>1, <3>2 DEF Body
  <2>3. QED
    BY <2>2
<1>4. CASE i <= Len(o)
  <2>1. \/ p[i] = o[i] /\ i = 1
        \/ p[i] = IF i = 2 /\ m \in {"chat", "chat_usage"} THEN "role" ELSE "content"
    <3>1. CASE i = 1
      BY <1>4, <3>1
    <3>2. CASE i # 1
      <4>1. i \in 2..Len(o)
        BY <1>2, <1>4, <3>2
      <4>2. QED
        BY <1>4, <4>1 DEF Body
    <3>3. QED
      BY <3>1, <3>2
  <2>2. m \in {"chat", "chat_usage"} /\ i # 1 => p[2] = "role"
    <3>1. i # 1 => Len(o) >= 2
      BY <1>2, <1>4
    <3>2. QED
      BY <1>3, <3>1
  <2>3. CASE i = 1
    BY <1>2, <2>3 DEF Sound
  <2>4. CASE i # 1
    BY <2>1, <2>2, <2>4 DEF Sound
  <2>5. QED
    BY <2>3, <2>4
<1>5. CASE i > Len(o)
  <2>1. PICK j \in 1..Len(fs) : i = Len(o) + j /\ j <= k /\ p[i] = fs[j]
    <3>1. i - Len(o) \in 1..Len(fs) /\ i - Len(o) <= k
      BY <1>2, <1>5
    <3>2. p[i] = fs[i - Len(o)] /\ i = Len(o) + (i - Len(o))
      BY <1>2, <1>5
    <3>3. QED
      BY <3>1, <3>2
  <2>2. j > 1 => p[i - 1] = fs[j - 1]
    <3>1. SUFFICES ASSUME j > 1  PROVE p[i - 1] = fs[j - 1]
      OBVIOUS
    <3>2. i - 1 \in 1..Len(p) /\ ~(i - 1 <= Len(o)) /\ (i - 1) - Len(o) = j - 1
      BY <1>2, <2>1, <3>1
    <3>3. QED
      BY <3>2
  <2>3. \A l \in (i + 1)..Len(p) : p[l] = fs[l - Len(o)] /\ l - Len(o) \in (j + 1)..Len(fs)
    BY <1>2, <1>5, <2>1
  <2>4. fs[1] = "role" /\ Len(o) = 1 => p[2] = "role"
    BY <1>2, <2>1
  <2>5. fs[1] = "role" => Len(o) = 1
    <3>1. 1 \in 1..Len(fs)
      BY <1>2, <2>1
    <3>2. QED
      BY <3>1 DEF Ending
  <2>6. fs[j] = "role" => i = 2
    <3>1. SUFFICES ASSUME fs[j] = "role"  PROVE i = 2
      OBVIOUS
    <3>2. j = 1 /\ Len(o) = 1
      BY <2>1, <3>1 DEF Ending
    <3>3. QED
      BY <2>1, <3>2
  <2>7. m \in {"chat", "chat_usage"} /\ fs[j] \in {"content", "final"} => p[2] = "role"
    BY <1>2, <1>3, <2>1, <2>4, <2>5 DEF Ending
  <2>8. fs[j] = "done" => i = Len(p)
    <3>1. SUFFICES ASSUME fs[j] = "done"  PROVE i = Len(p)
      OBVIOUS
    <3>2. j = Len(fs)
      BY <2>1, <3>1 DEF Ending
    <3>3. k = j
      BY <1>2, <2>1, <3>2
    <3>4. QED
      BY <2>1, <3>3
  <2>9. fs[j] \in {"final", "error"} => \A l \in (i + 1)..Len(p) : p[l] \in {"usage", "done"}
    <3>1. SUFFICES ASSUME fs[j] \in {"final", "error"}, NEW l \in (i + 1)..Len(p)
                   PROVE  p[l] \in {"usage", "done"}
      OBVIOUS
    <3>2. QED
      BY <2>1, <2>3, <3>1 DEF Ending
  <2>10. fs[j] # "head"
    BY <2>1 DEF Ending
  <2>11. fs[j] = "usage" => p[i - 1] = "final" /\ m = "chat_usage"
    BY <2>1, <2>2 DEF Ending
  <2>12. fs[j] = "done" => p[i - 1] = IF m = "chat_usage" /\ p[i - 1] # "error"
                                       THEN "usage"
                                       ELSE IF p[i - 1] = "error" THEN "error" ELSE "final"
    BY <2>1, <2>2 DEF Ending
  <2>13. i # 1
    BY <1>2, <1>5
  <2>14. QED
    BY <2>1, <2>6, <2>7, <2>8, <2>9, <2>10, <2>11, <2>12, <2>13 DEF Sound
<1>6. QED
  BY <1>2, <1>4, <1>5

(* One more frame.                                                         *)
LEMMA FrameAppended ==
  ASSUME NEW s \in Seq(Frames), NEW f \in Frames
  PROVE  /\ s \o <<f>> \in Seq(Frames) /\ Len(s \o <<f>>) = Len(s) + 1
         /\ \A i \in 1..Len(s) : (s \o <<f>>)[i] = s[i]
         /\ (s \o <<f>>)[Len(s) + 1] = f
<1>1. <<f>> \in Seq(Frames) /\ Len(<<f>>) = 1 /\ <<f>>[1] = f
  OBVIOUS
<1>2. QED
  BY <1>1, ConcatProperties

LEMMA OneAndOne ==
  ASSUME NEW a \in Frames, NEW b \in Frames
  PROVE  <<a>> \o <<b>> = <<a, b>>
<1>1. <<a>> \in Seq(Frames) /\ Len(<<a>>) = 1
  OBVIOUS
<1>2. <<a, b>> \in Seq(Frames) /\ Len(<<a, b>>) = 2
  OBVIOUS
<1>3. <<a>> \o <<b>> \in Seq(Frames) /\ Len(<<a>> \o <<b>>) = 2
  BY <1>1, FrameAppended
<1>4. ASSUME NEW i \in 1..2  PROVE (<<a>> \o <<b>>)[i] = <<a, b>>[i]
  <2>1. CASE i \in 1..1
    <3>1. (<<a>> \o <<b>>)[i] = <<a>>[i]
      BY <1>1, <2>1, FrameAppended
    <3>2. QED
      BY <2>1, <3>1
  <2>2. CASE i = 2
    <3>1. (<<a>> \o <<b>>)[1 + 1] = b
      BY <1>1, FrameAppended
    <3>2. QED
      BY <2>2, <3>1
  <2>3. QED
    BY <2>1, <2>2
<1>5. QED
  BY <1>2, <1>3, <1>4, SeqEqual

LEMMA TwoAndOne ==
  ASSUME NEW a \in Frames, NEW b \in Frames, NEW c \in Frames
  PROVE  <<a, b>> \o <<c>> = <<a, b, c>>
<1>1. <<a, b>> \in Seq(Frames) /\ Len(<<a, b>>) = 2
  OBVIOUS
<1>2. <<a, b, c>> \in Seq(Frames) /\ Len(<<a, b, c>>) = 3
  OBVIOUS
<1>3. <<a, b>> \o <<c>> \in Seq(Frames) /\ Len(<<a, b>> \o <<c>>) = 3
  BY <1>1, FrameAppended
<1>4. ASSUME NEW i \in 1..3  PROVE (<<a, b>> \o <<c>>)[i] = <<a, b, c>>[i]
  <2>1. CASE i \in 1..2
    <3>1. (<<a, b>> \o <<c>>)[i] = <<a, b>>[i]
      BY <1>1, <2>1, FrameAppended
    <3>2. QED
      BY <2>1, <3>1
  <2>2. CASE i = 3
    <3>1. (<<a, b>> \o <<c>>)[2 + 1] = c
      BY <1>1, FrameAppended
    <3>2. QED
      BY <2>2, <3>1
  <2>3. QED
    BY <2>1, <2>2
<1>5. QED
  BY <1>2, <1>3, <1>4, SeqEqual

LEMMA ThreeAndOne ==
  ASSUME NEW a \in Frames, NEW b \in Frames, NEW c \in Frames, NEW d \in Frames
  PROVE  <<a, b, c>> \o <<d>> = <<a, b, c, d>>
<1>1. <<a, b, c>> \in Seq(Frames) /\ Len(<<a, b, c>>) = 3
  OBVIOUS
<1>2. <<a, b, c, d>> \in Seq(Frames) /\ Len(<<a, b, c, d>>) = 4
  OBVIOUS
<1>3. <<a, b, c>> \o <<d>> \in Seq(Frames) /\ Len(<<a, b, c>> \o <<d>>) = 4
  BY <1>1, FrameAppended
<1>4. ASSUME NEW i \in 1..4  PROVE (<<a, b, c>> \o <<d>>)[i] = <<a, b, c, d>>[i]
  <2>1. CASE i \in 1..3
    <3>1. (<<a, b, c>> \o <<d>>)[i] = <<a, b, c>>[i]
      BY <1>1, <2>1, FrameAppended
    <3>2. QED
      BY <2>1, <3>1
  <2>2. CASE i = 4
    <3>1. (<<a, b, c>> \o <<d>>)[3 + 1] = d
      BY <1>1, FrameAppended
    <3>2. QED
      BY <2>2, <3>1
  <2>3. QED
    BY <2>1, <2>2
<1>5. QED
  BY <1>2, <1>3, <1>4, SeqEqual

LEMMA OneAndTwo ==
  ASSUME NEW a \in Frames, NEW b \in Frames, NEW c \in Frames
  PROVE  <<a>> \o <<b, c>> = <<a, b, c>>
<1>1. <<a>> \in Seq(Frames) /\ <<b>> \in Seq(Frames) /\ <<c>> \in Seq(Frames)
  OBVIOUS
<1>2. <<a>> \o (<<b>> \o <<c>>) = (<<a>> \o <<b>>) \o <<c>>
  BY <1>1, ConcatAssociative
<1>3. QED
  BY <1>2, OneAndOne, TwoAndOne

LEMMA ResponseFramesAre ==
  ASSUME NEW r \in Reqs, NEW flush \in BOOLEAN
  PROVE  LET first == IF Chat(r) /\ r \notin role_sent THEN "role" ELSE "content"
             some == flush \/ (Chat(r) /\ r \notin role_sent)
         IN  /\ mode[r] = "json" => ResponseFrames(r, flush) = <<"json">>
             /\ mode[r] \in {"completion", "chat"} =>
                  ResponseFrames(r, flush) =
                    IF some THEN <<first, "final", "done">> ELSE <<"final", "done">>
             /\ mode[r] = "chat_usage" =>
                  ResponseFrames(r, flush) =
                    IF some THEN <<first, "final", "usage", "done">>
                    ELSE <<"final", "usage", "done">>
<1> DEFINE first == IF Chat(r) /\ r \notin role_sent THEN "role" ELSE "content"
           some == flush \/ (Chat(r) /\ r \notin role_sent)
           P == IF some THEN <<first>> ELSE <<>>
<1>1. first \in Frames /\ "final" \in Frames /\ "usage" \in Frames /\ "done" \in Frames
  BY DEF Frames
<1>2. CASE mode[r] = "json"
  BY <1>2 DEF ResponseFrames
<1>3. CASE mode[r] = "completion"
  <2>1. ResponseFrames(r, flush) = P \o <<"final", "done">>
    BY <1>3 DEF ResponseFrames, Chat
  <2>2. <<"final", "done">> \in Seq(Frames)
    BY <1>1
  <2>3. some => P \o <<"final", "done">> = <<first, "final", "done">>
    BY <1>1, OneAndTwo
  <2>4. ~some => P \o <<"final", "done">> = <<"final", "done">>
    BY <2>2, ConcatEmptySeq
  <2>5. QED
    BY <1>3, <2>1, <2>3, <2>4
<1>4. CASE mode[r] \in {"chat", "chat_usage"}
  <2> DEFINE F == P \o <<"final">>
             U == IF mode[r] = "chat_usage" THEN <<"usage">> ELSE <<>>
  <2>1. ResponseFrames(r, flush) = (F \o U) \o <<"done">>
    BY <1>4 DEF ResponseFrames, Chat
  <2>2. F = IF some THEN <<first, "final">> ELSE <<"final">>
    <3>1. <<"final">> \in Seq(Frames)
      BY <1>1
    <3>2. some => F = <<first, "final">>
      BY <1>1, OneAndOne
    <3>3. ~some => F = <<"final">>
      BY <3>1, ConcatEmptySeq
    <3>4. QED
      BY <3>2, <3>3
  <2>3. <<first, "final">> \in Seq(Frames) /\ <<"final">> \in Seq(Frames)
    BY <1>1
  <2> HIDE DEF F, first, some
  <2>4. CASE mode[r] = "chat"
    <3>1. F \o U = F
      BY <2>2, <2>3, <2>4, ConcatEmptySeq
    <3>2. F \o <<"done">> = IF some THEN <<first, "final", "done">> ELSE <<"final", "done">>
      BY <1>1, <2>2, OneAndOne, TwoAndOne
    <3>3. QED
      BY <2>1, <2>4, <3>1, <3>2 DEF some, first
  <2>5. CASE mode[r] = "chat_usage"
    <3>1. F \o U = IF some THEN <<first, "final", "usage">> ELSE <<"final", "usage">>
      BY <1>1, <2>2, <2>5, OneAndOne, TwoAndOne
    <3> HIDE DEF U
    <3>2. CASE some
      <4>1. <<first, "final", "usage">> \o <<"done">> = <<first, "final", "usage", "done">>
        BY <1>1, ThreeAndOne
      <4>2. QED
        BY <2>1, <2>5, <3>1, <3>2, <4>1 DEF some, first
    <3>3. CASE ~some
      <4>1. <<"final", "usage">> \o <<"done">> = <<"final", "usage", "done">>
        BY <1>1, TwoAndOne
      <4>2. QED
        BY <2>1, <2>5, <3>1, <3>3, <4>1 DEF some, first
    <3>4. QED
      BY <3>2, <3>3
  <2>6. QED
    BY <1>4, <2>4, <2>5
<1>5. QED
  BY <1>2, <1>3, <1>4 DEF Chat

(* What finish_response and finish_error write is an ending of any body.   *)
Closes(r, fs, n) ==
    /\ fs \in Seq(Frames) /\ Len(fs) >= 1 /\ fs[Len(fs)] \in Finals
    /\ mode[r] = "json" => fs \in {<<"json">>, <<"json_error">>}
    /\ mode[r] # "json" => Ending(mode[r], fs, n)

LEMMA OneFrames ==
  ASSUME NEW a \in Frames
  PROVE  /\ <<a>> \in Seq(Frames) /\ Len(<<a>>) = 1
         /\ <<a>>[1] = a
  OBVIOUS

LEMMA TwoFrames ==
  ASSUME NEW a \in Frames, NEW b \in Frames
  PROVE  /\ <<a, b>> \in Seq(Frames) /\ Len(<<a, b>>) = 2
         /\ <<a, b>>[1] = a /\ <<a, b>>[2] = b
  OBVIOUS

LEMMA ThreeFrames ==
  ASSUME NEW a \in Frames, NEW b \in Frames, NEW c \in Frames
  PROVE  /\ <<a, b, c>> \in Seq(Frames) /\ Len(<<a, b, c>>) = 3
         /\ <<a, b, c>>[1] = a /\ <<a, b, c>>[2] = b /\ <<a, b, c>>[3] = c
  OBVIOUS

LEMMA FourFrames ==
  ASSUME NEW a \in Frames, NEW b \in Frames, NEW c \in Frames, NEW d \in Frames
  PROVE  /\ <<a, b, c, d>> \in Seq(Frames) /\ Len(<<a, b, c, d>>) = 4
         /\ <<a, b, c, d>>[1] = a /\ <<a, b, c, d>>[2] = b
         /\ <<a, b, c, d>>[3] = c /\ <<a, b, c, d>>[4] = d
  OBVIOUS

LEMMA TwoEnd ==
  ASSUME NEW r \in Reqs, NEW n \in Nat, NEW a \in {"final", "error"}, mode[r] # "json",
         a = "final" => mode[r] # "chat_usage", a = "final" /\ Chat(r) => n >= 2
  PROVE  Closes(r, <<a, "done">>, n)
<1> DEFINE fs == <<a, "done">>
<1>1. a \in Frames /\ "done" \in Frames
  BY DEF Frames
<1>2. /\ fs \in Seq(Frames) /\ Len(fs) = 2
      /\ fs[1] = a /\ fs[2] = "done"
  BY <1>1, TwoFrames
<1> HIDE DEF fs
<1>3. Ending(mode[r], fs, n)
  <2> SUFFICES ASSUME NEW j \in 1..2
               PROVE  Ending(mode[r], fs, n)!(j)
    BY <1>2 DEF Ending
  <2>1. CASE j = 1
    BY <1>2, <2>1 DEF Chat
  <2>2. CASE j = 2
    BY <1>2, <2>2 DEF Chat
  <2>3. QED
    BY <2>1, <2>2
<1>4. fs[Len(fs)] \in Finals
  BY <1>2 DEF Finals
<1>5. QED
  BY <1>2, <1>3, <1>4 DEF Closes, fs

LEMMA ThreeEnd ==
  ASSUME NEW r \in Reqs, NEW n \in Nat, NEW a \in {"role", "content"}, mode[r] # "json",
         mode[r] # "chat_usage", a = "role" => n = 1, Chat(r) /\ a # "role" => n >= 2
  PROVE  Closes(r, <<a, "final", "done">>, n)
<1> DEFINE fs == <<a, "final", "done">>
<1>1. a \in Frames /\ "final" \in Frames /\ "done" \in Frames
  BY DEF Frames
<1>2. /\ fs \in Seq(Frames) /\ Len(fs) = 3
      /\ fs[1] = a /\ fs[2] = "final" /\ fs[3] = "done"
  BY <1>1, ThreeFrames
<1> HIDE DEF fs
<1>3. Ending(mode[r], fs, n)
  <2> SUFFICES ASSUME NEW j \in 1..3
               PROVE  Ending(mode[r], fs, n)!(j)
    BY <1>2 DEF Ending
  <2>1. CASE j = 1
    BY <1>2, <2>1 DEF Chat
  <2>2. CASE j = 2
    BY <1>2, <2>2 DEF Chat
  <2>3. CASE j = 3
    BY <1>2, <2>3 DEF Chat
  <2>4. QED
    BY <2>1, <2>2, <2>3
<1>4. fs[Len(fs)] \in Finals
  BY <1>2 DEF Finals
<1>5. QED
  BY <1>2, <1>3, <1>4 DEF Closes, fs

LEMMA UsageEnd ==
  ASSUME NEW r \in Reqs, NEW n \in Nat, mode[r] # "json",
         mode[r] = "chat_usage", n >= 2
  PROVE  Closes(r, <<"final", "usage", "done">>, n)
<1> DEFINE fs == <<"final", "usage", "done">>
<1>1. "final" \in Frames /\ "usage" \in Frames /\ "done" \in Frames
  BY DEF Frames
<1>2. /\ fs \in Seq(Frames) /\ Len(fs) = 3
      /\ fs[1] = "final" /\ fs[2] = "usage" /\ fs[3] = "done"
  BY <1>1, ThreeFrames
<1> HIDE DEF fs
<1>3. Ending(mode[r], fs, n)
  <2> SUFFICES ASSUME NEW j \in 1..3
               PROVE  Ending(mode[r], fs, n)!(j)
    BY <1>2 DEF Ending
  <2>1. CASE j = 1
    BY <1>2, <2>1 DEF Chat
  <2>2. CASE j = 2
    BY <1>2, <2>2 DEF Chat
  <2>3. CASE j = 3
    BY <1>2, <2>3 DEF Chat
  <2>4. QED
    BY <2>1, <2>2, <2>3
<1>4. fs[Len(fs)] \in Finals
  BY <1>2 DEF Finals
<1>5. QED
  BY <1>2, <1>3, <1>4 DEF Closes, fs

LEMMA FourEnd ==
  ASSUME NEW r \in Reqs, NEW n \in Nat, NEW a \in {"role", "content"}, mode[r] # "json",
         mode[r] = "chat_usage", a = "role" => n = 1, a # "role" => n >= 2
  PROVE  Closes(r, <<a, "final", "usage", "done">>, n)
<1> DEFINE fs == <<a, "final", "usage", "done">>
<1>1. a \in Frames /\ "final" \in Frames /\ "usage" \in Frames /\ "done" \in Frames
  BY DEF Frames
<1>2. /\ fs \in Seq(Frames) /\ Len(fs) = 4
      /\ fs[1] = a /\ fs[2] = "final" /\ fs[3] = "usage" /\ fs[4] = "done"
  BY <1>1, FourFrames
<1> HIDE DEF fs
<1>3. Ending(mode[r], fs, n)
  <2> SUFFICES ASSUME NEW j \in 1..4
               PROVE  Ending(mode[r], fs, n)!(j)
    BY <1>2 DEF Ending
  <2>1. CASE j = 1
    BY <1>2, <2>1 DEF Chat
  <2>2. CASE j = 2
    BY <1>2, <2>2 DEF Chat
  <2>3. CASE j = 3
    BY <1>2, <2>3 DEF Chat
  <2>4. CASE j = 4
    BY <1>2, <2>4 DEF Chat
  <2>5. QED
    BY <2>1, <2>2, <2>3, <2>4
<1>4. fs[Len(fs)] \in Finals
  BY <1>2 DEF Finals
<1>5. QED
  BY <1>2, <1>3, <1>4 DEF Closes, fs

LEMMA JsonEnd ==
  ASSUME NEW r \in Reqs, NEW n \in Nat, NEW a \in {"json", "json_error"}, mode[r] = "json"
  PROVE  Closes(r, <<a>>, n)
<1>1. a \in Frames
  BY DEF Frames
<1>2. <<a>> \in Seq(Frames) /\ Len(<<a>>) = 1 /\ <<a>>[1] = a
  BY <1>1, OneFrames
<1>3. <<a>>[Len(<<a>>)] \in Finals
  BY <1>2 DEF Finals
<1>4. <<a>> \in {<<"json">>, <<"json_error">>}
  OBVIOUS
<1>5. QED
  BY <1>2, <1>3, <1>4 DEF Closes

LEMMA ErrorCloses ==
  ASSUME NEW r \in Reqs, NEW n \in Nat
  PROVE  Closes(r, ErrorFrames(r), n)
<1>1. CASE mode[r] = "json"
  BY <1>1, JsonEnd DEF ErrorFrames, Sse
<1>2. CASE mode[r] # "json"
  BY <1>2, TwoEnd DEF ErrorFrames, Sse
<1>3. QED
  BY <1>1, <1>2

LEMMA ResponseCloses ==
  ASSUME NEW r \in Reqs, NEW flush \in BOOLEAN, NEW n \in Nat,
         mode[r] \in {"chat", "chat_usage", "completion", "json"},
         mode[r] # "json" => n >= 1,
         Chat(r) => (r \in role_sent <=> n >= 2)
  PROVE  Closes(r, ResponseFrames(r, flush), n)
<1> DEFINE first == IF Chat(r) /\ r \notin role_sent THEN "role" ELSE "content"
           some == flush \/ (Chat(r) /\ r \notin role_sent)
<1>1. CASE mode[r] = "json"
  BY <1>1, ResponseFramesAre, JsonEnd
<1>2. first \in {"role", "content"} /\ (first = "role" <=> Chat(r) /\ r \notin role_sent)
  OBVIOUS
<1>3. first = "role" => n = 1
  <2>1. CASE Chat(r) /\ r \notin role_sent
    <3>1. n >= 1 /\ ~(n >= 2)
      BY <2>1 DEF Chat
    <3>2. n = 1
      BY <3>1
    <3>3. QED
      BY <3>2
  <2>2. QED
    BY <1>2, <2>1
<1>4. Chat(r) /\ first # "role" => n >= 2
  BY <1>2
<1>5. ~some => ~Chat(r) \/ n >= 2
  OBVIOUS
<1>6. CASE mode[r] \in {"completion", "chat"}
  <2>1. ResponseFrames(r, flush) =
            IF some THEN <<first, "final", "done">> ELSE <<"final", "done">>
    BY <1>6, ResponseFramesAre
  <2> HIDE DEF first, some
  <2>2. CASE some
    BY <1>2, <1>3, <1>4, <1>6, <2>1, <2>2, ThreeEnd
  <2>3. CASE ~some
    BY <1>5, <1>6, <2>1, <2>3, TwoEnd
  <2>4. QED
    BY <2>2, <2>3
<1>7. CASE mode[r] = "chat_usage"
  <2>1. ResponseFrames(r, flush) =
            IF some THEN <<first, "final", "usage", "done">> ELSE <<"final", "usage", "done">>
    BY <1>7, ResponseFramesAre
  <2>2. Chat(r)
    BY <1>7 DEF Chat
  <2> HIDE DEF first, some
  <2>3. CASE some
    BY <1>2, <1>3, <1>4, <1>7, <2>1, <2>2, <2>3, FourEnd
  <2>4. CASE ~some
    BY <1>5, <1>7, <2>1, <2>2, <2>4, UsageEnd
  <2>5. QED
    BY <2>3, <2>4
<1>8. QED
  BY <1>1, <1>6, <1>7

-----------------------------------------------------------------------------
(* What is written on a connection and what of it is unsent.               *)
Wire(c, owned, att, m, sent, w, o) ==
    /\ w \in Seq(BOOLEAN) /\ o \in Seq(Frames)
    /\ ~owned => o = <<>> /\ ~sent
    /\ owned => c # "none" /\ m \in Modes
    /\ att => owned /\ Body(m, sent, o)
    /\ owned => Shape(m, o)
    /\ owned /\ ~att /\ c = "open" =>
         /\ o # <<>> /\ o[Len(o)] \in Finals
         /\ w # <<>> /\ w[Len(w)]
Wires(r) ==
    Wire(conn[r], r \in gen_owned, r \in attached, mode[r], r \in role_sent, wq[r], out[r])
WireTypes == DOMAIN wq = Reqs /\ DOMAIN out = Reqs /\ DOMAIN mode = Reqs
WInv == WireTypes /\ \A r \in Reqs : Wires(r)

(* A step leaves a connection's wire alone, closes the connection, or      *)
(* accepts it.                                                             *)
SameWire(x) ==
    /\ wq'[x] = wq[x] /\ out'[x] = out[x] /\ mode'[x] = mode[x]
    /\ x \in role_sent' <=> x \in role_sent
    /\ x \in gen_owned' <=> x \in gen_owned
    /\ x \in attached' <=> x \in attached
    /\ \/ conn'[x] = conn[x]
       \/ conn[x] # "none" /\ conn'[x] \notin {"none", "open"}
       \/ x \notin gen_owned
ClosedWire(x) ==
    /\ wq'[x] \in Seq(BOOLEAN) /\ out'[x] = out[x] /\ mode'[x] = mode[x]
    /\ x \in role_sent' <=> x \in role_sent
    /\ x \in gen_owned' <=> x \in gen_owned
    /\ x \notin attached' /\ conn'[x] \notin {"none", "open"}

LEMMA WireKept ==
  ASSUME NEW x \in Reqs, Wires(x), SameWire(x) \/ ClosedWire(x)
  PROVE  Wires(x)'
<1>1. CASE SameWire(x)
  BY <1>1 DEF Wires, Wire, SameWire
<1>2. CASE ClosedWire(x)
  BY <1>2 DEF Wires, Wire, ClosedWire
<1>3. QED
  BY <1>1, <1>2

(* The queue of unsent writes.                                             *)
LEMMA WriteKept ==
  ASSUME NEW w \in Seq(BOOLEAN), NEW n \in Nat, NEW last \in BOOLEAN
  PROVE  LET v == w \o [i \in 1..n |-> last /\ i = n]
         IN  /\ v \in Seq(BOOLEAN)
             /\ n >= 1 /\ last => v # <<>> /\ v[Len(v)]
<1> DEFINE t == [i \in 1..n |-> last /\ i = n]
           v == w \o t
<1>1. t \in Seq(BOOLEAN) /\ Len(t) = n
  <2>1. t \in [1..n -> BOOLEAN]
    BY Zenon
  <2>2. QED
    BY <2>1, LenProperties
<1>2. n >= 1 /\ last => t[n] = TRUE
  <2>1. SUFFICES ASSUME n >= 1, last PROVE t[n] = TRUE
    OBVIOUS
  <2>2. n \in 1..n
    BY <2>1
  <2>3. QED
    BY <2>1, <2>2, Zenon
<1> HIDE DEF t
<1>3. v \in Seq(BOOLEAN) /\ Len(v) = Len(w) + n
      /\ \A i \in 1..(Len(w) + n) : v[i] = IF i <= Len(w) THEN w[i] ELSE t[i - Len(w)]
  BY <1>1, ConcatProperties
<1>4. n >= 1 /\ last => v # <<>> /\ v[Len(v)] = TRUE
  <2>1. SUFFICES ASSUME n >= 1, last PROVE v # <<>> /\ v[Len(v)] = TRUE
    OBVIOUS
  <2>2. Len(w) \in Nat /\ Len(w) + n \in 1..(Len(w) + n) /\ ~(Len(w) + n <= Len(w))
        /\ (Len(w) + n) - Len(w) = n
    BY <2>1
  <2>3. v[Len(w) + n] = TRUE
    BY <1>2, <1>3, <2>1, <2>2
  <2>4. Len(v) # 0
    BY <1>3, <2>1, <2>2
  <2>5. QED
    BY <1>3, <2>3, <2>4
<1>5. QED
  BY <1>3, <1>4 DEF t

LEMMA WiresKept ==
  ASSUME WInv, WireTypes', \A x \in Reqs : SameWire(x) \/ ClosedWire(x)
  PROVE  WInv'
  BY WireKept DEF WInv

LEMMA OneWire ==
  ASSUME WInv, WireTypes', NEW r \in Reqs,
         \A x \in Reqs \ {r} : SameWire(x) \/ ClosedWire(x), Wires(r)'
  PROVE  WInv'
<1>1. ASSUME NEW x \in Reqs  PROVE Wires(x)'
  <2>1. CASE x = r
    BY <2>1
  <2>2. CASE x # r
    BY <2>2, WireKept DEF WInv
  <2>3. QED
    BY <2>1, <2>2
<1>2. QED
  BY <1>1 DEF WInv

LEMMA QuietWires ==
  ASSUME WInv, UNCHANGED <<conn, gen_owned, wq, out, mode, role_sent, attached>>
  PROVE  WInv'
<1>1. WireTypes'
  BY DEF WInv, WireTypes
<1>2. \A x \in Reqs : SameWire(x)
  BY DEF SameWire
<1>3. QED
  BY <1>1, <1>2, WiresKept

LEMMA QuietSteps ==
  ASSUME WInv,
         \/ \E r \in Reqs : \/ EngineStep(r) \/ NotifyCb(r) \/ OnTimer(r) \/ OnCloseCb(r)
                            \/ GenOnAsync(r) \/ AsyncEmpty(r)
         \/ HttpServerStop \/ OnStopStore \/ OnStopSignal \/ UNCHANGED vars
  PROVE  WInv'
<1> USE DEF connection, request, server
<1>1. CASE \E r \in Reqs : EngineStep(r) \/ NotifyCb(r)
  BY <1>1, QuietWires DEF EngineStep, NotifyCb
<1>2. CASE \E r \in Reqs : OnTimer(r) \/ OnCloseCb(r) \/ GenOnAsync(r) \/ AsyncEmpty(r)
  BY <1>2, QuietWires DEF OnTimer, OnCloseCb, GenOnAsync, AsyncEmpty
<1>3. CASE HttpServerStop \/ OnStopStore \/ OnStopSignal
  BY <1>3, QuietWires DEF HttpServerStop, OnStopStore, OnStopSignal
<1>4. CASE UNCHANGED vars
  BY <1>4, QuietWires DEF vars
<1>5. QED
  BY <1>1, <1>2, <1>3, <1>4

(* Connections come, are answered at once, and go.                         *)
LEMMA ConnectionWires ==
  ASSUME SInv, WInv, NEW r \in Reqs, OnNewConnection(r) \/ Respond(r) \/ OnConnClose(r)
  PROVE  WInv'
<1> USE DEF request
<1>1. conn \in [Reqs -> Conns] /\ WireTypes /\ Wires(r) /\ \A x \in Reqs : Wires(x)
  BY DEF SInv, PointersOK, TypesOK, WInv
<1>2. UNCHANGED <<gen_owned, out, mode, role_sent, attached>>
  BY DEF OnNewConnection, Respond, OnConnClose
<1>3. CASE OnNewConnection(r)
  <2>1. conn[r] = "none" /\ conn' = [conn EXCEPT ![r] = "open"] /\ wq' = wq
    BY <1>3 DEF OnNewConnection
  <2>2. r \notin gen_owned
    BY <1>1, <2>1 DEF Wires, Wire
  <2>3. WireTypes'
    BY <1>1, <1>2, <2>1 DEF WireTypes
  <2>4. \A x \in Reqs : SameWire(x)
    BY <1>1, <1>2, <2>1, <2>2 DEF SameWire
  <2>5. QED
    BY <2>3, <2>4, WiresKept
<1>4. CASE OnConnClose(r)
  <2>1. conn[r] = "closing" /\ conn' = [conn EXCEPT ![r] = "freed"] /\ wq' = wq
    BY <1>4 DEF OnConnClose
  <2>2. WireTypes'
    BY <1>1, <1>2, <2>1 DEF WireTypes
  <2>3. \A x \in Reqs : SameWire(x)
    BY <1>1, <1>2, <2>1 DEF SameWire
  <2>4. QED
    BY <2>2, <2>3, WiresKept
<1>5. CASE Respond(r)
  <2>1. PICK b \in BOOLEAN : wq' = [wq EXCEPT ![r] = <<b>>]
    BY <1>5 DEF Respond
  <2>2. conn' = conn /\ r \notin gen_owned
    BY <1>5 DEF Respond
  <2>3. WireTypes'
    BY <1>1, <1>2, <2>1 DEF WireTypes
  <2>4. \A x \in Reqs \ {r} : SameWire(x)
    BY <1>1, <1>2, <2>1, <2>2 DEF SameWire, WireTypes
  <2>5. Wires(r)'
    <3>1. wq'[r] = <<b>>
      BY <1>1, <2>1 DEF WireTypes
    <3>2. wq'[r] \in Seq(BOOLEAN)
      BY <3>1
    <3>3. QED
      BY <1>1, <1>2, <2>2, <3>2 DEF Wires, Wire
  <2>6. QED
    BY <2>3, <2>4, <2>5, OneWire
<1>6. QED
  BY <1>3, <1>4, <1>5

(* Connections are closed from outside: the peer, a write, the stop.       *)
LEMMA EmptyWire == <<>> \in Seq(BOOLEAN)
  OBVIOUS

LEMMA ClosedWires ==
  ASSUME SInv, WInv, NEW R \in SUBSET Reqs, NEW extra, CloseConns(R, extra),
         \A x \in R : conn[x] = "open",
         wq' = [x \in Reqs |-> IF x \in R THEN <<>> ELSE wq[x]],
         UNCHANGED <<gen_owned, out, mode, role_sent>>
  PROVE  WInv'
<1>1. conn \in [Reqs -> Conns] /\ WireTypes /\ observer = attached
  BY DEF SInv, PointersOK, TypesOK, AttachedOK, WInv
<1>2. /\ conn' = [x \in Reqs |-> IF x \in R THEN "closing" ELSE conn[x]]
      /\ attached' = attached \ R
  BY <1>1 DEF CloseConns
<1>3. WireTypes'
  BY <1>1 DEF WireTypes
<1>4. ASSUME NEW x \in Reqs  PROVE SameWire(x) \/ ClosedWire(x)
  <2>1. CASE x \in R
    BY <1>2, <2>1, EmptyWire DEF ClosedWire
  <2>2. CASE x \notin R
    BY <1>2, <2>2 DEF SameWire
  <2>3. QED
    BY <2>1, <2>2
<1>5. QED
  BY <1>3, <1>4, WiresKept

LEMMA GoneWires ==
  ASSUME SInv, WInv, NEW r \in Reqs,
         OnWrite(r) \/ PeerGone(r)
  PROVE  WInv'
<1> USE DEF request
<1>1. conn \in [Reqs -> Conns] /\ WireTypes /\ Wires(r) /\ \A x \in Reqs : Wires(x)
  BY DEF SInv, PointersOK, TypesOK, WInv
<1>2. UNCHANGED <<gen_owned, out, mode, role_sent>>
  BY DEF OnWrite, PeerGone
<1>3. ASSUME conn[r] = "open", CloseConns({r}, {}), wq' = [wq EXCEPT ![r] = <<>>]
      PROVE  WInv'
  <2>1. wq' = [x \in Reqs |-> IF x \in {r} THEN <<>> ELSE wq[x]]
    BY <1>1, <1>3 DEF WireTypes
  <2>2. QED
    BY <1>2, <1>3, <2>1, ClosedWires
<1>4. CASE PeerGone(r)
  BY <1>3, <1>4 DEF PeerGone
<1>5. CASE OnWrite(r)
  <2>1. conn[r] = "open" /\ wq[r] # <<>>
    BY <1>5 DEF OnWrite
  <2>2. \/ CloseConns({r}, {}) /\ wq' = [wq EXCEPT ![r] = <<>>]
        \/ ~Head(wq[r]) /\ wq' = [wq EXCEPT ![r] = Tail(@)] /\ UNCHANGED <<conn, attached>>
    BY <1>5 DEF OnWrite
  <2>3. CASE ~Head(wq[r]) /\ wq' = [wq EXCEPT ![r] = Tail(@)] /\ UNCHANGED <<conn, attached>>
    <3>1. WireTypes'
      BY <1>1, <1>2, <2>3 DEF WireTypes
    <3>2. \A x \in Reqs \ {r} : SameWire(x)
      BY <1>1, <1>2, <2>3 DEF SameWire, WireTypes
    <3>3. wq'[r] = Tail(wq[r]) /\ wq[r] \in Seq(BOOLEAN)
      BY <1>1, <2>3 DEF WireTypes, Wires, Wire
    <3>4. wq'[r] \in Seq(BOOLEAN)
      BY <2>1, <3>3, HeadTailProperties
    <3>5. ASSUME wq[r][Len(wq[r])]
          PROVE  wq'[r] # <<>> /\ wq'[r][Len(wq'[r])]
      <4>1. Len(wq[r]) \in Nat /\ Len(wq[r]) # 0 /\ Head(wq[r]) = wq[r][1]
        BY <2>1, <3>3
      <4>2. Len(wq[r]) # 1
        BY <2>3, <3>5, <4>1
      <4>3. Len(wq'[r]) = Len(wq[r]) - 1 /\ Len(wq'[r]) \in 1..Len(wq'[r]) /\ Len(wq'[r]) # 0
        <5>1. Len(wq'[r]) = Len(wq[r]) - 1
          BY <2>1, <3>3, HeadTailProperties
        <5>2. \A n \in Nat : n # 0 /\ n # 1 => n - 1 \in 1..(n - 1) /\ n - 1 # 0
          OBVIOUS
        <5>3. QED
          BY <4>1, <4>2, <5>1, <5>2
      <4>4. wq'[r][Len(wq'[r])] = wq[r][Len(wq'[r]) + 1] /\ Len(wq'[r]) + 1 = Len(wq[r])
        BY <2>1, <3>3, <4>1, <4>3, HeadTailProperties
      <4>5. QED
        BY <3>5, <4>3, <4>4
    <3>6. Wires(r)'
      BY <1>1, <1>2, <2>3, <3>4, <3>5 DEF Wires, Wire
    <3>7. QED
      BY <3>1, <3>2, <3>6, OneWire
  <2>4. QED
    BY <1>3, <2>1, <2>2, <2>3
<1>6. QED
  BY <1>4, <1>5

LEMMA StopWires ==
  ASSUME SInv, WInv, OnStopAsync \/ OnDrainTimeout
  PROVE  WInv'
<1> USE DEF request
<1>1. conn \in [Reqs -> Conns] /\ WireTypes /\ \A x \in Reqs : Wires(x)
  BY DEF SInv, PointersOK, TypesOK, WInv
<1>2. UNCHANGED <<gen_owned, out, mode, role_sent>>
  BY DEF OnStopAsync, OnDrainTimeout
<1>3. CASE OnDrainTimeout
  <2>1. PICK I \in Inflight : CloseConns(Open, I)
    BY <1>3 DEF OnDrainTimeout
  <2>2. wq' = [x \in Reqs |-> IF x \in Open THEN <<>> ELSE wq[x]]
    BY <1>3 DEF OnDrainTimeout
  <2>3. Open \in SUBSET Reqs /\ \A x \in Open : conn[x] = "open"
    BY DEF Open
  <2>4. QED
    BY <1>2, <2>1, <2>2, <2>3, ClosedWires
<1>4. CASE OnStopAsync
  <2>1. /\ conn' = [x \in Reqs |-> IF x \in Open \ gen_owned THEN "closing" ELSE conn[x]]
        /\ wq' = [x \in Reqs |-> IF x \in Open \ gen_owned THEN <<>> ELSE wq[x]]
        /\ attached' = attached
    BY <1>4 DEF OnStopAsync
  <2>2. WireTypes'
    BY <1>1, <1>2, <2>1 DEF WireTypes
  <2>3. ASSUME NEW x \in Reqs  PROVE SameWire(x) \/ ClosedWire(x)
    <3>1. CASE x \in Open \ gen_owned
      <4>1. x \notin attached
        BY <1>1, <3>1 DEF Wires, Wire
      <4>2. QED
        BY <1>2, <2>1, <3>1, <4>1, EmptyWire DEF ClosedWire
    <3>2. CASE x \notin Open \ gen_owned
      BY <1>2, <2>1, <3>2 DEF SameWire
    <3>3. QED
      BY <3>1, <3>2
  <2>4. QED
    BY <2>2, <2>3, WiresKept
<1>5. QED
  BY <1>3, <1>4

(* A body with g, a first part of what finishes it.                        *)
LEMMA AppendShape ==
  ASSUME NEW r \in Reqs, NEW sent, NEW o \in Seq(Frames), Body(mode[r], sent, o),
         NEW fs, Closes(r, fs, Len(o)), NEW g \in Seq(Frames), Len(g) <= Len(fs),
         \A i \in 1..Len(g) : g[i] = fs[i]
  PROVE  /\ o \o g \in Seq(Frames) /\ Shape(mode[r], o \o g)
         /\ Len(g) = Len(fs) => o \o g # <<>> /\ (o \o g)[Len(o \o g)] \in Finals
<1>1. fs \in Seq(Frames) /\ Len(fs) >= 1 /\ fs[Len(fs)] \in Finals
  BY DEF Closes
<1>2. /\ o \o g \in Seq(Frames) /\ Len(o \o g) = Len(o) + Len(g)
      /\ \A i \in 1..(Len(o) + Len(g)) :
            (o \o g)[i] = IF i <= Len(o) THEN o[i] ELSE g[i - Len(o)]
  BY ConcatProperties
<1>3. Len(o) \in Nat /\ Len(g) \in Nat /\ Len(fs) \in Nat
  BY <1>1, LenProperties
<1>4. Len(g) = Len(fs) => o \o g # <<>> /\ (o \o g)[Len(o \o g)] \in Finals
  <2>1. SUFFICES ASSUME Len(g) = Len(fs)
                 PROVE  o \o g # <<>> /\ (o \o g)[Len(o \o g)] \in Finals
    OBVIOUS
  <2> DEFINE a == Len(o)
             b == Len(g)
             p == o \o g
  <2>2. a + b \in 1..(a + b) /\ ~(a + b <= a) /\ (a + b) - a = b /\ b \in 1..b
    BY <1>1, <1>3, <2>1
  <2>3. p[a + b] = g[b] /\ g[b] = fs[b]
    BY <1>2, <2>2
  <2>4. Len(p) = a + b /\ a + b # 0
    BY <1>2, <2>2
  <2>5. p # <<>> /\ p[Len(p)] \in Finals
    BY <1>1, <2>1, <2>3, <2>4
  <2>6. QED
    BY <2>5
<1>5. CASE mode[r] = "json"
  <2>1. o = <<>> /\ fs \in {<<"json">>, <<"json_error">>}
    BY <1>5 DEF Body, Closes
  <2>2. o \o g = g
    BY <2>1, ConcatEmptySeq
  <2>3. Len(fs) = 1
    BY <2>1
  <2>4. CASE Len(g) = 0
    BY <1>2, <1>4, <1>5, <2>2, <2>4 DEF Shape
  <2>5. CASE Len(g) = 1
    <3>1. g = fs
      BY <1>1, <2>3, <2>5, SeqEqual
    <3>2. Shape(mode[r], g)
      BY <1>5, <2>1, <3>1 DEF Shape
    <3>3. QED
      BY <1>2, <1>4, <2>2, <3>2
  <2>6. Len(g) \in {0, 1}
    <3>1. Len(g) <= 1
      BY <2>3
    <3>2. \A a \in Nat : a <= 1 => a \in {0, 1}
      OBVIOUS
    <3>3. QED
      BY <1>3, <3>1, <3>2
  <2>7. QED
    BY <2>4, <2>5, <2>6
<1>6. CASE mode[r] # "json"
  <2>1. Ending(mode[r], fs, Len(o)) /\ Len(g) \in 0..Len(fs)
    BY <1>3, <1>6 DEF Closes
  <2>2. \A i \in 1..(Len(o) + Len(g)) :
            (o \o g)[i] = IF i <= Len(o) THEN o[i] ELSE fs[i - Len(o)]
    <3>1. SUFFICES ASSUME NEW i \in 1..(Len(o) + Len(g)), ~(i <= Len(o))
                   PROVE  g[i - Len(o)] = fs[i - Len(o)]
      BY <1>2
    <3>2. i - Len(o) \in 1..Len(g)
      BY <1>3, <3>1
    <3>3. QED
      BY <3>2
  <2>3. Shape(mode[r], o \o g)
    <3>1. \A i \in 1..Len(o \o g) :
            (o \o g)[i] = IF i <= Len(o) THEN o[i] ELSE fs[i - Len(o)]
      BY <1>2, <2>2
    <3>2. o \o g \in Seq(Frames) /\ Len(o \o g) = Len(o) + Len(g)
      BY <1>2
    <3> DEFINE p == o \o g
    <3> HIDE DEF p
    <3>3. \A i \in 1..Len(p) : p[i] = IF i <= Len(o) THEN o[i] ELSE fs[i - Len(o)]
      BY <3>1 DEF p
    <3>4. p \in Seq(Frames) /\ Len(p) = Len(o) + Len(g)
      BY <3>2 DEF p
    <3>5. Shape(mode[r], p)
      BY <1>1, <1>6, <2>1, <3>3, <3>4, EndingShape
    <3>6. QED
      BY <3>5 DEF p
  <2>4. QED
    BY <1>2, <1>4, <2>3
<1>7. QED
  BY <1>5, <1>6

(* finish_response and finish_error.                                       *)
LEMMA FinishWires ==
  ASSUME SInv, WInv, NEW r \in Reqs, NEW fs, NEW cancel, Finish(r, fs, cancel),
         r \in attached => Closes(r, fs, Len(out[r])),
         UNCHANGED <<gen_owned, mode, role_sent>>
  PROVE  WInv'
<1>1. conn \in [Reqs -> Conns] /\ WireTypes /\ Wires(r) /\ \A x \in Reqs : Wires(x)
  BY DEF SInv, PointersOK, TypesOK, WInv
<1>2. attached' = attached \ {r}
  BY DEF Finish
<1>3. CASE r \notin attached
  <2>1. UNCHANGED <<conn, wq, out, attached>>
    BY <1>3 DEF Finish
  <2>2. QED
    BY <2>1, QuietWires
<1>4. CASE r \in attached
  <2>1. /\ conn[r] = "open" /\ r \in gen_owned /\ wq[r] \in Seq(BOOLEAN)
        /\ out[r] \in Seq(Frames) /\ Body(mode[r], r \in role_sent, out[r])
        /\ Shape(mode[r], out[r]) /\ mode[r] \in Modes
    BY <1>1, <1>4 DEF SInv, PointersOK, AttachedOK, Wires, Wire
  <2>2. /\ fs \in Seq(Frames) /\ Len(fs) >= 1 /\ Len(fs) \in Nat
        /\ Closes(r, fs, Len(out[r])) /\ \A i \in 1..Len(fs) : fs[i] = fs[i]
    BY <1>4 DEF Closes
  <2>3. CASE WriteAll(r, fs, TRUE) /\ conn' = conn
    <3>1. /\ wq' = [wq EXCEPT ![r] = wq[r] \o [i \in 1..Len(fs) |-> TRUE /\ i = Len(fs)]]
          /\ out' = [out EXCEPT ![r] = out[r] \o fs]
      BY <2>1, <2>3 DEF WriteAll
    <3>2. WireTypes'
      BY <1>1, <3>1 DEF WireTypes
    <3>3. \A x \in Reqs \ {r} : SameWire(x)
      BY <1>1, <1>2, <2>3, <3>1 DEF SameWire, WireTypes
    <3>4. out'[r] = out[r] \o fs /\ wq'[r] = wq[r] \o [i \in 1..Len(fs) |-> TRUE /\ i = Len(fs)]
      BY <1>1, <3>1 DEF WireTypes
    <3>5. wq'[r] \in Seq(BOOLEAN) /\ wq'[r] # <<>> /\ wq'[r][Len(wq'[r])]
      BY <2>1, <2>2, <3>4, WriteKept
    <3>6. /\ out[r] \o fs \in Seq(Frames) /\ Shape(mode[r], out[r] \o fs)
          /\ out[r] \o fs # <<>> /\ (out[r] \o fs)[Len(out[r] \o fs)] \in Finals
      <4>1. Len(fs) <= Len(fs)
        BY <2>2
      <4>2. QED
        BY <2>1, <2>2, <4>1, AppendShape
    <3>7. Wires(r)'
      BY <1>2, <2>1, <2>3, <3>4, <3>5, <3>6 DEF Wires, Wire
    <3>8. QED
      BY <3>2, <3>3, <3>7, OneWire
  <2>4. ASSUME conn' = [conn EXCEPT ![r] = "closing"], wq' = [wq EXCEPT ![r] = <<>>],
               NEW o \in Seq(Frames), Shape(mode[r], o),
               DOMAIN out' = Reqs, out'[r] = o, \A x \in Reqs \ {r} : out'[x] = out[x]
        PROVE  WInv'
    <3>1. WireTypes'
      BY <1>1, <2>4 DEF WireTypes
    <3>2. \A x \in Reqs \ {r} : SameWire(x)
      BY <1>1, <1>2, <2>4 DEF SameWire, WireTypes
    <3>3. wq'[r] = <<>> /\ out'[r] = o /\ conn'[r] = "closing"
      BY <1>1, <2>4 DEF WireTypes
    <3>4. Wires(r)'
      BY <1>2, <2>1, <2>4, <3>3, EmptyWire DEF Wires, Wire
    <3>5. QED
      BY <3>1, <3>2, <3>4, OneWire
  <2>5. CASE wq' = [wq EXCEPT ![r] = <<>>] /\ out' = out /\ conn' = [conn EXCEPT ![r] = "closing"]
    <3>1. DOMAIN out' = Reqs
      BY <1>1, <2>5 DEF WireTypes
    <3>2. QED
      BY <2>1, <2>4, <2>5, <3>1
  <2>6. CASE WriteFailing(r, fs) /\ conn' = [conn EXCEPT ![r] = "closing"]
    <3>1. PICK k \in 0..(Len(fs) - 1) : out' = [out EXCEPT ![r] = @ \o SubSeq(fs, 1, k)]
      BY <2>6 DEF WriteFailing
    <3>2. wq' = [wq EXCEPT ![r] = <<>>] /\ out' = [out EXCEPT ![r] = out[r] \o SubSeq(fs, 1, k)]
      BY <2>6, <3>1 DEF WriteFailing
    <3> DEFINE g == SubSeq(fs, 1, k)
    <3>3. k \in Int /\ 1 \in Int /\ \A i \in 1..k : fs[i] \in Frames
      BY <2>2
    <3>4. /\ g \in Seq(Frames) /\ Len(g) = IF 1 <= k THEN k - 1 + 1 ELSE 0
          /\ \A i \in 1..(k - 1 + 1) : g[i] = fs[1 + i - 1]
      BY <3>3, SubSeqProperties
    <3> HIDE DEF g
    <3>5. Len(g) <= Len(fs) /\ \A i \in 1..Len(g) : g[i] = fs[i]
      BY <2>2, <3>4
    <3>6. out[r] \o g \in Seq(Frames) /\ Shape(mode[r], out[r] \o g)
      BY <2>1, <2>2, <3>4, <3>5, AppendShape
    <3>7. DOMAIN out' = Reqs /\ out'[r] = out[r] \o g /\ \A x \in Reqs \ {r} : out'[x] = out[x]
      BY <1>1, <3>2 DEF g, WireTypes
    <3>8. QED
      BY <2>4, <2>6, <3>2, <3>6, <3>7
  <2>7. QED
    <3>1. \/ WriteAll(r, fs, TRUE) /\ conn' = conn
          \/ /\ conn' = [conn EXCEPT ![r] = "closing"]
             /\ \/ wq' = [wq EXCEPT ![r] = <<>>] /\ out' = out
                \/ WriteFailing(r, fs)
      BY <1>4 DEF Finish
    <3>2. QED
      BY <2>3, <2>5, <2>6, <3>1
<1>5. QED
  BY <1>3, <1>4

(* A token.                                                                *)
LEMMA TokenWires ==
  ASSUME SInv, WInv, NEW r \in Reqs, AsyncToken(r)
  PROVE  WInv'
<1>1. conn \in [Reqs -> Conns] /\ WireTypes /\ Wires(r) /\ \A x \in Reqs : Wires(x)
  BY DEF SInv, PointersOK, TypesOK, WInv
<1>2. UNCHANGED <<gen_owned, mode>>
  BY DEF AsyncToken, TakeChunk
<1> DEFINE sse == EmitSseChunk(r)
<1>3. PICK text \in BOOLEAN :
         LET fs == IF text THEN sse ELSE <<>>
         IN  /\ role_sent' = IF fs # <<>> /\ Chat(r) THEN role_sent \cup {r} ELSE role_sent
             /\ \/ WriteAll(r, fs, FALSE) /\ UNCHANGED <<conn, attached>>
                \/ WriteFailing(r, fs) /\ CloseConns({r}, {})
  BY DEF AsyncToken
<1> DEFINE fs == IF text THEN sse ELSE <<>>
<1>4. \A x \in Reqs \ {r} : x \in role_sent' <=> x \in role_sent
  BY <1>3
<1>5. fs # <<>> => /\ r \in attached /\ mode[r] # "json"
                   /\ fs = IF Chat(r) /\ r \notin role_sent THEN <<"role">> ELSE <<"content">>
  BY DEF EmitSseChunk, Sse
<1>6. CASE fs = <<>>
  <2>1. WriteAll(r, <<>>, FALSE) /\ UNCHANGED <<conn, attached, role_sent>>
    BY <1>3, <1>6 DEF WriteFailing
  <2>2. wq[r] \in Seq(BOOLEAN) /\ out[r] \in Seq(Frames)
    BY <1>1 DEF Wires, Wire
  <2>3. out[r] \o <<>> = out[r]
    BY <2>2, ConcatEmptySeq
  <2>4. wq[r] \o [i \in 1..Len(<<>>) |-> FALSE /\ i = Len(<<>>)] = wq[r]
    <3>1. [i \in 1..Len(<<>>) |-> FALSE /\ i = Len(<<>>)] = <<>>
      OBVIOUS
    <3>2. QED
      BY <2>2, <3>1, ConcatEmptySeq
  <2>5. /\ wq' = [wq EXCEPT ![r] = wq[r]] /\ out' = [out EXCEPT ![r] = out[r]]
    BY <2>1, <2>3, <2>4 DEF WriteAll
  <2>6. WireTypes' /\ \A x \in Reqs : wq'[x] = wq[x] /\ out'[x] = out[x]
    BY <1>1, <1>2, <2>5 DEF WireTypes
  <2>7. \A x \in Reqs : SameWire(x)
    BY <1>2, <2>1, <2>6 DEF SameWire
  <2>8. QED
    BY <2>6, <2>7, WiresKept
<1>7. ASSUME NEW f \in {"role", "content"}, fs = <<f>>, f = "role" <=> (Chat(r) /\ r \notin role_sent)
      PROVE  WInv'
  <2>1. /\ conn[r] = "open" /\ r \in gen_owned /\ wq[r] \in Seq(BOOLEAN)
        /\ out[r] \in Seq(Frames) /\ Body(mode[r], r \in role_sent, out[r])
        /\ Shape(mode[r], out[r]) /\ mode[r] \in Modes /\ mode[r] # "json" /\ r \in attached
    <3>1. fs # <<>>
      <4>1. Len(<<f>>) = 1 /\ Len(<<>>) = 0
        OBVIOUS
      <4>2. QED
        BY <1>7, <4>1
    <3>2. r \in attached /\ mode[r] # "json"
      BY <1>5, <3>1
    <3> HIDE DEF fs, sse
    <3>3. QED
      BY <1>1, <3>2 DEF SInv, PointersOK, AttachedOK, Wires, Wire
  <2>2. role_sent' = IF Chat(r) THEN role_sent \cup {r} ELSE role_sent
    BY <1>3, <1>7
  <2>3. f \in Frames /\ Len(<<f>>) = 1 /\ <<f>> \in Seq(Frames)
    BY DEF Frames
  <2>4. CASE WriteAll(r, fs, FALSE) /\ UNCHANGED <<conn, attached>>
    <3>1. /\ wq' = [wq EXCEPT ![r] = wq[r] \o [i \in 1..1 |-> FALSE /\ i = 1]]
          /\ out' = [out EXCEPT ![r] = out[r] \o <<f>>]
      BY <1>7, <2>1, <2>3, <2>4 DEF WriteAll
    <3>2. WireTypes'
      BY <1>1, <1>2, <3>1 DEF WireTypes
    <3>3. \A x \in Reqs \ {r} : SameWire(x)
      BY <1>1, <1>2, <1>4, <2>4, <3>1 DEF SameWire, WireTypes
    <3>4. out'[r] = out[r] \o <<f>> /\ wq'[r] = wq[r] \o [i \in 1..1 |-> FALSE /\ i = 1]
      BY <1>1, <3>1 DEF WireTypes
    <3>5. wq'[r] \in Seq(BOOLEAN)
      BY <2>1, <3>4, WriteKept
    <3> DEFINE o == out[r]
               p == o \o <<f>>
    <3>6. /\ p \in Seq(Frames) /\ Len(p) = Len(o) + 1 /\ p[Len(o) + 1] = f
          /\ \A i \in 1..Len(o) : p[i] = o[i]
      BY <2>1, <2>3, FrameAppended
    <3>7. Len(o) \in Nat /\ Len(o) >= 1 /\ o[1] = "head"
          /\ (Chat(r) => (r \in role_sent <=> Len(o) >= 2))
      BY <2>1, LenProperties DEF Body, Chat
    <3>8. Body(mode[r], r \in role_sent', p)
      <4> HIDE DEF p, o
      <4>1. Len(p) >= 2 /\ Len(p) \in Nat
        BY <3>6, <3>7
      <4>2. p[1] = "head"
        BY <3>6, <3>7
      <4>3. ASSUME NEW i \in 2..Len(p)
            PROVE  p[i] = IF i = 2 /\ mode[r] \in {"chat", "chat_usage"} THEN "role" ELSE "content"
        <5>1. CASE i <= Len(o)
          <6>1. i \in 2..Len(o) /\ i \in 1..Len(o)
            BY <3>7, <5>1
          <6>2. p[i] = o[i]
            BY <3>6, <6>1
          <6>3. QED
            BY <2>1, <6>1, <6>2 DEF Body, o
        <5>2. CASE ~(i <= Len(o))
          <6>1. i = Len(o) + 1
            BY <3>6, <3>7, <5>2
          <6>2. p[i] = f
            BY <3>6, <6>1
          <6>3. i = 2 <=> ~(Len(o) >= 2)
            BY <3>7, <6>1
          <6>4. QED
            BY <1>7, <3>7, <6>2, <6>3 DEF Chat
        <5>3. QED
          BY <5>1, <5>2
      <4>4. Chat(r) => r \in role_sent'
        BY <2>2
      <4>5. QED
        BY <2>1, <4>1, <4>2, <4>3, <4>4 DEF Body, Chat
    <3>9. Shape(mode[r], p)
      BY <3>6, <3>8, BodyShape
    <3>10. Wires(r)'
      <4> HIDE DEF p, o
      <4>1. out'[r] = p
        BY <3>4 DEF p, o
      <4>2. QED
        BY <1>2, <2>1, <2>4, <3>5, <3>6, <3>8, <3>9, <4>1 DEF Wires, Wire
    <3>11. QED
      BY <3>2, <3>3, <3>10, OneWire
  <2>5. CASE WriteFailing(r, fs) /\ CloseConns({r}, {})
    <3>1. PICK k \in 0..(Len(fs) - 1) : out' = [out EXCEPT ![r] = @ \o SubSeq(fs, 1, k)]
      BY <2>5 DEF WriteFailing
    <3>2. k = 0
      <4> HIDE DEF fs
      <4>1. Len(fs) = 1
        BY <1>7, <2>3
      <4>2. QED
        BY <4>1
    <3>3. SubSeq(fs, 1, k) = <<>>
      BY <3>2, SubSeqEmpty
    <3>4. out' = [out EXCEPT ![r] = out[r]] /\ wq' = [wq EXCEPT ![r] = <<>>]
      BY <2>1, <2>5, <3>1, <3>3, ConcatEmptySeq DEF WriteFailing
    <3>5. observer = attached
      BY DEF SInv, PointersOK, AttachedOK
    <3>6. /\ conn' = [x \in Reqs |-> IF x \in {r} THEN "closing" ELSE conn[x]]
          /\ attached' = attached \ {r}
      BY <2>1, <2>5, <3>5 DEF CloseConns
    <3>7. WireTypes' /\ out'[r] = out[r] /\ wq'[r] = <<>>
      BY <1>1, <1>2, <3>4 DEF WireTypes
    <3>8. \A x \in Reqs \ {r} : SameWire(x)
      BY <1>1, <1>2, <1>4, <3>4, <3>6 DEF SameWire, WireTypes
    <3>9. Wires(r)'
      BY <1>2, <2>1, <3>6, <3>7, EmptyWire DEF Wires, Wire
    <3>10. QED
      BY <3>7, <3>8, <3>9, OneWire
  <2>6. QED
    BY <1>3, <2>4, <2>5
<1>8. CASE fs # <<>>
  <2>1. CASE Chat(r) /\ r \notin role_sent
    BY <1>5, <1>7, <1>8, <2>1
  <2>2. CASE ~(Chat(r) /\ r \notin role_sent)
    BY <1>5, <1>7, <1>8, <2>2
  <2>3. QED
    BY <2>1, <2>2
<1>9. QED
  BY <1>6, <1>8

LEMMA AsyncWires ==
  ASSUME SInv, WInv, NEW r \in Reqs, AsyncTokenError(r) \/ AsyncError(r) \/ AsyncDone(r)
  PROVE  WInv'
<1>1. UNCHANGED <<gen_owned, mode, role_sent>>
  BY DEF AsyncTokenError, AsyncError, AsyncDone, TakeChunk
<1>2. Wires(r) /\ Len(out[r]) \in Nat
  BY LenProperties DEF WInv, Wires, Wire
<1>3. CASE \E cancel \in BOOLEAN : Finish(r, ErrorFrames(r), cancel)
  BY <1>1, <1>2, <1>3, ErrorCloses, FinishWires
<1>4. CASE \E flush \in BOOLEAN : Finish(r, ResponseFrames(r, flush), FALSE)
  <2>1. PICK flush \in BOOLEAN : Finish(r, ResponseFrames(r, flush), FALSE)
    BY <1>4
  <2>2. ASSUME r \in attached PROVE Closes(r, ResponseFrames(r, flush), Len(out[r]))
    <3>1. Body(mode[r], r \in role_sent, out[r]) /\ mode[r] \in Modes
      BY <1>2, <2>2 DEF Wires, Wire
    <3>2. /\ mode[r] \in {"chat", "chat_usage", "completion", "json"}
          /\ mode[r] # "json" => Len(out[r]) >= 1
          /\ Chat(r) => (r \in role_sent <=> Len(out[r]) >= 2)
      BY <3>1, ServingAssumption DEF Body, Chat
    <3>3. QED
      BY <1>2, <3>2, ResponseCloses
  <2>3. QED
    BY <1>1, <2>1, <2>2, FinishWires
<1>5. QED
  BY <1>3, <1>4 DEF AsyncTokenError, AsyncError, AsyncDone

LEMMA StartWires ==
  ASSUME SInv, WInv, NEW r \in Reqs, GenRequestStart(r)
  PROVE  WInv'
<1>1. conn \in [Reqs -> Conns] /\ WireTypes /\ Wires(r) /\ \A x \in Reqs : Wires(x)
  BY DEF SInv, PointersOK, TypesOK, WInv
<1>2. /\ conn[r] = "open" /\ r \notin gen_owned /\ gen_owned' = gen_owned \cup {r}
      /\ role_sent' = role_sent
  BY DEF GenRequestStart
<1>3. wq[r] \in Seq(BOOLEAN) /\ out[r] = <<>> /\ r \notin role_sent
  BY <1>1, <1>2 DEF Wires, Wire
<1>4. PICK m \in Modes :
        /\ mode' = [mode EXCEPT ![r] = m]
        /\ \/ /\ WriteAll(r, IF m = "json" THEN <<>> ELSE <<"head">>, FALSE)
              /\ attached' = attached \cup {r} /\ UNCHANGED conn
           \/ /\ m # "json" /\ WriteFailing(r, <<"head">>)
              /\ conn' = [conn EXCEPT ![r] = "closing"] /\ UNCHANGED attached
  BY DEF GenRequestStart
<1>5. mode'[r] = m /\ DOMAIN mode' = Reqs
  BY <1>1, <1>4 DEF WireTypes
<1>6. r \notin attached
  BY <1>1, <1>2 DEF Wires, Wire
<1>7. "head" \in Frames /\ Len(<<"head">>) = 1 /\ <<"head">> \in Seq(Frames) /\ <<"head">>[1] = "head"
  BY DEF Frames
<1>8. Body(m, FALSE, IF m = "json" THEN <<>> ELSE <<"head">>)
  BY <1>7 DEF Body
<1>9. CASE /\ WriteAll(r, IF m = "json" THEN <<>> ELSE <<"head">>, FALSE)
           /\ attached' = attached \cup {r} /\ UNCHANGED conn
  <2> DEFINE fs == IF m = "json" THEN <<>> ELSE <<"head">>
  <2>1. fs \in Seq(Frames) /\ Len(fs) \in Nat
    BY <1>7
  <2> HIDE DEF fs
  <2>2. WriteAll(r, fs, FALSE)
    BY <1>9 DEF fs
  <2>3. /\ wq' = [wq EXCEPT ![r] = wq[r] \o [i \in 1..Len(fs) |-> FALSE /\ i = Len(fs)]]
        /\ out' = [out EXCEPT ![r] = out[r] \o fs]
    BY <1>2, <2>2 DEF WriteAll
  <2>4. WireTypes'
    BY <1>1, <1>5, <2>3 DEF WireTypes
  <2>5. \A x \in Reqs \ {r} : SameWire(x)
    BY <1>1, <1>2, <1>4, <1>9, <2>3 DEF SameWire, WireTypes
  <2>6. wq'[r] = wq[r] \o [i \in 1..Len(fs) |-> FALSE /\ i = Len(fs)] /\ out'[r] = out[r] \o fs
    BY <1>1, <2>3 DEF WireTypes
  <2>7. wq'[r] \in Seq(BOOLEAN)
    BY <1>3, <2>1, <2>6, WriteKept
  <2>8. out'[r] = fs
    BY <1>3, <2>1, <2>6, ConcatEmptySeq
  <2>9. Body(m, r \in role_sent', fs)
    <3>1. (r \in role_sent') = FALSE
      BY <1>2, <1>3
    <3>2. QED
      BY <1>8, <3>1 DEF fs
  <2>10. Shape(m, fs)
    BY <2>1, <2>9, BodyShape
  <2>11. Wires(r)'
    BY <1>2, <1>5, <1>9, <2>1, <2>7, <2>8, <2>9, <2>10 DEF Wires, Wire
  <2>12. QED
    BY <2>4, <2>5, <2>11, OneWire
<1>10. CASE /\ m # "json" /\ WriteFailing(r, <<"head">>)
            /\ conn' = [conn EXCEPT ![r] = "closing"] /\ UNCHANGED attached
  <2>1. PICK k \in 0..(Len(<<"head">>) - 1) :
               out' = [out EXCEPT ![r] = @ \o SubSeq(<<"head">>, 1, k)]
    BY <1>10 DEF WriteFailing
  <2>2. k = 0
    BY <1>7
  <2>3. SubSeq(<<"head">>, 1, k) = <<>>
    BY <2>2, SubSeqEmpty
  <2>4. out[r] \in Seq(Frames) /\ out[r] \o <<>> = <<>>
    BY <1>3, ConcatEmptySeq
  <2>5. out' = [out EXCEPT ![r] = <<>>] /\ wq' = [wq EXCEPT ![r] = <<>>]
    BY <1>10, <2>1, <2>3, <2>4 DEF WriteFailing
  <2>6. WireTypes' /\ out'[r] = <<>> /\ wq'[r] = <<>> /\ conn'[r] = "closing"
    BY <1>1, <1>5, <1>10, <2>5 DEF WireTypes
  <2>7. \A x \in Reqs \ {r} : SameWire(x)
    BY <1>1, <1>2, <1>4, <1>10, <2>5 DEF SameWire, WireTypes
  <2>8. Shape(m, <<>>)
    BY DEF Shape
  <2>9. Wires(r)'
    BY <1>2, <1>3, <1>5, <1>6, <1>10, <2>4, <2>6, <2>8, EmptyWire DEF Wires, Wire
  <2>10. QED
    BY <2>6, <2>7, <2>9, OneWire
<1>11. QED
  BY <1>4, <1>9, <1>10

LEMMA WiresInductive == Spec => []WInv
<1>1. Init => WInv
  BY EmptyWire DEF Init, WInv, WireTypes, Wires, Wire
<1>2. SInv /\ WInv /\ [Next]_vars => WInv'
  BY QuietSteps, ConnectionWires, GoneWires, StopWires, TokenWires, AsyncWires, StartWires DEF Next, Async
<1>3. QED
  BY <1>1, <1>2, ServingInductive, PTL DEF Spec

(* Whatever the peer, the engine, the timers and the stop do in between,   *)
(* the frames put on a connection are a well-formed response or a first    *)
(* part of one: the head first, the role before any text, one end.         *)
THEOREM ResponsesWellFormed == Spec => []ResponseShape
<1>1. ASSUME WInv, NEW r \in gen_owned, r \in Reqs
      PROVE  ResponseShape!(r)
  <2>1. Shape(mode[r], out[r])
    BY <1>1 DEF WInv, Wires, Wire
  <2>2. CASE mode[r] = "json"
    BY <2>1, <2>2 DEF Shape, Sse
  <2>3. CASE mode[r] # "json"
    BY <2>1, <2>3 DEF Shape, Sound, Chat
  <2>4. QED
    BY <2>2, <2>3
<1>2. SInv => gen_owned \subseteq Reqs
  BY DEF SInv, PointersOK, TypesOK
<1>3. SInv /\ WInv => ResponseShape
  BY <1>1, <1>2 DEF ResponseShape
<1>4. QED
  BY <1>3, ServingInductive, WiresInductive, PTL

(* A connection that its gen_request has let go of and that is still open  *)
(* has its whole answer queued, and the last unsent write closes it: no    *)
(* connection is left open and unanswered, and none is answered twice.     *)
THEOREM EachAnsweredOnce == Spec => []AnsweredOnce
<1>1. SInv /\ WInv => AnsweredOnce
  BY DEF SInv, PointersOK, TypesOK, WInv, Wires, Wire, AnsweredOnce, Last, Finals
<1>2. QED
  BY <1>1, WiresInductive, ServingInductive, PTL
=============================================================================
