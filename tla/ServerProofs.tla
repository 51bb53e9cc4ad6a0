---------------------------- MODULE ServerProofs ----------------------------
(***************************************************************************)
(* Theorems about Server, for any connections, calls of start and bounds.  *)
(***************************************************************************)
EXTENDS Server, TLAPS

(***************************************************************************)
(* The inductive invariant.                                                *)
(***************************************************************************)

\* A server is in the list from its start, and is awaited when it is interrupted.
ListRight ==
  \A k \in Servers : /\ cleanup[k] = "none" <=> status[k] = "none"
                     /\ cleanup[k] = "fresh" <=> status[k] = "running"
                     /\ status[k] = "running" => k = n /\ phase = "serving"
                     /\ k > n => status[k] = "none"

\* The server of the call of start, and the shutdown that is waited for.
PhaseRight ==
  /\ phase # "idle" => n > 0
  /\ phase = "starting" => status[n] = "none"
  /\ phase = "serving" => status[n] = "running"
  /\ phase = "stopping" => \A k \in 1 .. n - 1 : status[k] = "none"

\* The servers of a closed loop, which is never the loop of a call that goes on.
FrozenRight ==
  \A k \in frozen : k <= n /\ (phase # "idle" => k # n) /\ status[k] \in {"none", "stopped"}

\* What a connection's state says of its server, its tasks and its RPC.
ConnRight ==
  \A c \in Conn : /\ of[c] <= n
                  /\ of[c] = 0 <=> life[c] = "none"
                  /\ of[c] > 0 => status[of[c]] # "none"
                  /\ life[c] \in {"none", "closed"} => busy[c] = 0
                  /\ life[c] = "dropped" => cut[c] # "no"
                  /\ cut[c] = "grace" => of[c] \in elapsed

IInv == TypeOK /\ ListRight /\ PhaseRight /\ FrozenRight /\ ConnRight /\ ClosedAfterGrace

(***************************************************************************)
(* The initial state.                                                      *)
(***************************************************************************)

\* The invariant holds before the first call of start.
LEMMA InitIInv == Init => IInv
<1> SUFFICES ASSUME Init PROVE IInv
  OBVIOUS
<1>0. Starts \in Nat \ {0} /\ MaxBusy \in Nat
  BY BoundsAssumption
<1>1. TypeOK
  <2>1. 0 \in 0 .. Starts /\ 0 \in 0 .. MaxBusy
    BY <1>0
  <2> QED
    BY <2>1 DEF Init, TypeOK, Phases, Lives
<1>2. ListRight
  BY DEF Init, ListRight
<1>3. PhaseRight
  BY DEF Init, PhaseRight
<1>4. ConnRight
  <2>1. \A c \in Conn : of[c] = 0 /\ life[c] = "none" /\ busy[c] = 0 /\ cut[c] = "no" /\ n = 0
    BY DEF Init
  <2>2. 0 <= n /\ ~(0 > 0)
    BY DEF Init
  <2> QED
    BY <2>1, <2>2, Zenon DEF ConnRight
<1>5. FrozenRight /\ ClosedAfterGrace
  BY DEF Init, FrozenRight, ClosedAfterGrace
<1> QED
  BY <1>1, <1>2, <1>3, <1>4, <1>5 DEF IInv

(***************************************************************************)
(* Types.                                                                  *)
(***************************************************************************)

\* A move of a connection keeps the types and leaves the others alone,
LEMMA MoveType ==
  ASSUME TypeOK, NEW c \in Conn, NEW l \in Lives, NEW b \in 0 .. MaxBusy, Move(c, l, b)
  PROVE  /\ life' \in [Conn -> Lives] /\ busy' \in [Conn -> 0 .. MaxBusy]
         /\ life'[c] = l /\ busy'[c] = b
         /\ \A d \in Conn : d # c => life'[d] = life[d] /\ busy'[d] = busy[d]
BY DEF TypeOK, Move

\* whichever move it is.
LEMMA MovesType ==
  ASSUME TypeOK, NEW c \in Conn, Moves(c)
  PROVE  /\ life' \in [Conn -> Lives] /\ busy' \in [Conn -> 0 .. MaxBusy]
         /\ \A d \in Conn : d # c => life'[d] = life[d] /\ busy'[d] = busy[d]
<1>1. PICK l \in Lives, b \in 0 .. MaxBusy : Move(c, l, b)
  BY DEF Moves
<1> QED
  BY <1>1, MoveType

\* The beginning of a stop keeps the types,
LEMMA StopBeginsType ==
  ASSUME TypeOK, StopBegins
  PROVE  /\ cleanup' \in [Servers -> {"none", "fresh", "used"}]
         /\ status' \in [Servers -> {"none", "running", "stopping", "stopped"}]
BY DEF TypeOK, StopBegins, Awaited

\* and so does the end of the loop.
LEMMA CloseLoopType ==
  ASSUME TypeOK, CloseLoop
  PROVE  /\ phase' = "idle" /\ last' = "interrupted" /\ loop' = "closed"
         /\ frozen' = 1 .. n /\ frozen' \in SUBSET Servers
<1>1. n \in Nat /\ n <= Starts /\ Starts \in Nat
  BY BoundsAssumption DEF TypeOK
<1> QED
  BY <1>1 DEF CloseLoop, Servers

\* Every step keeps the types.
LEMMA TypeStep == IInv /\ [Next]_vars => TypeOK'
<1> SUFFICES ASSUME IInv, [Next]_vars PROVE TypeOK'
  OBVIOUS
<1>0. TypeOK /\ Starts \in Nat /\ n \in Nat
  BY BoundsAssumption DEF IInv, TypeOK
<1> USE DEF process, servers, links
<1>1. ASSUME NEW call \in Calls, StartRefused(call) \/ BindFails(call) \/ StartOnClosedLoop(call)
      PROVE  TypeOK'
  BY <1>0, <1>1 DEF StartRefused, BindFails, StartOnClosedLoop, TypeOK
<1>2. ASSUME NEW call \in Calls, StartRuns(call) PROVE TypeOK'
  <2>1. n' \in 0 .. Starts
    BY <1>0, <1>2 DEF StartRuns
  <2> QED
    BY <1>0, <1>2, <2>1 DEF StartRuns, TypeOK, Phases
<1>3. CASE ServerStarts
  BY <1>0, <1>3 DEF ServerStarts, TypeOK, Phases
<1>4. CASE Interrupt
  <2>1. /\ cleanup' \in [Servers -> {"none", "fresh", "used"}]
        /\ status' \in [Servers -> {"none", "running", "stopping", "stopped"}]
    BY <1>0, <1>4, StopBeginsType DEF Interrupt, TypeOK
  <2>2. /\ phase' \in Phases /\ last' \in {"none", "raised", "interrupted"}
        /\ loop' \in {"open", "closed"} /\ frozen' \in SUBSET Servers
    BY <1>0, <1>4, CloseLoopType DEF Interrupt, TypeOK, Phases
  <2> QED
    BY <1>0, <1>4, <2>1, <2>2 DEF Interrupt, TypeOK
<1>5. CASE InterruptedAgain
  BY <1>0, <1>5 DEF InterruptedAgain, TypeOK, Phases
<1>6. CASE NewLoop
  BY <1>0, <1>6 DEF NewLoop, TypeOK
<1>7. ASSUME NEW k \in Servers, GraceElapses(k) PROVE TypeOK'
  BY <1>0, <1>7 DEF GraceElapses, TypeOK
<1>8. ASSUME NEW k \in Servers, CancelRpcs(k) PROVE TypeOK'
  BY <1>0, <1>8 DEF CancelRpcs, TypeOK
<1>9. ASSUME NEW k \in Servers, StopEnds(k) PROVE TypeOK'
  <2>1. status' \in [Servers -> {"none", "running", "stopping", "stopped"}]
    BY <1>0, <1>9 DEF StopEnds, TypeOK
  <2>2. /\ phase' \in Phases /\ last' \in {"none", "raised", "interrupted"}
        /\ loop' \in {"open", "closed"} /\ frozen' \in SUBSET Servers
    BY <1>0, <1>9, CloseLoopType DEF StopEnds, TypeOK, Phases
  <2> QED
    BY <1>0, <1>9, <2>1, <2>2 DEF StopEnds, TypeOK
<1>10. ASSUME NEW c \in Conn, Accept(c) PROVE TypeOK'
  <2>1. of' \in [Conn -> 0 .. Starts]
    BY <1>0, <1>10 DEF Accept, TypeOK
  <2> QED
    BY <1>0, <1>10, <2>1, MovesType DEF Accept, TypeOK
<1>11. ASSUME NEW c \in Conn, Works(c) \/ Cancelled(c) PROVE TypeOK'
  BY <1>0, <1>11, MovesType DEF Works, Cancelled, TypeOK
<1>12. ASSUME NEW c \in Conn, PeerBreaks(c) PROVE TypeOK'
  BY <1>0, <1>12 DEF PeerBreaks, TypeOK
<1>13. ASSUME NEW c \in Conn, NilEnds(c) PROVE TypeOK'
  BY <1>0, <1>13, MovesType DEF NilEnds, TypeOK
<1>14. CASE UNCHANGED vars
  BY <1>0, <1>14 DEF vars, TypeOK
<1> QED
  BY <1>1, <1>2, <1>3, <1>4, <1>5, <1>6, <1>7, <1>8, <1>9, <1>10, <1>11, <1>12, <1>13, <1>14
  DEF Next

(***************************************************************************)
(* The servers and the list.                                               *)
(***************************************************************************)
ServersRight == ListRight /\ PhaseRight

\* Every step keeps the servers right.
LEMMA ServersStep == IInv /\ [Next]_vars => ServersRight'
<1> SUFFICES ASSUME IInv, [Next]_vars PROVE ServersRight'
  OBVIOUS
<1>0. /\ TypeOK /\ ServersRight /\ Starts \in Nat /\ n \in Nat /\ n <= Starts
      /\ \A k \in 1 .. n : k \in Servers
  BY BoundsAssumption DEF IInv, TypeOK, ServersRight, Servers
<1> USE DEF process, servers, links
<1>1. ASSUME UNCHANGED <<phase, n, cleanup, status>> PROVE ServersRight'
  BY <1>0, <1>1 DEF ServersRight, ListRight, PhaseRight
<1>2. ASSUME NEW call \in Calls, StartRuns(call) PROVE ServersRight'
  <2>1. phase' = "starting" /\ n' = n + 1 /\ n' \in Servers /\ UNCHANGED <<cleanup, status>>
    BY <1>0, <1>2 DEF StartRuns, Servers
  <2>2. \A k \in Servers : status[k] # "running"
    BY <1>0, <1>2 DEF StartRuns, ServersRight, ListRight
  <2>3. ListRight'
    BY <1>0, <2>1, <2>2 DEF ServersRight, ListRight, Servers
  <2>4. status[n'] = "none"
    BY <1>0, <2>1 DEF ServersRight, ListRight
  <2> QED
    BY <1>0, <2>1, <2>3, <2>4 DEF ServersRight, PhaseRight
<1>3. CASE ServerStarts
  <2>1. /\ phase = "starting" /\ phase' = "serving" /\ n' = n /\ n \in Servers
        /\ status'[n] = "running" /\ cleanup'[n] = "fresh"
        /\ \A k \in Servers : k # n => status'[k] = status[k] /\ cleanup'[k] = cleanup[k]
    BY <1>0, <1>3 DEF ServerStarts, ServersRight, PhaseRight, TypeOK
  <2>2. ListRight'
    BY <1>0, <2>1 DEF ServersRight, ListRight
  <2> QED
    BY <2>1, <2>2, <1>0 DEF ServersRight, PhaseRight
<1>4. CASE Interrupt
  <2>0. n' = n /\ n > 0 /\ n \in Servers
    BY <1>0, <1>4 DEF Interrupt, ServersRight, PhaseRight
  <2>1. CASE \A k \in Servers : cleanup[k] = "none"
    <3>1. phase' = "idle" /\ UNCHANGED <<cleanup, status>>
      BY <1>4, <2>1 DEF Interrupt, CloseLoop
    <3>2. \A k \in Servers : status[k] = "none"
      BY <1>0, <2>1 DEF ServersRight, ListRight
    <3> QED
      BY <1>0, <2>0, <2>1, <3>1, <3>2 DEF ServersRight, ListRight, PhaseRight
  <2>2. CASE \E k \in Servers : cleanup[k] # "none"
    <3>1. /\ \A k \in Servers : status'[k] = IF cleanup[k] = "fresh" THEN "stopping" ELSE status[k]
          /\ \A k \in Servers : cleanup'[k] = IF cleanup[k] = "fresh" THEN "used" ELSE cleanup[k]
      BY <1>4, <2>2 DEF Interrupt, StopBegins, Awaited
    <3>2. ListRight'
      <4>1. ASSUME NEW k \in Servers
            PROVE  /\ cleanup'[k] = "none" <=> status'[k] = "none"
                   /\ cleanup'[k] # "fresh" /\ status'[k] # "running"
                   /\ k > n => status'[k] = "none"
        BY <1>0, <3>1 DEF ServersRight, ListRight
      <4> QED
        BY <2>0, <4>1 DEF ListRight
    <3>3. CASE \E k \in Servers : cleanup[k] = "used"
      <4>1. phase' = "idle"
        BY <1>4, <2>2, <3>3 DEF Interrupt
      <4> QED
        BY <2>0, <3>2, <4>1 DEF ServersRight, PhaseRight
    <3>4. CASE ~ \E k \in Servers : cleanup[k] = "used"
      <4>1. phase' = "stopping"
        BY <1>4, <2>2, <3>4 DEF Interrupt
      <4>2. ASSUME NEW k \in 1 .. n - 1 PROVE status'[k] = "none"
        <5>1. k \in Servers /\ k # n
          BY <1>0
        <5>2. cleanup[k] = "none"
          BY <1>0, <3>4, <5>1 DEF TypeOK, ServersRight, ListRight
        <5> QED
          BY <1>0, <3>1, <5>1, <5>2 DEF ServersRight, ListRight
      <4> QED
        BY <2>0, <3>2, <4>1, <4>2 DEF ServersRight, PhaseRight
    <3> QED
      BY <3>3, <3>4
  <2> QED
    BY <2>1, <2>2
<1>5. CASE InterruptedAgain
  <2>1. phase = "stopping" /\ phase' = "idle" /\ UNCHANGED <<n, cleanup, status>>
    BY <1>5 DEF InterruptedAgain
  <2> QED
    BY <1>0, <2>1 DEF ServersRight, ListRight, PhaseRight
<1>6. ASSUME NEW k \in Servers, StopEnds(k) PROVE ServersRight'
  <2>1. /\ n' = n /\ phase # "idle" /\ cleanup' = cleanup
        /\ status[k] = "stopping" /\ status'[k] = "stopped"
        /\ \A j \in Servers : j # k => status'[j] = status[j]
        /\ phase' = (IF phase = "stopping" /\ k = n THEN "idle" ELSE phase)
    BY <1>0, <1>6 DEF StopEnds, Runs, CloseLoop, TypeOK
  <2>2. ListRight'
    <3>1. ASSUME NEW j \in Servers
          PROVE  /\ cleanup'[j] = "none" <=> status'[j] = "none"
                 /\ cleanup'[j] = "fresh" <=> status'[j] = "running"
                 /\ status'[j] = "running" => j = n' /\ phase' = "serving"
                 /\ j > n' => status'[j] = "none"
      BY <1>0, <2>1 DEF ServersRight, ListRight
    <3> QED
      BY <3>1 DEF ListRight
  <2>3. n > 0 /\ n \in Servers /\ \A j \in 1 .. n - 1 : j \in Servers
    BY <1>0, <2>1 DEF ServersRight, PhaseRight
  <2>4. PhaseRight'
    <3>1. phase' = "starting" => status'[n] = "none"
      BY <1>0, <2>1, <2>3 DEF ServersRight, PhaseRight
    <3>2. phase' = "serving" => status'[n] = "running"
      BY <1>0, <2>1, <2>3 DEF ServersRight, PhaseRight
    <3>3. phase' = "stopping" => \A j \in 1 .. n - 1 : status'[j] = "none"
      BY <1>0, <2>1, <2>3 DEF ServersRight, PhaseRight
    <3> QED
      BY <2>1, <2>3, <3>1, <3>2, <3>3 DEF PhaseRight
  <2> QED
    BY <2>2, <2>4 DEF ServersRight
<1> QED
  BY <1>1, <1>2, <1>3, <1>4, <1>5, <1>6
  DEF Next, StartRefused, BindFails, StartOnClosedLoop, NewLoop, GraceElapses, CancelRpcs, Accept,
      Works, PeerBreaks, Cancelled, NilEnds, vars

\* Every step keeps the servers of a closed loop where they are, and what the end of
\* a call adds to them has been shut down.
LEMMA FrozenStep == IInv /\ [Next]_vars => FrozenRight'
<1> SUFFICES ASSUME IInv, [Next]_vars PROVE FrozenRight'
  OBVIOUS
<1>0. /\ TypeOK /\ ListRight /\ PhaseRight /\ FrozenRight
      /\ Starts \in Nat /\ n \in Nat /\ n <= Starts
      /\ \A k \in 1 .. n : k \in Servers
      /\ \A k \in frozen : k \in Servers /\ k \in Nat
  BY BoundsAssumption DEF IInv, TypeOK, Servers
<1> USE DEF process, servers, links
<1>1. ASSUME frozen' = frozen, n' = n, phase' = phase \/ phase' = "idle" \/ phase # "idle",
             \A k \in frozen : status'[k] = status[k]
      PROVE  FrozenRight'
  BY <1>0, <1>1 DEF FrozenRight
<1>2. ASSUME frozen' = 1 .. n, n' = n, phase' = "idle",
             \A k \in 1 .. n : status'[k] \in {"none", "stopped"}
      PROVE  FrozenRight'
  BY <1>0, <1>2 DEF FrozenRight
<1>3. ASSUME NEW call \in Calls, StartRuns(call) PROVE FrozenRight'
  BY <1>0, <1>3 DEF StartRuns, FrozenRight
<1>4. CASE ServerStarts
  <2>1. \A k \in frozen : status'[k] = status[k]
    BY <1>0, <1>4 DEF ServerStarts, FrozenRight, TypeOK
  <2> QED
    BY <1>1, <1>4, <2>1 DEF ServerStarts
<1>5. CASE Interrupt
  <2>1. CASE \A k \in Servers : cleanup[k] = "none"
    <3>1. frozen' = 1 .. n /\ n' = n /\ phase' = "idle" /\ status' = status
      BY <1>5, <2>1 DEF Interrupt, CloseLoop
    <3> QED
      BY <1>0, <1>2, <2>1, <3>1 DEF ListRight
  <2>2. CASE \E k \in Servers : cleanup[k] # "none"
    <3>1. frozen' = frozen /\ n' = n /\ phase # "idle" /\ StopBegins
      BY <1>5, <2>2 DEF Interrupt
    <3>2. \A k \in frozen : status'[k] = status[k]
      BY <1>0, <3>1 DEF StopBegins, ListRight, FrozenRight
    <3> QED
      BY <1>1, <3>1, <3>2
  <2> QED
    BY <2>1, <2>2
<1>6. CASE InterruptedAgain
  BY <1>1, <1>6 DEF InterruptedAgain
<1>7. ASSUME NEW k \in Servers, StopEnds(k) PROVE FrozenRight'
  <2>1. n' = n /\ phase # "idle" /\ k \notin frozen
    BY <1>7 DEF StopEnds, Runs
  <2>2. /\ status'[k] = "stopped"
        /\ \A j \in Servers : j # k => status'[j] = status[j]
    BY <1>0, <1>7 DEF StopEnds, TypeOK
  <2>3. CASE phase = "stopping" /\ k = n
    <3>1. frozen' = 1 .. n /\ phase' = "idle"
      BY <1>7, <2>3 DEF StopEnds, CloseLoop
    <3>2. \A j \in 1 .. n : j = n \/ j \in 1 .. n - 1
      BY <1>0
    <3> QED
      BY <1>0, <1>2, <2>1, <2>2, <2>3, <3>1, <3>2 DEF PhaseRight
  <2>4. CASE ~(phase = "stopping" /\ k = n)
    BY <1>0, <1>1, <1>7, <2>1, <2>2, <2>4 DEF StopEnds
  <2> QED
    BY <2>3, <2>4
<1> QED
  BY <1>1, <1>3, <1>4, <1>5, <1>6, <1>7
  DEF Next, StartRefused, BindFails, StartOnClosedLoop, NewLoop, GraceElapses, CancelRpcs, Accept,
      Works, PeerBreaks, Cancelled, NilEnds, vars

(***************************************************************************)
(* The connections.                                                        *)
(***************************************************************************)

\* What ConnRight and ClosedAfterGrace ask of a connection.
Links(c) ==
  /\ of[c] <= n
  /\ of[c] = 0 <=> life[c] = "none"
  /\ of[c] > 0 => status[of[c]] # "none"
  /\ life[c] \in {"none", "closed"} => busy[c] = 0
  /\ life[c] = "dropped" => cut[c] # "no"
  /\ cut[c] = "grace" => of[c] \in elapsed
LateOrCut(c) ==
  of[c] \in frozen /\ (Unended(c) \/ busy[c] > 0)
    => \/ cut[c] \in {"peer", "nil"}
       \/ cut[c] = "grace" /\ of[c] \in elapsed

\* What is said of the connections, one by one.
LEMMA ConnParts == ConnRight /\ ClosedAfterGrace <=> \A c \in Conn : Links(c) /\ LateOrCut(c)
BY DEF ConnRight, ClosedAfterGrace, Links, LateOrCut

\* The steps of a connection that works neither make nor drop it, and close it
\* only without tasks.
LEMMA LinkMoves ==
  ASSUME TypeOK, NEW c \in Conn,
         Moves(c), Link(c)!Begin \/ Link(c)!End \/ Link(c)!Drain \/ Link(c)!Close
  PROVE  /\ life[c] \in {"open", "draining", "closed", "dropped"} \/ busy[c] > 0
         /\ life[c] = "none" <=> life'[c] = "none"
         /\ (life[c] \in {"none", "closed"} => busy[c] = 0)
              => (life'[c] \in {"none", "closed"} => busy'[c] = 0)
         /\ life'[c] = "dropped" <=> life[c] = "dropped"
<1>0. busy[c] \in Nat
  BY BoundsAssumption DEF TypeOK
<1>1. CASE Link(c)!Begin
  BY <1>1 DEF Link!Begin
<1>2. CASE Link(c)!End
  BY <1>0, <1>2 DEF Link!End
<1>3. CASE Link(c)!Drain
  BY <1>0, <1>3 DEF Link!Drain
<1>4. CASE Link(c)!Close
  BY <1>4 DEF Link!Close
<1> QED
  BY <1>1, <1>2, <1>3, <1>4

\* When the loop is closed, every connection's server has been shut down.
LEMMA LoopClosed ==
  ASSUME IInv, frozen' = 1 .. n, NEW c \in Conn,
         UNCHANGED <<of, life, busy, cut, elapsed>>,
         of[c] > 0 => (Unended(c) => cut[c] # "no")
  PROVE  LateOrCut(c)'
<1>1. Links(c) /\ TypeOK
  BY ConnParts DEF IInv
<1>2. busy[c] \in Nat /\ of[c] \in Nat /\ n \in Nat
  BY <1>1, BoundsAssumption DEF TypeOK
<1>3. CASE of[c] = 0
  BY <1>2, <1>3 DEF LateOrCut
<1>4. CASE of[c] > 0
  <2>1. life[c] \in {"open", "draining", "closed", "dropped"}
    BY <1>1, <1>4 DEF TypeOK, Links, Lives
  <2>2. Unended(c) \/ busy[c] > 0 => cut[c] # "no"
    BY <1>1, <1>4, <2>1 DEF Links, Unended
  <2>3. cut[c] \in {"no", "peer", "grace", "nil"}
    BY <1>1 DEF TypeOK
  <2>4. cut[c] = "grace" => of[c] \in elapsed
    BY <1>1 DEF Links
  <2> QED
    BY <2>2, <2>3, <2>4 DEF LateOrCut, Unended
<1> QED
  BY <1>2, <1>3, <1>4

\* Every step keeps it of each connection,
LEMMA LinksStep ==
  ASSUME IInv, [Next]_vars, NEW c \in Conn
  PROVE  Links(c)' /\ LateOrCut(c)'
<1>0. /\ TypeOK /\ ListRight /\ PhaseRight /\ Links(c) /\ LateOrCut(c)
      /\ n \in Nat /\ of[c] \in Nat /\ of[c] \in 0 .. n /\ Starts \in Nat /\ n <= Starts
      /\ of[c] > 0 => of[c] \in Servers
  BY ConnParts, BoundsAssumption DEF IInv, TypeOK, Servers, Links
<1> USE DEF process, servers, links
<1>1. ASSUME UNCHANGED <<of, life, busy, cut, elapsed, frozen, status>>, n' >= n, n' \in Nat
      PROVE  Links(c)' /\ LateOrCut(c)'
  BY <1>0, <1>1 DEF Links, LateOrCut, Unended
<1>2. ASSUME UNCHANGED <<of, life, busy, cut, elapsed, n>>,
             \A k \in Servers : status[k] # "none" => status'[k] # "none"
      PROVE  Links(c)' /\ (frozen' = frozen => LateOrCut(c)')
  BY <1>0, <1>2 DEF Links, LateOrCut, Unended
<1>3. CASE ServerStarts
  <2>1. /\ UNCHANGED <<of, life, busy, cut, elapsed, n, frozen>>
        /\ \A k \in Servers : status[k] # "none" => status'[k] # "none"
    BY <1>0, <1>3 DEF ServerStarts, TypeOK
  <2> QED
    BY <1>2, <2>1
<1>4. CASE Interrupt
  <2>1. UNCHANGED <<of, life, busy, cut, elapsed, n>>
    BY <1>4 DEF Interrupt
  <2>2. \A k \in Servers : status[k] # "none" => status'[k] # "none"
    BY <1>4 DEF Interrupt, StopBegins
  <2>3. CASE \A k \in Servers : cleanup[k] = "none"
    <3>1. frozen' = 1 .. n
      BY <1>4, <2>3 DEF Interrupt, CloseLoop
    <3>2. ~(of[c] > 0)
      BY <1>0, <2>3 DEF ListRight, Links
    <3> QED
      BY <1>2, <2>1, <2>2, <3>1, <3>2, LoopClosed
  <2>4. CASE ~ \A k \in Servers : cleanup[k] = "none"
    <3>1. frozen' = frozen
      BY <1>4, <2>4 DEF Interrupt
    <3> QED
      BY <1>2, <2>1, <2>2, <3>1
  <2> QED
    BY <2>3, <2>4
<1>5. ASSUME NEW k \in Servers, GraceElapses(k) PROVE Links(c)' /\ LateOrCut(c)'
  BY <1>0, <1>5 DEF GraceElapses, Links, LateOrCut, Unended
<1>6. ASSUME NEW k \in Servers, CancelRpcs(k) PROVE Links(c)' /\ LateOrCut(c)'
  <2>1. /\ UNCHANGED <<of, life, busy, elapsed, frozen, status, n>> /\ k \in elapsed
        /\ cut'[c] = cut[c] \/ (cut'[c] = "grace" /\ of[c] = k /\ cut[c] = "no")
    BY <1>6 DEF CancelRpcs, MayCancel, Rpcs
  <2> QED
    BY <1>0, <2>1 DEF Links, LateOrCut, Unended
<1>7. ASSUME NEW k \in Servers, StopEnds(k) PROVE Links(c)' /\ LateOrCut(c)'
  <2>1. UNCHANGED <<of, life, busy, cut, elapsed, n>>
    BY <1>7 DEF StopEnds
  <2>2. \A j \in Servers : status[j] # "none" => status'[j] # "none"
    BY <1>0, <1>7 DEF StopEnds, TypeOK
  <2>3. CASE phase = "stopping" /\ k = n
    <3>1. frozen' = 1 .. n /\ Rpcs(n) = {}
      BY <1>7, <2>3 DEF StopEnds, CloseLoop
    <3>2. ASSUME of[c] > 0, Unended(c) PROVE cut[c] # "no"
      <4>1. of[c] = n
        <5>1. of[c] \in 1 .. n /\ status[of[c]] # "none"
          BY <1>0, <3>2 DEF Links
        <5> QED
          BY <1>0, <2>3, <5>1 DEF PhaseRight
      <4> QED
        BY <3>1, <3>2, <4>1 DEF Rpcs
    <3> QED
      BY <1>2, <2>1, <2>2, <3>1, <3>2, LoopClosed
  <2>4. CASE ~(phase = "stopping" /\ k = n)
    <3>1. frozen' = frozen
      BY <1>7, <2>4 DEF StopEnds
    <3> QED
      BY <1>2, <2>1, <2>2, <3>1
  <2> QED
    BY <2>3, <2>4
<1>8. ASSUME NEW d \in Conn, d # c,
             Accept(d) \/ Works(d) \/ PeerBreaks(d) \/ Cancelled(d) \/ NilEnds(d)
      PROVE  Links(c)' /\ LateOrCut(c)'
  <2>1. life'[c] = life[c] /\ busy'[c] = busy[c]
    BY <1>0, <1>8, MovesType DEF Accept, Works, PeerBreaks, Cancelled, NilEnds
  <2>2. of'[c] = of[c] /\ cut'[c] = cut[c] /\ UNCHANGED <<elapsed, frozen, status, n>>
    BY <1>0, <1>8 DEF Accept, Works, PeerBreaks, Cancelled, NilEnds, TypeOK
  <2> QED
    BY <1>0, <2>1, <2>2 DEF Links, LateOrCut, Unended
<1>9. CASE Accept(c)
  <2>1. /\ of'[c] = n /\ n > 0 /\ n \notin frozen /\ status[n] = "running" /\ life[c] = "none"
        /\ UNCHANGED <<elapsed, frozen, status, n, cut>>
    BY <1>0, <1>9 DEF Accept, Runs, TypeOK, Link!Accept
  <2>2. life'[c] = "open" /\ busy'[c] = busy[c]
    BY <1>9 DEF Accept, Link!Accept
  <2>3. cut[c] # "grace" \/ of'[c] \in elapsed
    <3>1. of[c] = 0 /\ 0 \notin Servers /\ elapsed \in SUBSET Servers
      BY <1>0, <2>1 DEF Links, TypeOK, Servers
    <3> QED
      BY <1>0, <3>1 DEF Links
  <2> QED
    BY <1>0, <2>1, <2>2, <2>3 DEF Links, LateOrCut
<1>10. CASE Works(c)
  <2>1. of[c] \notin frozen /\ UNCHANGED <<of, elapsed, frozen, status, n, cut>>
    BY <1>10 DEF Works, Runs
  <2>2. /\ life[c] = "none" <=> life'[c] = "none"
        /\ (life[c] \in {"none", "closed"} => busy[c] = 0)
             => (life'[c] \in {"none", "closed"} => busy'[c] = 0)
        /\ life'[c] = "dropped" <=> life[c] = "dropped"
    BY <1>0, <1>10, LinkMoves DEF Works
  <2> QED
    BY <1>0, <2>1, <2>2 DEF Links, LateOrCut
<1>11. CASE PeerBreaks(c)
  <2>1. UNCHANGED <<of, life, busy, elapsed, frozen, status, n>> /\ cut'[c] = "peer"
    BY <1>0, <1>11 DEF PeerBreaks, TypeOK
  <2> QED
    BY <1>0, <2>1 DEF Links, LateOrCut
<1>12. CASE Cancelled(c) \/ NilEnds(c)
  <2>1. /\ of[c] \notin frozen /\ UNCHANGED <<of, elapsed, frozen, status, n>>
        /\ life'[c] = "dropped" /\ life[c] # "none"
    BY <1>12 DEF Cancelled, NilEnds, Runs, Link!Drop
  <2>2. cut'[c] # "no" /\ (cut'[c] = "grace" => of[c] \in elapsed)
    BY <1>0, <1>12 DEF Cancelled, NilEnds, Links, TypeOK
  <2> QED
    BY <1>0, <2>1, <2>2 DEF Links, LateOrCut
<1>13. ASSUME NEW call \in Calls, StartRuns(call) PROVE Links(c)' /\ LateOrCut(c)'
  BY <1>0, <1>1, <1>13 DEF StartRuns
<1>14. CASE \/ \E call \in Calls : StartRefused(call) \/ BindFails(call) \/ StartOnClosedLoop(call)
            \/ InterruptedAgain \/ NewLoop \/ UNCHANGED vars
  BY <1>0, <1>1, <1>14
  DEF StartRefused, BindFails, StartOnClosedLoop, InterruptedAgain, NewLoop, vars
<1>15. CASE \E d \in Conn : Accept(d) \/ Works(d) \/ PeerBreaks(d) \/ Cancelled(d) \/ NilEnds(d)
  BY <1>8, <1>9, <1>10, <1>11, <1>12, <1>15
<1> QED
  BY <1>3, <1>4, <1>5, <1>6, <1>7, <1>13, <1>14, <1>15 DEF Next

\* and so of all.
LEMMA ConnStep == IInv /\ [Next]_vars => ConnRight' /\ ClosedAfterGrace'
<1> SUFFICES ASSUME IInv, [Next]_vars PROVE ConnRight' /\ ClosedAfterGrace'
  OBVIOUS
<1>1. \A c \in Conn : Links(c)' /\ LateOrCut(c)'
  BY LinksStep
<1> QED
  BY <1>1 DEF ConnRight, ClosedAfterGrace, Links, LateOrCut

(***************************************************************************)
(* The theorems.                                                           *)
(***************************************************************************)

\* IInv holds in every reachable state of the process.
THEOREM Invariance == Spec => []IInv
<1>1. IInv /\ [Next]_vars => IInv'
  BY TypeStep, ServersStep, FrozenStep, ConnStep DEF IInv, ServersRight
<1> QED
  BY <1>1, InitIInv, PTL DEF Spec

\* A call that closes the loop leaves no server on it that listens or is being
\* shut down, for any calls of start and connections (server.py:99-105, 153-155).
THEOREM StoppedBeforeClosedHolds == Spec => []StoppedBeforeClosed
<1>1. IInv => StoppedBeforeClosed
  BY DEF IInv, FrozenRight, StoppedBeforeClosed
<1> QED
  BY <1>1, Invariance, PTL

\* The loop is closed under no invocation, unless its RPC was broken or given up,
\* or the grace period was over (server.py:98-106, 150-155).
THEOREM ClosedAfterGraceHolds == Spec => []ClosedAfterGrace
<1>1. IInv => ClosedAfterGrace
  BY DEF IInv
<1> QED
  BY <1>1, Invariance, PTL
=============================================================================
