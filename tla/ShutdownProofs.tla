---------------------------- MODULE ShutdownProofs ----------------------------
(***************************************************************************)
(* Proofs about Shutdown: the waits of main.go and waitClients let every   *)
(* PUT and every WebSocket handler finish, for any number of them, as long *)
(* as their common limit is not reached, but for a handler that is between *)
(* Accept and add when the waits are over.                                 *)
(***************************************************************************)
EXTENDS Shutdown, FiniteSetTheorems, TLAPS

(* The count is the number of handlers between add and remove. *)
Counted == nclients = Cardinality(Registered)

(* Once Shutdown has returned in time, no tracked request is left. *)
Drained == main \in {"waiting", "leaving", "exited"} /\ ~late => Tracked = {}

(* Once waitClients has returned in time, no handler is left but those that *)
(* were on their way to be counted.                                        *)
Left == main \in {"leaving", "exited"} /\ ~late => Active \subseteq between

SInv == TypeOK /\ Counted /\ Drained /\ Left

-----------------------------------------------------------------------------
(* The handlers in h.clients are counted by a number in nclients' range. *)
LEMMA CountInRange ==
    /\ Cardinality(Registered) \in 0 .. Cardinality(Clients)
    /\ Cardinality(Registered) = 0 <=> Registered = {}
<1>1. Registered \subseteq Clients
    BY DEF Registered
<1>2. IsFiniteSet(Registered)
    BY <1>1, ClientsFinite, FS_Subset
<1>3. Cardinality(Registered) <= Cardinality(Clients)
    BY <1>1, ClientsFinite, FS_Subset
<1>4. Cardinality(Registered) \in Nat /\ Cardinality(Clients) \in Nat
    BY <1>2, ClientsFinite, FS_CardinalityType
<1>5. Cardinality(Registered) = 0 <=> Registered = {}
    BY <1>2, FS_EmptySet
<1> QED BY <1>3, <1>4, <1>5

(* The same after a step. *)
LEMMA CountInRangeNext ==
    Cardinality(Registered') \in 0 .. Cardinality(Clients)
<1>1. Registered' \subseteq Clients
    BY DEF Registered
<1>2. Cardinality(Registered') <= Cardinality(Clients) /\ IsFiniteSet(Registered')
    BY <1>1, ClientsFinite, FS_Subset
<1>3. Cardinality(Registered') \in Nat /\ Cardinality(Clients) \in Nat
    BY <1>2, ClientsFinite, FS_CardinalityType
<1> QED BY <1>2, <1>3

(* No handler has begun. *)
LEMMA ShutdownInit == Init => SInv
<1> SUFFICES ASSUME Init PROVE SInv
    OBVIOUS
<1>1. Registered = {} /\ Tracked = {} /\ Active = {}
    BY DEF Init, Registered, Tracked, Active
<1>2. Cardinality(Registered) = 0
    BY <1>1, CountInRange
<1>3. Counted
    BY <1>2 DEF Init, Counted
<1>4. TypeOK
    BY <1>2, CountInRange DEF Init, TypeOK
<1> QED BY <1>1, <1>3, <1>4 DEF SInv, Drained, Left

(* A handler's step inside h.clients, or outside of it, leaves the clients *)
(* that are counted as they are.                                           *)
LEMMA SameClients ==
    ASSUME TypeOK, Counted, NEW c \in Clients, NEW from, NEW to, At(c, from, to),
           nclients' = nclients,
           from \in {"selecting", "writing", "closing", "closed", "removing"}
               <=> to \in {"selecting", "writing", "closing", "closed", "removing"}
    PROVE  Registered' = Registered /\ Counted'
<1>1. \A d \in Clients : ws'[d] = IF d = c THEN to ELSE ws[d]
    BY DEF TypeOK, At
<1>2. Registered' = Registered
    BY <1>1 DEF Registered, At
<1> QED BY <1>2 DEF Counted

(* What main() does. *)
LEMMA MainStep ==
    ASSUME SInv, main # "exited", Signal \/ Main \/ Expire
    PROVE  SInv'
<1>1. TypeOK /\ Counted /\ Drained /\ Left
    BY DEF SInv
<1>2. UNCHANGED <<put, ws, nclients, queued, there>>
    BY DEF Signal, Main, Begin, ShutdownReturns, WaitReturns, Exit, Expire
<1>3. Registered' = Registered /\ Tracked' = Tracked /\ Active' = Active
    BY <1>2 DEF Registered, Tracked, Active
<1>4. Counted'
    BY <1>1, <1>2, <1>3 DEF Counted
<1>5. /\ main' \in {"serving", "shutting", "waiting", "leaving", "exited"}
      /\ stopped' \in BOOLEAN /\ late' \in BOOLEAN /\ between' \subseteq Clients
    BY <1>1 DEF TypeOK, Signal, Main, Begin, ShutdownReturns, WaitReturns, Exit, Expire
<1>6. TypeOK'
    BY <1>1, <1>2, <1>5 DEF TypeOK
<1>7. Drained'
    BY <1>1, <1>3 DEF TypeOK, Drained, Signal, Main, Begin, ShutdownReturns, Idle, WaitReturns, Exit, Expire
<1>8. ASSUME WaitReturns PROVE Left'
    <2> SUFFICES ASSUME ~late PROVE Active' \subseteq between'
        BY <1>8, Zenon DEF Left, WaitReturns
    <2>1. main = "waiting" /\ nclients = 0 /\ between' = {c \in Clients : ws[c] = "greeting"}
        BY <1>8 DEF WaitReturns, WaitEnds, NoneLeft
    <2>2. Registered = {}
        BY <1>1, <2>1, CountInRange DEF Counted
    <2>3. Tracked = {}
        BY <1>1, <2>1 DEF Drained
    <2>4. ASSUME NEW c \in Active PROVE c \in Clients /\ ws[c] = "greeting"
        <3>1. c \in Clients /\ ws[c] \notin {"none", "gone"}
            BY DEF Active
        <3>2. ws[c] # "accepting" /\ ws[c] \notin {"selecting", "writing", "closing", "closed", "removing"}
            BY <2>2, <2>3, <3>1 DEF Registered, Tracked
        <3> QED BY <1>1, <3>1, <3>2 DEF TypeOK
    <2> QED BY <1>3, <2>1, <2>4
<1>9. ASSUME ~WaitReturns PROVE Left'
    <2>1. main' \in {"leaving", "exited"} => main \in {"leaving", "exited"}
        BY <1>9 DEF Signal, Main, Begin, ShutdownReturns, Exit, Expire
    <2>2. ~late' => ~late
        BY <1>9 DEF Signal, Main, Begin, ShutdownReturns, Exit, Expire
    <2>3. between' = between
        BY <1>9 DEF Signal, Main, Begin, ShutdownReturns, Exit, Expire
    <2> QED BY <1>1, <1>3, <2>1, <2>2, <2>3 DEF Left
<1>10. Left'
    BY <1>8, <1>9
<1> QED BY <1>4, <1>6, <1>7, <1>10 DEF SInv

(* A PUT. *)
LEMMA PutStep ==
    ASSUME SInv, main # "exited", NEW p \in Puts, TakePut(p) \/ AnswerPut(p)
    PROVE  SInv'
<1>1. TypeOK /\ Counted /\ Drained /\ Left
    BY DEF SInv
<1>2. UNCHANGED <<main, stopped, late, ws, nclients, queued, there, between>>
    BY DEF TakePut, AnswerPut
<1>3. put' \in [Puts -> {"none", "handled", "answered"}]
    BY <1>1 DEF TypeOK, TakePut, AnswerPut
<1>4. TypeOK'
    BY <1>1, <1>2, <1>3 DEF TypeOK
<1>5. Counted'
    BY <1>1, <1>2 DEF Counted, Registered
<1>6. Left'
    BY <1>1, <1>2 DEF Left, Active
<1>7. Drained'
    <2>1. CASE TakePut(p)
        BY <2>1, <1>2 DEF TakePut, Serving, Drained
    <2>2. CASE AnswerPut(p)
        BY <2>2, <1>1, <1>2 DEF AnswerPut, Drained, Tracked, TypeOK
    <2> QED BY <2>1, <2>2
<1> QED BY <1>4, <1>5, <1>6, <1>7 DEF SInv

(* A WebSocket handler. *)
HandlerStep(c) ==
    \/ TakeClient(c) \/ Accept(c) \/ Add(c) \/ Enqueue(c) \/ Take(c)
    \/ Done(c) \/ Write(c) \/ Close(c) \/ Closed(c) \/ Remove(c)

(* A step of a WebSocket handler keeps the types. *)
LEMMA HandlerTypes ==
    ASSUME TypeOK, NEW c \in Clients, HandlerStep(c)
    PROVE  TypeOK'
<1>1. UNCHANGED <<main, stopped, late, put, there, between>>
    BY DEF HandlerStep, TakeClient, Accept, Add, Enqueue, Take, Done, Write, Close, Closed, Remove
<1>2. queued' \subseteq Clients
    BY DEF TypeOK, HandlerStep, TakeClient, Accept, Add, Enqueue, Take, Done, Write, Close, Closed, Remove
<1>3. nclients' \in 0 .. Cardinality(Clients)
    BY CountInRangeNext DEF TypeOK, HandlerStep, TakeClient, Accept, Add, Enqueue, Take, Done, Write, Close, Closed, Remove
<1>4. ws' \in [Clients -> {"none", "accepting", "greeting", "selecting", "writing", "closing", "closed", "removing", "gone"}]
    BY DEF TypeOK, At, HandlerStep, TakeClient, Accept, Add, Enqueue, Take, Done, Write, Close, Closed, Remove
<1> QED BY <1>1, <1>2, <1>3, <1>4 DEF TypeOK

(* It counts its client when it adds or removes it, and not otherwise. *)
LEMMA HandlerCounts ==
    ASSUME TypeOK, Counted, NEW c \in Clients, HandlerStep(c)
    PROVE  Counted'
<1>1. CASE TakeClient(c)
    BY <1>1, SameClients DEF TakeClient
<1>2. CASE Accept(c)
    <2>1. CASE At(c, "accepting", "greeting")
        BY <1>2, <2>1, SameClients DEF Accept
    <2>2. CASE At(c, "accepting", "gone")
        BY <1>2, <2>2, SameClients DEF Accept
    <2> QED BY <1>2, <2>1, <2>2 DEF Accept
<1>3. CASE Add(c)
    BY <1>3 DEF Add, Counted
<1>4. CASE Enqueue(c)
    BY <1>4 DEF Enqueue, Counted, Registered
<1>5. CASE Take(c)
    BY <1>5, SameClients DEF Take
<1>6. CASE Done(c)
    BY <1>6, SameClients DEF Done
<1>7. CASE Write(c)
    BY <1>7, SameClients DEF Write
<1>8. CASE Close(c)
    BY <1>8, SameClients DEF Close
<1>9. CASE Closed(c)
    BY <1>9, SameClients DEF Closed
<1>10. CASE Remove(c)
    BY <1>10 DEF Remove, Counted
<1> QED BY <1>1, <1>2, <1>3, <1>4, <1>5, <1>6, <1>7, <1>8, <1>9, <1>10 DEF HandlerStep

(* No handler comes to be tracked once Shutdown has returned. *)
LEMMA HandlerStaysDrained ==
    ASSUME TypeOK, Drained, NEW c \in Clients, HandlerStep(c)
    PROVE  Drained'
<1>1. UNCHANGED <<main, late, put>>
    BY DEF HandlerStep, TakeClient, Accept, Add, Enqueue, Take, Done, Write, Close, Closed, Remove
<1>2. CASE TakeClient(c)
    BY <1>2, <1>1 DEF TakeClient, Serving, Drained
<1>3. CASE ~TakeClient(c)
    <2>1. \A d \in Clients : ws'[d] = "accepting" => ws[d] = "accepting"
        BY <1>3 DEF TypeOK, At, HandlerStep, Accept, Add, Enqueue, Take, Done, Write, Close, Closed, Remove
    <2> QED BY <2>1, <1>1 DEF Drained, Tracked
<1> QED BY <1>2, <1>3

(* Nor does one begin. *)
LEMMA HandlerStaysLeft ==
    ASSUME TypeOK, Left, NEW c \in Clients, HandlerStep(c)
    PROVE  Left'
<1>1. UNCHANGED <<main, late, between>>
    BY DEF HandlerStep, TakeClient, Accept, Add, Enqueue, Take, Done, Write, Close, Closed, Remove
<1>2. CASE TakeClient(c)
    BY <1>2, <1>1 DEF TakeClient, Serving, Left
<1>3. CASE ~TakeClient(c)
    <2>1. \A d \in Clients : ws'[d] \notin {"none", "gone"} => ws[d] \notin {"none", "gone"}
        BY <1>3 DEF TypeOK, At, HandlerStep, Accept, Add, Enqueue, Take, Done, Write, Close, Closed, Remove
    <2> QED BY <2>1, <1>1 DEF Left, Active
<1> QED BY <1>2, <1>3

(* So it keeps the invariant. *)
LEMMA HandlersStep ==
    ASSUME SInv, main # "exited", NEW c \in Clients, HandlerStep(c)
    PROVE  SInv'
BY HandlerTypes, HandlerCounts, HandlerStaysDrained, HandlerStaysLeft DEF SInv

(* Every step keeps the invariant. *)
LEMMA ShutdownStep == SInv /\ [Next]_vars => SInv'
<1> SUFFICES ASSUME SInv, [Next]_vars PROVE SInv'
    OBVIOUS
<1>1. CASE UNCHANGED vars
    BY <1>1 DEF vars, SInv, TypeOK, Counted, Drained, Left, Registered, Tracked, Active
<1>2. CASE main # "exited" /\ (Signal \/ Main \/ Expire)
    BY <1>2, MainStep
<1>3. CASE main # "exited" /\ Handlers
    <2>1. CASE \E p \in Puts : TakePut(p) \/ AnswerPut(p)
        BY <2>1, <1>3, PutStep
    <2>2. CASE \E c \in Clients : HandlerStep(c)
        BY <2>2, <1>3, HandlersStep
    <2> QED BY <2>1, <2>2, <1>3 DEF Handlers, HandlerStep
<1>4. CASE \E c \in Clients : Leave(c)
    BY <1>4 DEF Leave, SInv, TypeOK, Counted, Drained, Left, Registered, Tracked, Active
<1> QED BY <1>1, <1>2, <1>3, <1>4 DEF Next

(* So it holds throughout. *)
LEMMA ShutdownInvariant == Spec => []SInv
BY ShutdownInit, ShutdownStep, PTL DEF Spec

-----------------------------------------------------------------------------
(* The state of main() and of the handlers keeps its types (main.go:99-107, *)
(* hub.go:175-219).                                                        *)
THEOREM ShutdownTypeCorrect == Spec => []TypeOK
<1>1. SInv => TypeOK
    BY DEF SInv
<1> QED BY <1>1, ShutdownInvariant, PTL

(* However many PUTs are under way when the signal comes, the process does *)
(* not end before them unless its five seconds ran out (main.go:99-105).   *)
THEOREM NoPutIsCutOff == Spec => []NoPutCutOff
<1>1. SInv => NoPutCutOff
    BY DEF SInv, Drained, Tracked, NoPutCutOff
<1> QED BY <1>1, ShutdownInvariant, PTL

(* Nor before a WebSocket handler, however many there are, unless it was   *)
(* between Accept and add when waitClients saw nobody left                 *)
(* (main.go:103-107, hub.go:214-219).                                      *)
THEOREM NoClientIsCutOff == Spec => []NoClientCutOff
<1>1. SInv => NoClientCutOff
    BY DEF SInv, Left, NoClientCutOff
<1> QED BY <1>1, ShutdownInvariant, PTL
===============================================================================
