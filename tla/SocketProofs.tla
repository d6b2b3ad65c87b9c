---------------------------- MODULE SocketProofs ----------------------------
(***************************************************************************)
(* The safety of socket.js for all its delays: one inductive invariant,    *)
(* Socketed, of which every conjunct needs some of the others.             *)
(***************************************************************************)
EXTENDS Socket, TLAPS

Socketed == TypeOK /\ OneVoice /\ SocketOrTimer /\ OpenIsHonest /\ Patience

(* The delays of socket.js, one by one.                                    *)
LEMMA Delayed ==
    /\ Watchdog \in Nat /\ Watchdog > 0 /\ WatchEvery \in Nat /\ WatchEvery > 0
    /\ MaxBackoff \in Nat /\ MinBackoff \in Nat /\ MinBackoff > 0 /\ MinBackoff <= MaxBackoff
    /\ ShowAfter \in Nat /\ ShowAfter <= Watchdog
    /\ Deaf \in Nat /\ Deaf > 0 /\ Deaf = Watchdog + WatchEvery + 1
BY Times DEF Deaf

(* The delay of a new retry is a time, and the back-off keeps its bounds.  *)
LEMMA RetryIsSet ==
    ASSUME TypeOK, ScheduleRetry
    PROVE  /\ retry' \in Delays /\ retry' # Never
           /\ backoff' \in MinBackoff .. MaxBackoff
BY Delayed, NeverIsNoTime DEF TypeOK, ScheduleRetry, Delays

(* connect() puts a new socket in the place of whatever was there.         *)
LEMMA ConnectReplaces ==
    ASSUME Socketed, Connect, backoff' \in {backoff, MinBackoff},
           UNCHANGED <<watch, net>>, visible' \in BOOLEAN
    PROVE  Socketed'
<1> USE Delayed, NeverIsNoTime, SocketNames
<1>1. PICK s \in Sockets : Fresh(s, ws)
  BY DEF Connect
<1>2. TypeOK'
  <2>1. sock' \in [Sockets -> [state : {"unused", "connecting", "open", "closing"}, wired : BOOLEAN]]
    BY <1>1 DEF Socketed, TypeOK, Fresh, New, Dropped
  <2>2. alive' \subseteq Sockets
    BY <1>1 DEF Socketed, TypeOK, Fresh
  <2>3. backoff' \in MinBackoff .. MaxBackoff /\ silence' \in 0 .. Deaf /\ watch' \in 0 .. WatchEvery
    BY DEF Socketed, TypeOK, Connect
  <2>4. ws' \in Sockets /\ retry' = Never /\ open' \in BOOLEAN
    BY <1>1 DEF Fresh, Connect
  <2>5. net' \in BOOLEAN
    BY DEF Socketed, TypeOK
  <2> QED BY <2>1, <2>2, <2>3, <2>4, <2>5 DEF TypeOK
<1>3. OneVoice'
  BY <1>1 DEF Socketed, TypeOK, OneVoice, Wired, Fresh, New, Dropped, Unused
<1>4. SocketOrTimer' /\ OpenIsHonest'
  BY <1>1 DEF Socketed, TypeOK, SocketOrTimer, OpenIsHonest, Fresh, Connect, New
<1>5. Patience'
  BY <1>1 DEF Socketed, TypeOK, Patience, Connect
<1> QED BY <1>2, <1>3, <1>4, <1>5 DEF Socketed

(* The page starts with one socket that is connecting. *)
LEMMA SocketedInit == Init => Socketed
<1> SUFFICES ASSUME Init PROVE Socketed
  OBVIOUS
<1> USE Delayed, NeverIsNoTime, SocketNames DEF Init
<1>1. TypeOK
  <2>1. sock \in [Sockets -> [state : {"unused", "connecting", "open", "closing"}, wired : BOOLEAN]]
    BY DEF New, Unused
  <2>2. alive \subseteq Sockets /\ visible \in BOOLEAN /\ net \in BOOLEAN /\ open \in BOOLEAN
    OBVIOUS
  <2>3. backoff \in MinBackoff .. MaxBackoff /\ silence \in 0 .. Deaf /\ watch \in 0 .. WatchEvery
    OBVIOUS
  <2> QED BY <2>1, <2>2, <2>3 DEF TypeOK
<1>2. OneVoice /\ OpenIsHonest
  BY DEF OneVoice, OpenIsHonest, Wired, New, Unused
<1>3. SocketOrTimer /\ Patience
  BY DEF SocketOrTimer, Patience
<1> QED BY <1>1, <1>2, <1>3 DEF Socketed

(* Every step keeps the invariant. *)
LEMMA SocketedStep == Socketed /\ [Next]_vars => Socketed'
<1> SUFFICES ASSUME Socketed, [Next]_vars PROVE Socketed'
  OBVIOUS
<1> USE Delayed, NeverIsNoTime, SocketNames
<1>1. ASSUME NEW s \in Sockets, OnOpen(s) PROVE Socketed'
  <2>1. TypeOK'
    <3>1. sock' \in [Sockets -> [state : {"unused", "connecting", "open", "closing"}, wired : BOOLEAN]]
      <4>1. sock \in [Sockets -> [state : {"unused", "connecting", "open", "closing"}, wired : BOOLEAN]] /\ s \in Sockets
        BY <1>1 DEF Socketed, TypeOK
      <4>2. [sock[s] EXCEPT !.state = "open"] \in [state : {"unused", "connecting", "open", "closing"}, wired : BOOLEAN]
        BY <4>1
      <4>3. sock' = [sock EXCEPT ![s] = [sock[s] EXCEPT !.state = "open"]]
        BY <1>1, <4>1 DEF OnOpen
      <4> QED BY <4>1, <4>2, <4>3
    <3>2. open' \in BOOLEAN /\ backoff' \in MinBackoff .. MaxBackoff /\ silence' \in 0 .. Deaf
      <4>1. CASE Wired(s)
        BY <1>1, <4>1 DEF OnOpen
      <4>2. CASE ~Wired(s)
        BY <1>1, <4>2 DEF Socketed, TypeOK, OnOpen
      <4> QED BY <4>1, <4>2
    <3> QED BY <1>1, <3>1, <3>2 DEF Socketed, TypeOK, OnOpen, Delays
  <2>2. OneVoice'
    BY <1>1 DEF Socketed, TypeOK, OneVoice, Wired, OnOpen
  <2>3. OpenIsHonest'
    BY <1>1 DEF Socketed, TypeOK, OneVoice, OpenIsHonest, Wired, OnOpen
  <2>4. SocketOrTimer' /\ Patience'
    BY <1>1 DEF Socketed, TypeOK, SocketOrTimer, Patience, OnOpen
  <2> QED BY <2>1, <2>2, <2>3, <2>4 DEF Socketed
<1>2. ASSUME NEW s \in Sockets, OnMessage(s) PROVE Socketed'
  BY <1>2 DEF Socketed, TypeOK, OneVoice, SocketOrTimer, OpenIsHonest, Patience, Wired, OnMessage
<1>3. ASSUME NEW s \in Sockets, OnClose(s) PROVE Socketed'
  <2>1. CASE Wired(s) /\ ws = s
    <3>1. retry' \in Delays /\ retry' # Never /\ backoff' \in MinBackoff .. MaxBackoff
      BY <1>3, <2>1, RetryIsSet DEF Socketed, OnClose, Lost
    <3>2. TypeOK'
      BY <1>3, <2>1, <3>1 DEF Socketed, TypeOK, OnClose, Lost, Unused
    <3>3. OneVoice'
      BY <1>3, <2>1 DEF Socketed, TypeOK, OneVoice, Wired, OnClose, Unused
    <3>4. SocketOrTimer' /\ OpenIsHonest' /\ Patience'
      BY <1>3, <2>1, <3>1 DEF SocketOrTimer, OpenIsHonest, Patience, OnClose, Lost
    <3> QED BY <3>2, <3>3, <3>4 DEF Socketed
  <2>2. CASE ~(Wired(s) /\ ws = s)
    <3>1. TypeOK' /\ SocketOrTimer' /\ Patience'
      BY <1>3, <2>2 DEF Socketed, TypeOK, SocketOrTimer, Patience, OnClose, Unused
    <3>2. OneVoice' /\ OpenIsHonest'
      BY <1>3, <2>2 DEF Socketed, TypeOK, OneVoice, OpenIsHonest, Wired, OnClose, Unused
    <3> QED BY <3>1, <3>2 DEF Socketed
  <2> QED BY <2>1, <2>2
<1>4. CASE Retry
  BY <1>4, ConnectReplaces DEF Retry, Socketed, TypeOK
<1>5. CASE Watch
  <2>1. CASE Silent
    <3>1. retry' \in Delays /\ retry' # Never /\ backoff' \in MinBackoff .. MaxBackoff
      BY <1>5, <2>1, RetryIsSet DEF Socketed, Watch, Lost
    <3>2. TypeOK'
      <4>1. sock' \in [Sockets -> [state : {"unused", "connecting", "open", "closing"}, wired : BOOLEAN]]
        <5>1. sock \in [Sockets -> [state : {"unused", "connecting", "open", "closing"}, wired : BOOLEAN]] /\ ws \in Sockets
          BY <2>1 DEF Socketed, TypeOK, Silent
        <5>2. Dropped \in [state : {"unused", "connecting", "open", "closing"}, wired : BOOLEAN]
          BY DEF Dropped
        <5>3. sock' = [sock EXCEPT ![ws] = Dropped]
          BY <1>5, <2>1 DEF Watch
        <5> QED BY <5>1, <5>2, <5>3
      <4>2. alive' \subseteq Sockets /\ watch' \in 0 .. WatchEvery
        BY <1>5, <2>1 DEF Socketed, TypeOK, Watch
      <4> QED BY <1>5, <2>1, <3>1, <4>1, <4>2 DEF Socketed, TypeOK, Watch, Lost
    <3>3. OneVoice'
      BY <1>5, <2>1 DEF Socketed, TypeOK, OneVoice, Wired, Watch, Silent, Dropped
    <3>4. SocketOrTimer' /\ OpenIsHonest' /\ Patience'
      BY <1>5, <2>1, <3>1 DEF SocketOrTimer, OpenIsHonest, Patience, Watch, Lost
    <3> QED BY <3>2, <3>3, <3>4 DEF Socketed
  <2>2. CASE ~Silent
    <3>1. TypeOK' /\ OneVoice' /\ SocketOrTimer' /\ OpenIsHonest'
      BY <1>5, <2>2 DEF Socketed, TypeOK, OneVoice, Wired, SocketOrTimer, OpenIsHonest, Watch
    <3>2. Patience'
      BY <1>5, <2>2 DEF Socketed, TypeOK, Patience, Watch, Silent
    <3> QED BY <3>1, <3>2 DEF Socketed
  <2> QED BY <2>1, <2>2
<1>6. CASE Show
  <2>1. CASE ~open \/ silence > ShowAfter
    BY <1>6, <2>1, ConnectReplaces DEF Show
  <2>2. CASE ~(~open \/ silence > ShowAfter)
    BY <1>6, <2>2 DEF Socketed, TypeOK, OneVoice, Wired, SocketOrTimer, OpenIsHonest, Patience, Show
  <2> QED BY <2>1, <2>2
<1>7. CASE Hide \/ Net
  <2>1. visible' \in BOOLEAN /\ net' \in BOOLEAN /\ alive' \subseteq Sockets
    BY <1>7 DEF Socketed, TypeOK, Hide, Net
  <2> QED BY <1>7, <2>1 DEF Socketed, TypeOK, OneVoice, Wired, SocketOrTimer, OpenIsHonest, Patience, Hide, Net, page
<1>8. CASE Tick
  <2>1. TypeOK' /\ SocketOrTimer'
    BY <1>8 DEF Socketed, TypeOK, SocketOrTimer, Tick, Less, Delays
  <2>2. OneVoice' /\ OpenIsHonest'
    BY <1>8 DEF Socketed, OneVoice, Wired, OpenIsHonest, Tick
  <2>3. Patience'
    BY <1>8 DEF Socketed, TypeOK, Patience, Tick, Less
  <2> QED BY <2>1, <2>2, <2>3 DEF Socketed
<1>9. CASE UNCHANGED vars
  BY <1>9 DEF Socketed, TypeOK, OneVoice, Wired, SocketOrTimer, OpenIsHonest, Patience, vars, page
<1> QED BY <1>1, <1>2, <1>3, <1>4, <1>5, <1>6, <1>7, <1>8, <1>9 DEF Next

(* So it holds throughout. *)
LEMMA SocketInvariant == Spec => []Socketed
BY SocketedInit, SocketedStep, PTL DEF Spec

(* The types of the page's and the network's state (socket.js:10-14).      *)
THEOREM SocketTypeCorrect == Spec => []TypeOK
<1>1. Socketed => TypeOK
  BY DEF Socketed
<1> QED BY <1>1, SocketInvariant, PTL

(* Whatever order the retry timer, the watchdog, visibilitychange and late *)
(* events come in, only the current socket has handlers (socket.js:22-58). *)
THEOREM OnlyOneVoice == Spec => []OneVoice
<1>1. Socketed => OneVoice
  BY DEF Socketed
<1> QED BY <1>1, SocketInvariant, PTL

(* The page always has a socket or a pending timer, never both             *)
(* (socket.js:51-72).                                                      *)
THEOREM NeverStranded == Spec => []SocketOrTimer
<1>1. Socketed => SocketOrTimer
  BY DEF Socketed
<1> QED BY <1>1, SocketInvariant, PTL

(* onState was last called with TRUE exactly while the current socket is   *)
(* open (socket.js:16-20).                                                 *)
THEOREM OpenIsTrue == Spec => []OpenIsHonest
<1>1. Socketed => OpenIsHonest
  BY DEF Socketed
<1> QED BY <1>1, SocketInvariant, PTL

(* The watchdog of a visible page leaves no socket silent for longer than  *)
(* its limit and one period (socket.js:67-72).                             *)
THEOREM SilenceIsBounded == Spec => []SilenceBounded
<1>1. Socketed => SilenceBounded
  BY Delayed DEF Socketed, TypeOK, Patience, SilenceBounded
<1> QED BY <1>1, SocketInvariant, PTL
=============================================================================
