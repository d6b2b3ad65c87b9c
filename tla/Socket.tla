------------------------------- MODULE Socket -------------------------------
(***************************************************************************)
(* web/js/socket.js: the browser's WebSocket with its reconnect back-off,  *)
(* its watchdog and its visibilitychange handler.                          *)
(*                                                                         *)
(* Time passes in units of half a second.  While the page is visible its   *)
(* timers fire on time; a hidden page may be frozen, and its timers fire   *)
(* late or not at all.  A WebSocket object that was dropped still has its   *)
(* close event to come, perhaps after a newer one has opened.              *)
(***************************************************************************)
EXTENDS Naturals

CONSTANTS
    Sockets,     \* WebSocket objects
    NoSocket,    \* ws === null
    Never,       \* no retry timer is set
    Watchdog,    \* WATCHDOG_MS
    WatchEvery,  \* the period of the watchdog's interval
    MaxBackoff,  \* MAX_BACKOFF_MS
    MinBackoff,  \* the first back-off, 500 ms
    ShowAfter,   \* the silence a page that becomes visible tolerates, 1500 ms
    Prompt       \* the longest silence of a server that is there: it sends a status frame a second

ASSUME SocketNames == NoSocket \notin Sockets
ASSUME Times == /\ {Watchdog, WatchEvery, MaxBackoff, MinBackoff, ShowAfter, Prompt} \subseteq Nat \ {0}
                /\ MinBackoff <= MaxBackoff /\ Prompt < Watchdog /\ ShowAfter <= Watchdog
ASSUME NeverIsNoTime == Never \notin Nat

VARIABLES
    ws,        \* the current socket
    sock,      \* per socket: its readyState, and whether its handlers are set
    alive,     \* the sockets whose server end is there and reachable
    open,      \* what onState last reported
    backoff,   \* the next delay before its jitter
    retry,     \* time until the retry timer fires
    silence,   \* time since lastMessage
    watch,     \* time until the watchdog looks
    visible,   \* document.visibilityState
    net        \* whether the server can be reached

page == <<open, backoff, retry, silence, watch>>
vars == <<ws, sock, alive, page, visible, net>>

Unused == [state |-> "unused", wired |-> FALSE]
New == [state |-> "connecting", wired |-> TRUE]
Wired(s) == sock[s].wired

(* Silence is counted up to the first value no test tells from more. *)
Deaf == Watchdog + WatchEvery + 1

(* Bug: drop() closes the socket but leaves its handlers on. *)
DroppedWired == [state |-> "closing", wired |-> TRUE]

(* What drop() makes of a socket. *)
Dropped == [state |-> "closing", wired |-> FALSE]

(* A new socket in place of the old one; a server in reach will take it. *)
Fresh(s, old) ==
    /\ sock[s] = Unused
    /\ sock' = [x \in Sockets |-> IF x = s THEN New ELSE IF x = old THEN Dropped ELSE sock[x]]
    /\ alive' = (alive \ {old}) \cup (IF net THEN {s} ELSE {})
    /\ ws' = s

Init ==
    /\ visible \in BOOLEAN /\ net \in BOOLEAN
    /\ ws \in Sockets
    /\ sock = [s \in Sockets |-> IF s = ws THEN New ELSE Unused]
    /\ alive = IF net THEN {ws} ELSE {}
    /\ open = FALSE /\ backoff = MinBackoff /\ retry = Never
    /\ silence = 0 /\ watch = WatchEvery

-----------------------------------------------------------------------------
(* connect(): the timer is cleared, the old socket dropped, a new one made. *)
Connect ==
    /\ \E s \in Sockets : Fresh(s, ws)
    /\ retry' = Never
    /\ silence' = 0
    /\ open' = FALSE

(* scheduleRetry(): a jitter of a fifth either way, then twice the wait. *)
ScheduleRetry ==
    /\ \E d \in 1 .. 2 * MaxBackoff : 4 * backoff <= 5 * d /\ 5 * d <= 6 * backoff /\ retry' = d
    /\ backoff' = IF 2 * backoff < MaxBackoff THEN 2 * backoff ELSE MaxBackoff

(* Bug: the close event of a socket leaves reconnecting to the watchdog. *)
LostNoRetry ==
    /\ open' = FALSE
    /\ UNCHANGED <<retry, backoff, silence>>

(* Bug: the page is not told. *)
LostSilently ==
    /\ ScheduleRetry
    /\ UNCHANGED <<open, silence>>

(* The socket is gone: onclose, and the watchdog after drop(). *)
Lost ==
    /\ open' = FALSE
    /\ ScheduleRetry
    /\ UNCHANGED silence

OnOpen(s) ==
    /\ sock[s].state = "connecting" /\ s \in alive
    /\ sock' = [sock EXCEPT ![s].state = "open"]
    /\ IF Wired(s) THEN backoff' = MinBackoff /\ silence' = 0 /\ open' = TRUE
                   ELSE UNCHANGED <<backoff, silence, open>>
    /\ UNCHANGED <<ws, alive, retry, watch, visible, net>>

OnMessage(s) ==
    /\ sock[s].state = "open" /\ s \in alive
    /\ silence' = IF Wired(s) THEN 0 ELSE silence
    /\ UNCHANGED <<ws, sock, alive, open, backoff, retry, watch, visible, net>>

(* A socket that was dropped has closed, or a connection was refused, reset *)
(* or timed out.                                                            *)
OnClose(s) ==
    /\ \/ sock[s].state = "closing"
       \/ sock[s].state \in {"connecting", "open"} /\ s \notin alive
    /\ sock' = [sock EXCEPT ![s] = Unused]
    /\ IF Wired(s) /\ ws = s THEN ws' = NoSocket /\ Lost
                             ELSE UNCHANGED <<ws, open, backoff, retry, silence>>
    /\ UNCHANGED <<alive, watch, visible, net>>

-----------------------------------------------------------------------------
(* The retry timer fires. *)
Retry ==
    /\ retry = 0
    /\ Connect
    /\ UNCHANGED <<backoff, watch, visible, net>>

(* Bug: the watchdog's limit is shorter than the server's silences. *)
SilentSoon == ws # NoSocket /\ silence > 1

(* Bug: the watchdog guards open sockets only, not those still connecting. *)
SilentWhenOpen == open /\ silence > Watchdog

Silent == ws # NoSocket /\ silence > Watchdog

Watch ==
    /\ watch = 0
    /\ watch' = WatchEvery
    /\ IF Silent
       THEN /\ sock' = [sock EXCEPT ![ws] = Dropped]
            /\ alive' = alive \ {ws}
            /\ ws' = NoSocket
            /\ Lost
       ELSE UNCHANGED <<ws, sock, alive, open, backoff, retry, silence>>
    /\ UNCHANGED <<visible, net>>

(* visibilitychange: a page that comes back connects at once unless its    *)
(* socket is open and has spoken lately.                                   *)
Show ==
    /\ ~visible
    /\ visible' = TRUE
    /\ IF ~open \/ silence > ShowAfter
       THEN Connect /\ backoff' = MinBackoff
       ELSE UNCHANGED <<ws, sock, alive, open, backoff, retry, silence>>
    /\ UNCHANGED <<watch, net>>

Hide ==
    /\ visible
    /\ visible' = FALSE
    /\ UNCHANGED <<ws, sock, alive, page, net>>

-----------------------------------------------------------------------------
(* The server or the way to it fails, which no open socket notices by      *)
(* itself, or is there again, for new sockets.                             *)
Net ==
    /\ net' = ~net
    /\ alive' = IF net THEN {} ELSE alive
    /\ UNCHANGED <<ws, sock, page, visible>>

Less(t) == IF t = Never \/ t = 0 THEN t ELSE t - 1

(* Timers of a visible page are never late, and a server that is there     *)
(* answers a handshake and sends its status frames promptly.               *)
Tick ==
    /\ visible => retry # 0 /\ watch # 0
    /\ visible /\ ws \in alive => silence < Prompt
    /\ retry' = Less(retry)
    /\ watch' = Less(watch)
    /\ silence' = IF silence < Deaf THEN silence + 1 ELSE Deaf
    /\ UNCHANGED <<ws, sock, alive, open, backoff, visible, net>>

Next ==
    \/ \E s \in Sockets : OnOpen(s) \/ OnMessage(s) \/ OnClose(s)
    \/ Retry \/ Watch \/ Show \/ Hide \/ Net \/ Tick

(* Time passes, timers fire, a reachable server's answers arrive, and the   *)
(* browser finishes every close() that was asked of it.                     *)
Fairness ==
    /\ WF_vars(Tick) /\ WF_vars(Retry) /\ WF_vars(Watch)
    /\ \A s \in Sockets : /\ WF_vars(OnOpen(s)) /\ WF_vars(OnMessage(s))
                        /\ WF_vars(OnClose(s) /\ sock[s].state = "closing")

Spec == Init /\ [][Next]_vars /\ Fairness
-----------------------------------------------------------------------------
Delays == 0 .. 2 * MaxBackoff

TypeOK ==
    /\ ws \in Sockets \cup {NoSocket}
    /\ sock \in [Sockets -> [state : {"unused", "connecting", "open", "closing"}, wired : BOOLEAN]]
    /\ alive \subseteq Sockets
    /\ open \in BOOLEAN
    /\ backoff \in MinBackoff .. MaxBackoff
    /\ retry \in Delays \cup {Never}
    /\ silence \in 0 .. Deaf
    /\ watch \in 0 .. WatchEvery
    /\ visible \in BOOLEAN /\ net \in BOOLEAN

(* Never two sockets at once feed packets to the page, whichever of the    *)
(* timer, the watchdog and visibilitychange made the newer one.            *)
OneVoice == \A s \in Sockets : Wired(s) <=> ws = s

(* The page always has a socket or a timer that will make one, and never   *)
(* both: no order of events strands it or starts two connections.          *)
SocketOrTimer == ws = NoSocket <=> retry # Never

(* The page says connected exactly while its socket has opened and has not *)
(* been given up.                                                          *)
OpenIsHonest == open <=> ws # NoSocket /\ sock[ws].state = "open"

(* A visible page never sits on a silent socket, open or connecting,       *)
(* longer than the watchdog's limit and one look (socket.js:1-3).          *)
SilenceBounded == visible /\ ws # NoSocket => silence <= Watchdog + WatchEvery

(* While the page is visible, the socket's silence leaves room for the next *)
(* look of the watchdog: why SilenceBounded holds.                          *)
Patience == visible /\ ws # NoSocket => silence + watch <= Watchdog + WatchEvery

(* Once the server stays reachable and the page visible, the page connects *)
(* and stays connected.                                                    *)
Reconnects == <>[](net /\ visible) => <>[]open
=============================================================================
