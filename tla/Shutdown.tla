------------------------------- MODULE Shutdown -------------------------------
(***************************************************************************)
(* The end of the server: main.go waits for a signal, which cancels the    *)
(* context of every request, has http.Server.Shutdown wait for the         *)
(* requests it tracks, and then waitClients for the WebSocket handlers,    *)
(* which it does not track once they have taken over their connections.    *)
(* Both waits share one limit of five seconds.                             *)
(***************************************************************************)
EXTENDS Naturals, FiniteSets

CONSTANTS
    Puts,    \* PUT requests
    Clients  \* WebSocket handlers, each with the peer it serves

ASSUME ClientsFinite == IsFiniteSet(Clients)

VARIABLES
    main,      \* what main() is doing
    stopped,   \* ctx is cancelled
    late,      \* shutCtx is cancelled
    put,       \* how far each PUT has come
    ws,        \* where in serveWS each handler is
    nclients,  \* h.nclients
    queued,    \* the clients with a frame in their channel
    there,     \* the clients whose peer is still there
    between    \* history: the handlers between Accept and add when waitClients looked last

vars == <<main, stopped, late, put, ws, nclients, queued, there, between>>

(* The handlers http.Server tracks, those in h.clients, and all of serveWS. *)
Tracked == {p \in Puts : put[p] = "handled"} \cup {c \in Clients : ws[c] = "accepting"}
Registered == {c \in Clients : ws[c] \in {"selecting", "writing", "closing", "closed", "removing"}}
Active == {c \in Clients : ws[c] \notin {"none", "gone"}}

Init ==
    /\ main = "serving" /\ stopped = FALSE /\ late = FALSE
    /\ put = [p \in Puts |-> "none"]
    /\ ws = [c \in Clients |-> "none"] /\ nclients = 0
    /\ queued = {} /\ there = Clients /\ between = {}

-----------------------------------------------------------------------------
(* SIGTERM. *)
Signal ==
    /\ stopped' = TRUE
    /\ UNCHANGED <<main, late, put, ws, nclients, queued, there, between>>

(* main() notices: no new connections from here on. *)
Begin ==
    /\ main = "serving" /\ stopped
    /\ main' = "shutting"
    /\ UNCHANGED <<stopped, late, put, ws, nclients, queued, there, between>>

(* Bug: Shutdown is told to give up at once. *)
IdleOrNot == TRUE

Idle == Tracked = {}

(* srv.Shutdown returns. *)
ShutdownReturns ==
    /\ main = "shutting"
    /\ Idle \/ late
    /\ main' = "waiting"
    /\ UNCHANGED <<stopped, late, put, ws, nclients, queued, there, between>>

(* Bug: the last client is not waited for. *)
NoneLeftButOne == nclients <= 1

NoneLeft == nclients = 0

(* Bug: waitClients has no limit. *)
WaitEndsEmpty == NoneLeft

WaitEnds == NoneLeft \/ late

(* waitClients returns: its last look at the counter, or at its context.   *)
(* A handler that has not added itself by then is not waited for.          *)
WaitReturns ==
    /\ main = "waiting"
    /\ WaitEnds
    /\ main' = "leaving"
    /\ between' = {c \in Clients : ws[c] = "greeting"}
    /\ UNCHANGED <<stopped, late, put, ws, nclients, queued, there>>

(* main() returns. *)
Exit ==
    /\ main = "leaving"
    /\ main' = "exited"
    /\ UNCHANGED <<stopped, late, put, ws, nclients, queued, there, between>>

(* The five seconds of shutCtx are over; after the waits nobody asks. *)
Expire ==
    /\ main \in {"shutting", "waiting"}
    /\ late' = TRUE
    /\ UNCHANGED <<main, stopped, put, ws, nclients, queued, there, between>>

-----------------------------------------------------------------------------
(* A request may still come in on a connection that was there before.      *)
Serving == main \in {"serving", "shutting"}

(* putStyle does not look at its context. *)
TakePut(p) ==
    /\ Serving /\ put[p] = "none"
    /\ put' = [put EXCEPT ![p] = "handled"]
    /\ UNCHANGED <<main, stopped, late, ws, nclients, queued, there, between>>

AnswerPut(p) ==
    /\ put[p] = "handled"
    /\ put' = [put EXCEPT ![p] = "answered"]
    /\ UNCHANGED <<main, stopped, late, ws, nclients, queued, there, between>>

At(c, from, to) == ws[c] = from /\ ws' = [ws EXCEPT ![c] = to]

TakeClient(c) ==
    /\ Serving /\ At(c, "none", "accepting")
    /\ UNCHANGED <<main, stopped, late, put, nclients, queued, there, between>>

(* websocket.Accept takes the connection over from the server, or refuses it. *)
Accept(c) ==
    /\ At(c, "accepting", "greeting") \/ At(c, "accepting", "gone")
    /\ UNCHANGED <<main, stopped, late, put, nclients, queued, there, between>>

(* The first frame, and h.add. *)
Add(c) ==
    /\ At(c, "greeting", "selecting")
    /\ nclients' = Cardinality(Registered')
    /\ queued' = queued \cup {c}
    /\ UNCHANGED <<main, stopped, late, put, there, between>>

(* A broadcast. *)
Enqueue(c) ==
    /\ c \in Registered
    /\ queued' = queued \cup {c}
    /\ UNCHANGED <<main, stopped, late, put, ws, nclients, there, between>>

(* The select: either case, if both are ready. *)
Take(c) ==
    /\ c \in queued /\ At(c, "selecting", "writing")
    /\ \E more \in BOOLEAN : queued' = IF more THEN queued ELSE queued \ {c}
    /\ UNCHANGED <<main, stopped, late, put, nclients, there, between>>

Done(c) ==
    /\ \/ stopped /\ At(c, "selecting", "closing")
       \/ ~stopped /\ c \notin there /\ At(c, "selecting", "removing")
    /\ UNCHANGED <<main, stopped, late, put, nclients, queued, there, between>>

(* conn.Write, which fails when its context is cancelled or its time is up. *)
Write(c) ==
    /\ \/ At(c, "writing", "selecting")
       \/ (stopped \/ c \notin there) /\ At(c, "writing", "removing")
    /\ UNCHANGED <<main, stopped, late, put, nclients, queued, there, between>>

(* conn.Close sends its frame, and waits for the peer's. *)
Close(c) ==
    /\ At(c, "closing", "closed")
    /\ UNCHANGED <<main, stopped, late, put, nclients, queued, there, between>>

Closed(c) ==
    /\ At(c, "closed", "removing")
    /\ UNCHANGED <<main, stopped, late, put, nclients, queued, there, between>>

Remove(c) ==
    /\ At(c, "removing", "gone")
    /\ nclients' = Cardinality(Registered')
    /\ UNCHANGED <<main, stopped, late, put, queued, there, between>>

Leave(c) ==
    /\ there' = there \ {c}
    /\ UNCHANGED <<main, stopped, late, put, ws, nclients, queued, between>>

-----------------------------------------------------------------------------
Main == Begin \/ ShutdownReturns \/ WaitReturns \/ Exit

Handlers ==
    \/ \E p \in Puts : TakePut(p) \/ AnswerPut(p)
    \/ \E c \in Clients : \/ TakeClient(c) \/ Accept(c) \/ Add(c) \/ Enqueue(c) \/ Take(c)
                          \/ Done(c) \/ Write(c) \/ Close(c) \/ Closed(c) \/ Remove(c)

(* With main() the process ends, and all that is in it. *)
Next == \/ main # "exited" /\ (Signal \/ Main \/ Expire \/ Handlers)
        \/ \E c \in Clients : Leave(c)

(* main() goes on when it can and the timer runs; a handler may hang. *)
Spec == Init /\ [][Next]_vars /\ WF_vars(main # "exited" /\ Main) /\ WF_vars(main # "exited" /\ Expire)
-----------------------------------------------------------------------------
TypeOK ==
    /\ main \in {"serving", "shutting", "waiting", "leaving", "exited"}
    /\ stopped \in BOOLEAN /\ late \in BOOLEAN
    /\ put \in [Puts -> {"none", "handled", "answered"}]
    /\ ws \in [Clients -> {"none", "accepting", "greeting", "selecting", "writing", "closing", "closed", "removing", "gone"}]
    /\ nclients \in 0 .. Cardinality(Clients)
    /\ queued \subseteq Clients /\ there \subseteq Clients /\ between \subseteq Clients

(* Unless the five seconds ran out, no accepted PUT is cut off: not before *)
(* its change is on disk and cast (main.go:99-105).                        *)
NoPutCutOff == main = "exited" /\ ~late => \A p \in Puts : put[p] # "handled"

(* Unless they ran out, every WebSocket handler has run to its end, counted *)
(* or still accepting when the signal came; only one that was between      *)
(* Accept and add when waitClients saw a count of 0 may be cut off, before *)
(* or after it adds itself (main.go:103-107, hub.go:214-219).              *)
NoClientCutOff == main = "exited" /\ ~late => Active \subseteq between

(* After the signal the process ends, even if a handler hangs.             *)
SignalEnds == stopped ~> main = "exited"
===============================================================================
