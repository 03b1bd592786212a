--------------------------- MODULE SidecarTerminal --------------------------
(***************************************************************************)
(* One terminal of the PTY sidecar: the front end in the application       *)
(* (pty.ts, sidecar/client.ts), the server in its own process              *)
(* (sidecar/server.ts) and the ring buffer of its output (ring-buffer.ts). *)
(*                                                                         *)
(* Requests, replies and notifications share one control connection and    *)
(* keep their order; each attachment is a connection of its own.           *)
(***************************************************************************)
EXTENDS Integers, Sequences, FiniteSetsExt

CONSTANTS
    Calls,      \* calls of createSession, reconnectSession and killSession
    Capacity,   \* of the ring buffer, in units of output
    MaxOutput,  \* bound: units of output the process writes
    None
ASSUME SidecarAssumption ==
    /\ Capacity \in Nat \ {0} /\ MaxOutput \in Nat
    /\ None \notin Calls

VARIABLES
    proc,     \* the terminal's process: "none", "up", "killed", "gone"
    up,       \* the sidecar's process
    listed,   \* the session is in the server's map, its data server listens
    ring,     \* [buf, head, filled]
    total,    \* units written so far; unit n is the n-th
    queue,    \* reconnectQueue: the units in it, or None
    client,   \* dataClient
    attached, \* hasAttachedClient
    seen,     \* the units the server wrote to the connection it took up last
    backlog,  \* connections the server has not taken up yet
    hungup,   \* connections the front end destroyed, unknown to the server
    ctl, rsp, \* the control connection: requests, replies and notifications
    call,     \* the front end's calls
    joining,  \* connections made, their callers not resumed yet
    sock,     \* dataSockets' entry
    ids,      \* the session is in sidecarSessionIds
    reported, \* listeners were told of the session's exit
    latest,   \* history: the last reconnect the server carried out
    lost      \* history: the notification of an exit was lost on its way

streamVars == <<ring, total>>
serverVars == <<listed, queue, client, attached>>
linkVars == <<seen, backlog, hungup>>
frontVars == <<call, joining, sock, ids, reported>>
history == <<latest, lost>>
vars == <<proc, up, streamVars, serverVars, linkVars, ctl, rsp, frontVars, history>>

Ops == {"create", "reconnect", "kill"}
Idle == [op |-> "none", at |-> "idle"]
\* "refused": the server said no; "given_up": the caller was told it failed
Stages == {"idle", "asked", "linking", "joining", "done", "refused", "given_up"}
Replies == [op : Ops, k : Calls, ok : BOOLEAN]
              \cup [op : {"exited"}, k : {None}, ok : {TRUE}]

SidecarTypeOK ==
    /\ proc \in {"none", "up", "killed", "gone"} /\ up \in BOOLEAN
    /\ DOMAIN ring.buf = 0 .. Capacity - 1
    /\ ring.head \in 0 .. Capacity - 1 /\ ring.filled \in 0 .. Capacity
    /\ total \in 0 .. MaxOutput
    /\ listed \in BOOLEAN /\ attached \in BOOLEAN
    /\ queue \in (SUBSET (1 .. MaxOutput)) \cup {{None}}
    /\ client \in Calls \cup {None} /\ sock \in Calls \cup {None}
    /\ seen \in SUBSET (1 .. MaxOutput)
    /\ backlog \in Seq(Calls) /\ joining \in Seq(Calls) /\ hungup \in SUBSET Calls
    /\ ctl \in Seq([op : Ops, k : Calls]) /\ rsp \in Seq(Replies)
    /\ call \in [Calls -> [op : Ops \cup {"none"}, at : Stages]]
    /\ ids \in BOOLEAN /\ reported \in BOOLEAN
    /\ latest \in Calls \cup {None} /\ lost \in BOOLEAN

NotQueuing == {None}
Init ==
    /\ proc = "none" /\ up = TRUE /\ listed = FALSE
    /\ ring = [buf |-> [i \in 0 .. Capacity - 1 |-> 0], head |-> 0, filled |-> 0]
    /\ total = 0 /\ queue = NotQueuing
    /\ client = None /\ attached = FALSE
    /\ seen = {} /\ backlog = <<>> /\ hungup = {}
    /\ ctl = <<>> /\ rsp = <<>>
    /\ call = [k \in Calls |-> Idle] /\ joining = <<>> /\ sock = None
    /\ ids = FALSE /\ reported = FALSE
    /\ latest = None /\ lost = FALSE

-----------------------------------------------------------------------------
(* The ring buffer: a chunk of the units first .. first + len - 1.         *)

WrittenUnsplit(r, first, len) ==
    IF len >= Capacity
    THEN [buf |-> [i \in 0 .. Capacity - 1 |-> first + len - Capacity + i],
          head |-> 0, filled |-> Capacity]
    ELSE [buf |-> [i \in 0 .. Capacity - 1 |->
                     IF i - r.head \in 0 .. len - 1 THEN first + i - r.head ELSE r.buf[i]],
          head |-> (r.head + len) % Capacity,
          filled |-> Min({r.filled + len, Capacity})]
Written(r, first, len) ==
    IF len >= Capacity
    THEN [buf |-> [i \in 0 .. Capacity - 1 |-> first + len - Capacity + i],
          head |-> 0, filled |-> Capacity]
    ELSE [buf |-> [i \in 0 .. Capacity - 1 |->
                     LET back == (i - r.head) % Capacity IN
                     IF back < len THEN first + back ELSE r.buf[i]],
          head |-> (r.head + len) % Capacity,
          filled |-> Min({r.filled + len, Capacity})]

Snapshot(r) ==
    IF r.filled < Capacity
    THEN [i \in 1 .. r.filled |-> r.buf[i - 1]]
    ELSE [i \in 1 .. Capacity |-> r.buf[(r.head + i - 1) % Capacity]]

Units(s) == {s[i] : i \in DOMAIN s}

-----------------------------------------------------------------------------
(* The terminal's process. *)

(* onData: the ring first, then the queue of a reconnect or the client.    *)
Output(len) ==
    LET chunk == total + 1 .. total + len IN
    /\ up /\ proc \in {"up", "killed"} /\ total + len <= MaxOutput
    /\ ring' = Written(ring, total + 1, len)
    /\ total' = total + len
    /\ IF queue # NotQueuing
       THEN queue' = queue \cup chunk /\ UNCHANGED seen
       ELSE /\ UNCHANGED queue
            /\ seen' = IF client # None THEN seen \cup chunk ELSE seen
    /\ UNCHANGED <<proc, up, listed, client, attached, backlog, hungup, ctl, rsp, frontVars, history>>

(* onExit: every control client is told, then the session is cleaned up.   *)
Exits ==
    /\ up /\ proc \in {"up", "killed"}
    /\ proc' = "gone"
    /\ rsp' = Append(rsp, [op |-> "exited", k |-> None, ok |-> TRUE])
    /\ listed' = FALSE /\ client' = None
    /\ UNCHANGED <<up, streamVars, queue, attached, linkVars, ctl, frontVars, history>>

-----------------------------------------------------------------------------
(* The server. *)

Reply(m, ok) == rsp' = Append(rsp, [op |-> m.op, k |-> m.k, ok |-> ok])

HandleCreate ==
    /\ up /\ ctl # <<>> /\ Head(ctl).op = "create"
    /\ ctl' = Tail(ctl)
    /\ \/ /\ proc' = "up" /\ listed' = TRUE /\ Reply(Head(ctl), TRUE)
       \/ /\ UNCHANGED <<proc, listed>> /\ Reply(Head(ctl), FALSE)
    /\ UNCHANGED <<up, streamVars, queue, client, attached, linkVars, frontVars, history>>

(* The queue is opened before the resize and dropped again when that throws*)
HandleReconnect ==
    /\ up /\ ctl # <<>> /\ Head(ctl).op = "reconnect"
    /\ ctl' = Tail(ctl)
    /\ \/ /\ ~listed /\ Reply(Head(ctl), FALSE) /\ UNCHANGED <<queue, client, latest>>
       \/ /\ listed /\ Reply(Head(ctl), FALSE)
          /\ queue' = NotQueuing /\ UNCHANGED <<client, latest>>
       \/ /\ listed /\ Reply(Head(ctl), TRUE)
          /\ queue' = {} /\ client' = None /\ latest' = Head(ctl).k
    /\ UNCHANGED <<proc, up, listed, attached, streamVars, linkVars, frontVars, lost>>

HandleKill ==
    /\ up /\ ctl # <<>> /\ Head(ctl).op = "kill"
    /\ ctl' = Tail(ctl) /\ Reply(Head(ctl), TRUE)
    /\ IF listed THEN proc' = "killed" /\ listed' = FALSE /\ client' = None
                 ELSE UNCHANGED <<proc, listed, client>>
    /\ UNCHANGED <<up, queue, attached, streamVars, linkVars, frontVars, history>>

(* A connection: the last one wins; the scrollback goes to the one that    *)
(* follows a reconnect and to the first.                                   *)
AcceptQueueKept ==
    LET k == Head(backlog) IN
    /\ up /\ backlog # <<>>
    /\ backlog' = Tail(backlog)
    /\ listed /\ client' = k /\ attached' = TRUE
    /\ seen' = IF queue # NotQueuing THEN Units(Snapshot(ring)) \cup queue
           ELSE IF ~attached THEN Units(Snapshot(ring)) ELSE {}
    /\ UNCHANGED <<proc, up, listed, queue, streamVars, hungup, ctl, rsp, frontVars, history>>
AcceptQueueOnly ==
    LET k == Head(backlog) IN
    /\ up /\ backlog # <<>>
    /\ backlog' = Tail(backlog)
    /\ listed /\ client' = k /\ attached' = TRUE /\ queue' = NotQueuing
    /\ seen' = IF queue # NotQueuing THEN queue
           ELSE IF ~attached THEN Units(Snapshot(ring)) ELSE {}
    /\ UNCHANGED <<proc, up, listed, streamVars, hungup, ctl, rsp, frontVars, history>>
Accept ==
    LET k == Head(backlog) IN
    /\ up /\ backlog # <<>>
    /\ backlog' = Tail(backlog)
    /\ IF listed
       THEN /\ client' = k /\ attached' = TRUE /\ queue' = NotQueuing
            /\ seen' = IF queue # NotQueuing THEN Units(Snapshot(ring)) \cup queue
                   ELSE IF ~attached THEN Units(Snapshot(ring)) ELSE {}
       ELSE UNCHANGED <<client, attached, queue, seen>>
    /\ UNCHANGED <<proc, up, listed, streamVars, hungup, ctl, rsp, frontVars, history>>

HangupAnyClient(k) ==
    /\ up /\ k \in hungup /\ k \notin Units(backlog)
    /\ hungup' = hungup \ {k}
    /\ client' = None
    /\ UNCHANGED <<proc, up, listed, queue, attached, streamVars, seen, backlog, ctl, rsp, frontVars, history>>
Hangup(k) ==
    /\ up /\ k \in hungup /\ k \notin Units(backlog)
    /\ hungup' = hungup \ {k}
    /\ client' = IF client = k THEN None ELSE client
    /\ UNCHANGED <<proc, up, listed, queue, attached, streamVars, seen, backlog, ctl, rsp, frontVars, history>>

-----------------------------------------------------------------------------
(* The front end. *)

Asked(k, op) ==
    /\ up /\ call[k] = Idle
    /\ call' = [call EXCEPT ![k] = [op |-> op, at |-> "asked"]]
    /\ ctl' = Append(ctl, [op |-> op, k |-> k])

CreateSession(k) ==
    /\ \A j \in Calls : call[j] = Idle
    /\ Asked(k, "create")
    /\ UNCHANGED <<proc, up, streamVars, serverVars, linkVars, rsp, joining, sock, ids, reported, history>>

Known == \E k \in Calls : call[k] = [op |-> "create", at |-> "done"]

ReconnectSession(k) ==
    /\ Known /\ Asked(k, "reconnect")
    /\ UNCHANGED <<proc, up, streamVars, serverVars, linkVars, rsp, joining, sock, ids, reported, history>>

Destroyed == IF sock = None THEN hungup ELSE hungup \cup {sock}

KillSession(k) ==
    /\ Known /\ Asked(k, "kill")
    /\ sock' = None /\ hungup' = Destroyed
    /\ UNCHANGED <<proc, up, streamVars, serverVars, seen, backlog, rsp, joining, ids, reported, history>>

(* The next message of the control connection; an answer that nobody waits *)
(* for any more is dropped.                                                *)
Replied ==
    LET m == Head(rsp)
        waits == m.op # "exited" /\ call[m.k].at = "asked"
        at(phase) == call' = [call EXCEPT ![m.k].at = phase] IN
    /\ rsp # <<>>
    /\ rsp' = Tail(rsp)
    /\ \/ /\ m.op # "exited" /\ ~waits
          /\ UNCHANGED <<call, sock, hungup, ids, reported>>
       \/ /\ waits /\ m.op \in {"create", "reconnect"}
          /\ at(IF m.ok THEN "linking" ELSE "refused")
          /\ UNCHANGED <<sock, hungup, ids, reported>>
       \/ /\ waits /\ m.op = "kill" /\ at("done")
          /\ ids' = FALSE /\ reported' = TRUE /\ UNCHANGED <<sock, hungup>>
       \/ /\ m.op = "exited" /\ UNCHANGED call
          /\ ids' = FALSE /\ reported' = TRUE /\ sock' = None /\ hungup' = Destroyed
    /\ UNCHANGED <<proc, up, streamVars, serverVars, seen, backlog, ctl, joining, history>>

(* The callers of S are told that their calls failed; a kill forgets the   *)
(* session all the same.                                                   *)
GivenUp(S) ==
    /\ call' = [k \in Calls |-> IF k \in S THEN [call[k] EXCEPT !.at = "given_up"] ELSE call[k]]
    /\ ids' = (ids /\ \A k \in S : call[k].op # "kill")

(* Ten seconds without an answer; the request stays on its way.            *)
TimedOut(k) ==
    /\ up /\ call[k].at = "asked"
    /\ GivenUp({k})
    /\ UNCHANGED <<proc, up, streamVars, serverVars, linkVars, ctl, rsp, joining, sock, reported, history>>

(* A ping that fails: every pending call is rejected and another control  *)
(* connection made.  What the server had written to the old one is lost,   *)
(* and any end of the requests it had not read.                            *)
Renewed ==
    /\ up
    /\ GivenUp({k \in Calls : call[k].at = "asked"})
    /\ \E n \in 0 .. Len(ctl) : ctl' = SubSeq(ctl, 1, n)
    /\ rsp' = <<>>
    /\ lost' = (lost \/ \E i \in DOMAIN rsp : rsp[i].op = "exited")
    /\ UNCHANGED <<proc, up, streamVars, serverVars, linkVars, joining, sock, reported, latest>>

(* The data connection is made while the data server listens, if nothing  *)
(* goes wrong.  The event loop may take up other messages before it resumes*)
(* the caller.                                                             *)
Connected(k) ==
    /\ up /\ call[k].at = "linking"
    /\ \/ /\ listed /\ call' = [call EXCEPT ![k].at = "joining"]
          /\ backlog' = Append(backlog, k) /\ joining' = Append(joining, k)
       \/ /\ call' = [call EXCEPT ![k].at = "given_up"]
          /\ UNCHANGED <<backlog, joining>>
    /\ UNCHANGED <<proc, up, streamVars, serverVars, seen, hungup, ctl, rsp, sock, ids, reported, history>>

(* The connection replaces the one the front end had, and the session is   *)
(* recorded, without a look at what was reported meanwhile.                *)
Linked ==
    /\ joining # <<>>
    /\ joining' = Tail(joining)
    /\ call' = [call EXCEPT ![Head(joining)].at = "done"]
    /\ sock' = Head(joining) /\ hungup' = Destroyed /\ ids' = TRUE
    /\ UNCHANGED <<proc, up, streamVars, serverVars, seen, backlog, ctl, rsp, reported, history>>

(* The sidecar dies, its terminals with it: pending calls are rejected, a  *)
(* kill forgets the session, nobody reports an exit.                       *)
Crash ==
    /\ up /\ up' = FALSE
    /\ proc' = IF proc = "none" THEN "none" ELSE "gone"
    /\ listed' = FALSE /\ client' = None
    /\ ctl' = <<>> /\ rsp' = <<>> /\ backlog' = <<>>
    /\ GivenUp({k \in Calls : call[k].at \in {"asked", "linking"}})
    /\ UNCHANGED <<queue, attached, streamVars, seen, hungup, joining, sock, reported, history>>

-----------------------------------------------------------------------------
Server ==
    \/ HandleCreate \/ HandleReconnect \/ HandleKill \/ Accept
    \/ \E k \in Calls : Hangup(k)
Front ==
    \/ \E k \in Calls : CreateSession(k) \/ ReconnectSession(k) \/ KillSession(k)
                        \/ TimedOut(k) \/ Connected(k)
    \/ Linked \/ Replied \/ Renewed
Next ==
    \/ \E len \in 1 .. MaxOutput : Output(len)
    \/ Exits \/ Server \/ Front \/ Crash
Spec == Init /\ [][Next]_vars

-----------------------------------------------------------------------------
(* Properties. *)

(* Whatever the sizes of the chunks and wherever the head has wrapped, the *)
(* snapshot is the end of the output, in order.                            *)
RingHoldsTail ==
    Snapshot(ring) = LET n == Min({total, Capacity}) IN [i \in 1 .. n |-> total - n + i]

(* The server's current client, through reconnects that overlap, clients   *)
(* that replace one another and output that comes in between, has every    *)
(* unit from the first it was sent to the latest.                          *)
ClientGapless ==
    client # None => \E first \in 1 .. total + 1 : seen = first .. total

(* The connection that follows a reconnect, and the first one, bring the   *)
(* whole scrollback the server still has.                                  *)
ScrollbackReplayed ==
    [][client' # client /\ client' # None /\ (queue # NotQueuing \/ ~attached) =>
         {n \in 1 .. total : n > total - Capacity} \subseteq seen']_vars

Quiet ==
    /\ ctl = <<>> /\ rsp = <<>> /\ backlog = <<>> /\ hungup = {}
    /\ \A k \in Calls : call[k].at \in {"idle", "done", "refused", "given_up"}

(* However creates, reconnects, kills, timeouts and a new control          *)
(* connection overlapped, once they are over the front end types into the  *)
(* connection the server reads; or the server has none, because the caller *)
(* of the last reconnect it carried out was told that it failed.  And an   *)
(* end of the terminal was reported, unless its notification was lost with *)
(* a control connection.                                                   *)
EndsAgree ==
    Quiet /\ up =>
        /\ listed /\ ids =>
              \/ sock = client /\ sock # None
              \/ client = None /\ latest # None /\ call[latest].at = "given_up"
        /\ proc = "gone" => reported \/ lost
=============================================================================
