---------------------------- MODULE UpdateBroker ----------------------------
(***************************************************************************)
(* How a page learns that the jobs have changed: the manager's one-place   *)
(* channel, the listener that publishes each signal (pubsub), the broker's *)
(* list of subscribers, and the channel of one place behind each server-   *)
(* sent-events connection (web/server.go).                                 *)
(*                                                                         *)
(* The list is a Go slice.  publish takes a copy of the slice header under *)
(* the lock and walks it without; subscribe and unsubscribe change the     *)
(* array under it in place or move to a larger one.  The arrays are        *)
(* therefore part of the state, cells beyond the length included.  Each    *)
(* time a round of publish's loop reads subs[i] anew is a step of its own: *)
(* the check of the count, the send, the reset or the increment, and the   *)
(* unsubscribe of a stale subscriber.  A subscribe between them leaves the *)
(* cell in place or behind in an array nobody else uses; the unsubscribe   *)
(* of a shutdown hook may put another subscriber into it.                  *)
(***************************************************************************)
EXTENDS Integers, Sequences

CONSTANTS
    MaxClients,    \* bound: connections opened in one life of the process
    FailLimit      \* failed sends that are forgiven (3 in the code)

ASSUME ClientsAssumption == MaxClients \in Nat
ASSUME LimitAssumption == FailLimit \in Nat

\* The connections, numbered as they open; a page that comes back opens another.
Clients == 1..MaxClients

Cells == [client : Clients, fails : Nat]

VARIABLES
    updated,     \* the manager's channel holds a signal
    arrays,      \* the backing arrays there have been, each 2 times the last
    subs,        \* broker.subscribers[topic]: the array in use and the length
    pub,         \* the listener's goroutine: where it is, and its slice header
    out,         \* what the channel of each connection holds
    client,      \* the page behind each connection
    hook,        \* the shutdown hook of each connection
    down,        \* the shutdown hooks have been fired
    owed,        \* pages that have not fetched the rows since the last change
    passedOver,  \* subscribers the last publish ended in front of, or dropped
    rejected     \* sends that found a connection's channel full, up to the limit

vars == <<updated, arrays, subs, pub, out, client, hook, down, owed, passedOver,
          rejected>>

\* The places of publish within a round, named for what it does next.
Round == {"checking", "sending", "resetting", "counting", "dropping"}

Types ==
    /\ updated \in BOOLEAN
    /\ arrays \in Seq(Seq(Cells))
    /\ subs \in [array : 0..Len(arrays), len : Nat]
    /\ pub \in [pc : {"idle", "woken"} \cup Round, i : Nat, array : 0..Len(arrays), len : Nat]
    /\ out \in [Clients -> {"empty", "update", "close"}]
    /\ client \in [Clients -> {"away", "connected", "gone"}]
    /\ hook \in [Clients -> {"none", "registered", "fired", "unsubscribed", "done"}]
    /\ down \in BOOLEAN
    /\ owed \subseteq Clients
    /\ passedOver \subseteq Clients
    /\ rejected \in [Clients -> 0..(FailLimit + 1)]

\* Until the shutdown a count goes one past the limit and no further.
CountsBounded ==
    ~down => \A a \in 1..Len(arrays) : \A k \in 1..Len(arrays[a]) :
                 arrays[a][k].fails <= FailLimit + 1

TypeOK == Types /\ CountsBounded

Idle == [pc |-> "idle", i |-> 0, array |-> 0, len |-> 0]

Init ==
    /\ updated = FALSE
    /\ arrays = <<>>
    /\ subs = [array |-> 0, len |-> 0]
    /\ pub = Idle
    /\ out = [c \in Clients |-> "empty"]
    /\ client = [c \in Clients |-> "away"]
    /\ hook = [c \in Clients |-> "none"]
    /\ down = FALSE
    /\ owed = {}
    /\ passedOver = {}
    /\ rejected = [c \in Clients |-> 0]

-----------------------------------------------------------------------------
(* The slice of subscribers. *)

\* append doubles a full array of so few elements, starting with one.
Capacity(a) == IF a = 0 THEN 0 ELSE 2^(a - 1)

\* The cells of a slice header s.
CellsOf(s) == IF s.array = 0 THEN <<>> ELSE SubSeq(arrays[s.array], 1, s.len)

Subscribed == {CellsOf(subs)[i].client : i \in 1..subs.len}

\* append: into the array, over whatever lies behind the length, if there is
\* room, and into a copy otherwise.
AppendCell(cell) ==
    IF subs.len < Capacity(subs.array)
      THEN /\ arrays' = [arrays EXCEPT ![subs.array] =
                           CellsOf(subs) \o <<cell>> \o SubSeq(@, subs.len + 2, Len(@))]
           /\ subs' = [subs EXCEPT !.len = @ + 1]
      ELSE /\ arrays' = Append(arrays, CellsOf(subs) \o <<cell>>)
           /\ subs' = [array |-> Len(arrays) + 1, len |-> subs.len + 1]

\* Faulty: the length shrinks and nothing moves up.
MutShiftNothing(a, i, n) == a

\* append(chSubs[:i], chSubs[i+1:]...): the cells behind the i-th move up one
\* place, in the array itself; the last of the n stays behind as well.
ShiftOut(a, i, n) == [k \in DOMAIN a |-> IF k \in i..(n - 1) THEN a[k + 1] ELSE a[k]]

\* unsubscribe: nothing happens to a list that does not hold c.
Unsubscribe(c) ==
    IF c \notin Subscribed THEN UNCHANGED <<arrays, subs>>
      ELSE \E i \in 1..subs.len :
             /\ CellsOf(subs)[i].client = c
             /\ \A k \in 1..(i - 1) : CellsOf(subs)[k].client # c
             /\ arrays' = [arrays EXCEPT ![subs.array] = ShiftOut(@, i, subs.len)]
             /\ subs' = [subs EXCEPT !.len = @ - 1]

-----------------------------------------------------------------------------
(* The manager and the pages. *)

\* An operation or the results processor changes the tables and signals;
\* whoever is subscribed should see it.
Change ==
    /\ updated' = TRUE
    /\ owed' = owed \cup Subscribed
    /\ UNCHANGED <<arrays, subs, pub, out, client, hook, down, passedOver, rejected>>

\* A page opens its event stream: SubscribeToUpdates and the hook.
Connect(c) ==
    /\ client[c] = "away"
    /\ \A d \in 1..(c - 1) : client[d] # "away"
    /\ client' = [client EXCEPT ![c] = "connected"]
    /\ AppendCell([client |-> c, fails |-> 0])
    /\ hook' = [hook EXCEPT ![c] = "registered"]
    /\ UNCHANGED <<updated, pub, out, down, owed, passedOver, rejected>>

\* The server writes a message to the connection, and the page fetches the rows.
Fetch(c) ==
    /\ client[c] = "connected"
    /\ out[c] = "update"
    /\ out' = [out EXCEPT ![c] = "empty"]
    /\ owed' = owed \ {c}
    /\ UNCHANGED <<updated, arrays, subs, pub, client, hook, down, passedOver,
                   rejected>>

\* The page is closed: nobody reads its channel any more, and the broker is not
\* told.
Leave(c) ==
    /\ client[c] = "connected"
    /\ client' = [client EXCEPT ![c] = "gone"]
    /\ UNCHANGED <<updated, arrays, subs, pub, out, hook, down, owed, passedOver,
                   rejected>>

-----------------------------------------------------------------------------
(* The listener: takes a signal, then publishes. *)

TakeUpdate ==
    /\ pub.pc = "idle"
    /\ updated
    /\ updated' = FALSE
    /\ pub' = [pub EXCEPT !.pc = "woken"]
    /\ UNCHANGED <<arrays, subs, out, client, hook, down, owed, passedOver, rejected>>

\* Faulty: the last subscriber is left out.
MutPastEnd(i, n) == i >= n

\* The condition of the loop is false.
PastEnd(i, n) == i > n

GoTo(i) == IF PastEnd(i, pub.len) THEN Idle ELSE [pub EXCEPT !.pc = "checking", !.i = i]

\* publish copies the slice header under the read lock.
Snapshot ==
    /\ pub.pc = "woken"
    /\ pub' = IF PastEnd(1, subs.len) THEN Idle
                ELSE [pc |-> "checking", i |-> 1, array |-> subs.array,
                      len |-> subs.len]
    /\ UNCHANGED <<updated, arrays, subs, out, client, hook, down, owed,
                   passedOver, rejected>>

Walking == pub.pc \in Round

\* The cell publish is at, read from the array as it is now.
Cell == arrays[pub.array][pub.i]

\* The first cell that has yet to be sent to, or passed over.
FirstAhead == IF pub.pc \in {"resetting", "counting"} THEN pub.i + 1 ELSE pub.i

\* The clients that this publish has yet to visit.
Ahead == IF Walking THEN {arrays[pub.array][k].client : k \in FirstAhead..pub.len} ELSE {}

\* The count is written to the cell of the array publish walks.
Count(n) == arrays' = [arrays EXCEPT ![pub.array][pub.i].fails = n]

\* Faulty: one failure fewer is forgiven; nobody is ever dropped.
MutTooManyFails(cell) == cell.fails >= FailLimit
MutNeverStale(cell) == FALSE

TooManyFails(cell) == cell.fails > FailLimit

\* The condition that a subscriber is stale.
Check ==
    /\ pub.pc = "checking"
    /\ pub' = [pub EXCEPT !.pc = IF TooManyFails(Cell) THEN "dropping" ELSE "sending"]
    /\ UNCHANGED <<updated, arrays, subs, out, client, hook, down, owed, passedOver,
                   rejected>>

\* Faulty: there is no default, the send waits for room.
MutNoDefault == FALSE

\* The send would block: the default of the select.
Full == out[Cell.client] # "empty"

\* The select: the message goes into the channel of the cell, or is given up.
Send ==
    /\ pub.pc = "sending"
    /\ \/ /\ out[Cell.client] = "empty"
          /\ out' = [out EXCEPT ![Cell.client] = "update"]
          /\ pub' = [pub EXCEPT !.pc = "resetting"]
          /\ UNCHANGED rejected
       \/ /\ Full
          /\ rejected' = [rejected EXCEPT ![Cell.client] = IF @ > FailLimit THEN @ ELSE @ + 1]
          /\ pub' = [pub EXCEPT !.pc = "counting"]
          /\ UNCHANGED out
    /\ passedOver' = passedOver \ {Cell.client}
    /\ UNCHANGED <<updated, arrays, subs, client, hook, down, owed>>

\* The send went through.
Reset ==
    /\ pub.pc = "resetting"
    /\ Count(0)
    /\ pub' = GoTo(pub.i + 1)
    /\ UNCHANGED <<updated, subs, out, client, hook, down, owed, passedOver, rejected>>

\* It did not.
CountFail ==
    /\ pub.pc = "counting"
    /\ Count(Cell.fails + 1)
    /\ pub' = GoTo(pub.i + 1)
    /\ UNCHANGED <<updated, subs, out, client, hook, down, owed, passedOver, rejected>>

\* Whoever is in the cell by now is dropped, which ends this publish.  Nobody
\* tells it.  A hook's unsubscribe between this read and the lock leaves the same
\* list as one behind the drop.
DropStale ==
    /\ pub.pc = "dropping"
    /\ Unsubscribe(Cell.client)
    /\ passedOver' = passedOver \cup Ahead
    /\ pub' = Idle
    /\ UNCHANGED <<updated, out, client, hook, down, owed, rejected>>

-----------------------------------------------------------------------------
(* Shutdown: the hooks that are registered by then run concurrently. *)

FireHooks ==
    /\ ~down
    /\ down' = TRUE
    /\ hook' = [c \in Clients |-> IF hook[c] = "registered" THEN "fired" ELSE hook[c]]
    /\ UNCHANGED <<updated, arrays, subs, pub, out, client, owed, passedOver, rejected>>

HookUnsubscribe(c) ==
    /\ hook[c] = "fired"
    /\ Unsubscribe(c)
    /\ hook' = [hook EXCEPT ![c] = "unsubscribed"]
    /\ UNCHANGED <<updated, pub, out, client, down, owed, passedOver, rejected>>

\* The close signal is not sent to a full channel.
HookClose(c) ==
    /\ hook[c] = "unsubscribed"
    /\ out' = IF out[c] = "empty" THEN [out EXCEPT ![c] = "close"] ELSE out
    /\ hook' = [hook EXCEPT ![c] = "done"]
    /\ UNCHANGED <<updated, arrays, subs, pub, client, down, owed, passedOver, rejected>>

-----------------------------------------------------------------------------

Publish == Snapshot \/ Check \/ Send \/ Reset \/ CountFail \/ DropStale

Next ==
    \/ Change
    \/ \E c \in Clients : Connect(c) \/ Fetch(c) \/ Leave(c)
    \/ TakeUpdate
    \/ Publish
    \/ FireHooks
    \/ \E c \in Clients : HookUnsubscribe(c) \/ HookClose(c)

\* The listener's goroutine and the server's writers run; nothing is assumed of
\* the manager, of pages coming and going, or of a shutdown.
Spec ==
    /\ Init
    /\ [][Next]_vars
    /\ WF_vars(TakeUpdate \/ Publish)
    /\ \A c \in Clients : WF_vars(Fetch(c))

-----------------------------------------------------------------------------

\* Signals may be merged in the manager's channel and in a connection's, but
\* no change is lost: until the shutdown, a page that is owed the rows has a
\* signal, a publish or a message still ahead of it, unless a publish that
\* dropped a subscriber passed it over.
NewsOnTheWay ==
    ~down => \A c \in owed :
        \/ updated
        \/ pub.pc = "woken"
        \/ c \in Ahead
        \/ out[c] = "update"
        \/ c \in passedOver

\* And it arrives: one page that has gone away with a full channel never keeps
\* the others waiting.
Served ==
    \A c \in Clients : c \in owed ~>
        c \notin owed \/ client[c] = "gone" \/ c \in passedOver \/ down

\* Subscribers that were unsubscribed and not by their own hook.
Dropped == {c \in Clients : hook[c] \in {"registered", "fired"} /\ c \notin Subscribed}

\* Until the shutdown nobody is dropped before more than FailLimit sends in all
\* have found its channel full, although subscribe may copy a count while publish
\* changes it.  (In all, not in a row: a copy may also lose a reset.)
DropNeedsFailures == ~down => \A c \in Dropped : rejected[c] > FailLimit

\* A subscription ends by its own hook or because publish found it stale: removing
\* one cell of the shared array never takes another subscriber off the list.  Once
\* the hooks run, publish may drop the one that was moved into a stale cell between
\* the check and the drop.
OnlyOwnExit ==
    [][\A c \in Subscribed \ Subscribed' :
         \/ HookUnsubscribe(c)
         \/ DropStale /\ Cell.client = c /\ (TooManyFails(Cell) \/ down)]_vars

=============================================================================
