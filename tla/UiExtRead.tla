----------------------------- MODULE UiExtRead -----------------------------
(***************************************************************************)
(* A read of a UI extension, from the iframe to the provider and back      *)
(* (crates/mh-cli/src/ui_ext).                                             *)
(*                                                                         *)
(* The broker script of each open shell page (shell.rs) keeps the requests *)
(* it waits for by their id, and a count for each iframe.  Every request   *)
(* is one HTTP connection, served by a thread of its own within a number   *)
(* of slots (http.rs).  All threads share one provider channel behind a    *)
(* mutex (provider.rs): one request is written and one frame read, and     *)
(* after any failure the channel is never used again.                      *)
(*                                                                         *)
(* The provider is another program: it answers what it was asked once, at  *)
(* any time, in any order, or not at all, well or badly formed.  Ids are   *)
(* chosen by the iframes and come again.                                   *)
(***************************************************************************)
EXTENDS Naturals, Sequences, FiniteSets

CONSTANTS
    Pages,           \* the shell pages open in browsers
    Iframes,         \* the extension iframes on them
    PageOf,          \* the page of each iframe
    Ids,             \* request ids
    MaxRequests,     \* bound: the requests ever sent
    MaxConcurrent,   \* requests of one iframe at a time (8)
    MaxConnections,  \* connection slots of the server (64)
    None, Failure    \* nothing; a result that says ok: false

(* Requests are numbered in the order in which they are sent.               *)
Requests == 1..MaxRequests

ASSUME UiConstantsOK ==
    /\ PageOf \in [Iframes -> Pages]
    /\ MaxRequests \in Nat
    /\ MaxConcurrent \in Nat \ {0} /\ MaxConnections \in Nat \ {0}
    /\ None # Failure
    /\ {None, Failure} \cap (Nat \cup [frame : Iframes, id : Ids]) = {}

VARIABLES
    pending,  \* per page: the script's pending map, from ids to requests
    counts,   \* per iframe: the script's count
    req,      \* the iframe and the id of each request
    at,       \* how far its connection is
    reply,    \* what the connection answers: the provider's answer to which request
    got,      \* what the iframe was sent: such an answer, or Failure
    served,   \* requests whose connection thread is running
    active,   \* the counter behind the connection slots
    failed,   \* ProviderClient.failed
    asked,    \* requests the provider has received and not answered
    wire      \* its answers in the socket, oldest first

script == <<pending, counts, got>>
server == <<at, reply, served, active>>
channel == <<failed, asked, wire>>
vars == <<script, req, server, channel>>

Page(x) == PageOf[req[x].frame]

Waiting(x) == at[x] # "unused" /\ pending[Page(x)][req[x].id] = x

TypeOK ==
    /\ pending \in [Pages -> [Ids -> Requests \cup {None}]]
    /\ counts \in [Iframes -> Nat]
    /\ req \in [Requests -> [frame : Iframes, id : Ids] \cup {None}]
    /\ at \in [Requests -> {"unused", "sent", "queued", "asking", "answered", "failed"}]
    /\ reply \in [Requests -> Requests \cup {None}]
    /\ got \in [Requests -> Requests \cup {None, Failure}]
    /\ served \subseteq Requests /\ asked \subseteq Requests
    /\ active \in Nat
    /\ failed \in BOOLEAN
    /\ wire \in Seq([about : Requests, good : BOOLEAN])

Init ==
    /\ pending = [p \in Pages |-> [i \in Ids |-> None]]
    /\ counts = [f \in Iframes |-> 0]
    /\ req = [x \in Requests |-> None]
    /\ at = [x \in Requests |-> "unused"]
    /\ reply = [x \in Requests |-> None]
    /\ got = [x \in Requests |-> None]
    /\ served = {} /\ active = 0
    /\ failed = FALSE /\ asked = {} /\ wire = <<>>

---------------------------------------------------------------------------
(* The broker script: each event handler runs to its end.                  *)

(* The message listener.  A message it ignores (malformed, from elsewhere, *)
(* or with an id that is pending) or refuses at once is no step.           *)
Post(x, f, i) ==
    /\ at[x] = "unused" /\ \A y \in 1..(x - 1) : at[y] # "unused"
    /\ pending[PageOf[f]][i] = None
    /\ counts[f] < MaxConcurrent
    /\ counts' = [counts EXCEPT ![f] = @ + 1]
    /\ pending' = [pending EXCEPT ![PageOf[f]][i] = x]
    /\ req' = [req EXCEPT ![x] = [frame |-> f, id |-> i]]
    /\ at' = [at EXCEPT ![x] = "sent"]
    /\ UNCHANGED <<got, reply, served, active, channel>>

Finish_KeepCount(x, result) ==
    /\ pending' = [pending EXCEPT ![Page(x)][req[x].id] = None]
    /\ got' = [got EXCEPT ![x] = result]
    /\ UNCHANGED <<counts, req, server, channel>>

(* finish(): Math.max keeps the count from going below zero.               *)
Finish(x, result) ==
    /\ pending' = [pending EXCEPT ![Page(x)][req[x].id] = None]
    /\ counts' = [counts EXCEPT ![req[x].frame] = IF @ = 0 THEN 0 ELSE @ - 1]
    /\ got' = [got EXCEPT ![x] = result]
    /\ UNCHANGED <<req, server, channel>>

Settle_NoCatch(x) ==
    /\ Waiting(x)
    /\ at[x] = "answered"
    /\ Finish(x, reply[x])

(* The promise of fetch() is settled: "then" with the answer, "catch" for  *)
(* every other status.                                                     *)
Settle(x) ==
    /\ Waiting(x)
    /\ \/ at[x] = "answered" /\ Finish(x, reply[x])
       \/ at[x] = "failed" /\ Finish(x, Failure)

(* The page is loaded anew.  Its requests are aborted in the browser; the  *)
(* server does not notice.                                                 *)
Reload(p) ==
    /\ pending' = [pending EXCEPT ![p] = [i \in Ids |-> None]]
    /\ counts' = [f \in Iframes |-> IF PageOf[f] = p THEN 0 ELSE counts[f]]
    /\ UNCHANGED <<got, req, server, channel>>

---------------------------------------------------------------------------
(* The server's threads.                                                   *)

Advance(x, from, to) == at[x] = from /\ at' = [at EXCEPT ![x] = to]

(* serve: out of slots, or of threads, the connection ends here.           *)
Accept(x) ==
    /\ \/ /\ active < MaxConnections
          /\ Advance(x, "sent", "queued")
          /\ active' = active + 1
          /\ served' = served \cup {x}
       \/ /\ Advance(x, "sent", "failed")
          /\ UNCHANGED <<active, served>>
    /\ UNCHANGED <<script, req, reply, channel>>

(* A request that is not complete in time, or not valid.                   *)
BadRequest(x) ==
    /\ Advance(x, "queued", "failed")
    /\ UNCHANGED <<script, req, reply, served, active, channel>>

Locked == \E x \in Requests : at[x] = "asking"

(* provider.lock(), and read() up to the written request.                  *)
Ask(x) ==
    /\ ~Locked
    /\ \/ /\ ~failed
          /\ Advance(x, "queued", "asking")
          /\ asked' = asked \cup {x}
          /\ UNCHANGED failed
       \/ /\ Advance(x, "queued", "failed")      \* failed before, or on writing
          /\ failed' = TRUE
          /\ UNCHANGED asked
    /\ UNCHANGED <<script, req, reply, served, active, wire>>

Matches(frame, x) == frame.good /\ req[frame.about].id = req[x].id

(* read_frame, validate_result.  An answer may be too large to be passed   *)
(* on, which does the channel no harm.                                     *)
ReadFrame(x) ==
    /\ at[x] = "asking"
    /\ wire # <<>>
    /\ wire' = Tail(wire)
    /\ \/ /\ Matches(Head(wire), x)
          /\ \/ Advance(x, "asking", "answered") /\ reply' = [reply EXCEPT ![x] = Head(wire).about]
             \/ Advance(x, "asking", "failed") /\ UNCHANGED reply
          /\ UNCHANGED failed
       \/ /\ ~Matches(Head(wire), x)
          /\ Advance(x, "asking", "failed")
          /\ failed' = TRUE
          /\ UNCHANGED reply
    /\ UNCHANGED <<script, req, served, active, asked>>

ReadFails_TryAgain(x) ==
    /\ Advance(x, "asking", "failed")
    /\ UNCHANGED <<script, req, reply, served, active, channel>>

(* Nothing comes in time, or the provider is gone.                         *)
ReadFails(x) ==
    /\ Advance(x, "asking", "failed")
    /\ failed' = TRUE
    /\ UNCHANGED <<script, req, reply, served, active, asked, wire>>

(* The thread ends: ConnectionSlot is dropped.                             *)
EndConnection(x) ==
    /\ x \in served
    /\ at[x] \in {"answered", "failed"}
    /\ served' = served \ {x}
    /\ active' = active - 1
    /\ UNCHANGED <<script, req, at, reply, channel>>

---------------------------------------------------------------------------
(* The provider.                                                           *)

Answer(x) ==
    /\ x \in asked
    /\ asked' = asked \ {x}
    /\ \E good \in BOOLEAN : wire' = Append(wire, [about |-> x, good |-> good])
    /\ UNCHANGED <<script, req, server, failed>>

---------------------------------------------------------------------------
Script ==
    \/ \E x \in Requests : Settle(x) \/ \E f \in Iframes, i \in Ids : Post(x, f, i)
    \/ \E p \in Pages : Reload(p)

Server ==
    \E x \in Requests : Accept(x) \/ BadRequest(x) \/ Ask(x) \/ ReadFrame(x) \/ ReadFails(x)
                        \/ EndConnection(x)

Provider == \E x \in Requests : Answer(x)

Next == Script \/ Server \/ Provider

Spec == Init /\ [][Next]_vars

---------------------------------------------------------------------------
(* PROPERTIES                                                              *)

(* An iframe is never handed the answer to another request, although ids    *)
(* come again, on other iframes, pages and after a reload, and answers may  *)
(* arrive after the read that waited for them was given up (provider.rs,    *)
(* "provider channel has failed").                                          *)
AnswersBelongToRequests == \A x \in Requests : got[x] \in {None, Failure, x}

(* Every request the script took on is settled, unless its page went away:  *)
(* no slot, mutex, failed channel or silent provider holds it for good      *)
(* (shell.rs, then and catch).                                              *)
EveryReadSettles == \A x \in Requests : Waiting(x) ~> ~Waiting(x)

(* The script: what is pending is in flight, and an iframe's count is the   *)
(* number of its requests that are.                                         *)
ScriptInv ==
    /\ \A p \in Pages, i \in Ids :
         pending[p][i] # None =>
             LET x == pending[p][i]
             IN  req[x] # None /\ Page(x) = p /\ req[x].id = i /\ got[x] = None
    /\ \A x \in Requests : at[x] = "unused" => req[x] = None /\ got[x] = None
    /\ \A f \in Iframes :
         /\ counts[f] <= MaxConcurrent
         /\ counts[f] = Cardinality({x \in Requests : Waiting(x) /\ req[x].frame = f})

(* The server: slots are counted rightly.                                   *)
SlotInv ==
    /\ active = Cardinality(served) /\ active <= MaxConnections
    /\ \A x \in Requests : at[x] \in {"queued", "asking"} => x \in served
    /\ \A x \in Requests : at[x] \in {"unused", "sent"} => x \notin served

(* The channel: one reader at a time; while the channel is good, nothing is *)
(* owed by the provider or left in the socket but what the reader waits     *)
(* for.                                                                     *)
ChannelInv ==
    /\ \A x, y \in Requests : at[x] = "asking" /\ at[y] = "asking" => x = y
    /\ failed => ~Locked
    /\ ~failed =>
         \A x \in asked \cup {wire[i].about : i \in DOMAIN wire} : at[x] = "asking"
    /\ ~failed => Len(wire) <= 1 /\ (wire # <<>> => asked = {})
    /\ \A x \in Requests : at[x] = "answered" => reply[x] = x

(* The read path as a whole: what the script counts, the slots the server   *)
(* has given out and what the channel holds agree with the requests in      *)
(* flight (ConnectionSlot, finish, ProviderClient.failed).                  *)
UiInv ==
    /\ TypeOK
    /\ \A x \in Requests : at[x] # "unused" => req[x] # None
    /\ ScriptInv /\ SlotInv /\ ChannelInv
    /\ AnswersBelongToRequests
=============================================================================
