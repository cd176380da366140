----------------------------- MODULE SafeFetch -----------------------------
(***************************************************************************)
(* One fetch of the host on behalf of a plugin (crates/mh-fetch/src/lib.rs *)
(* and the provider in crates/mh-host/src/lib.rs that gives it its time).  *)
(*                                                                         *)
(* The fetch follows redirects itself.  Every hop checks the URL, resolves *)
(* its host, checks the addresses and sends the request to those addresses *)
(* only; all hops share one time budget.  The world decides what a name    *)
(* resolves to, differently each time if it likes, how the server answers, *)
(* and how long everything takes, within the time-out of each wait.        *)
(***************************************************************************)
EXTENDS Naturals, Sequences

CONSTANTS
    Urls, Hosts,     \* what may be asked or redirected to
    HostOf,          \* the host of each URL
    GoodUrls,        \* http or https, no userinfo
    AllowedHosts,    \* within the manifest's allowed_domains
    Addresses,
    Forbidden,       \* forbidden_ip
    Loopback,        \* loopback_ip
    MaxBudget,       \* bound: the longest time a run may have left
    ConnectTimeout,  \* 10 seconds
    MaxRedirects,    \* 10
    MaxBody,         \* 5 MiB
    MaxClock         \* bound: time

ASSUME FetchConstantsOK ==
    /\ HostOf \in [Urls -> Hosts]
    /\ GoodUrls \subseteq Urls /\ AllowedHosts \subseteq Hosts
    /\ Forbidden \subseteq Addresses /\ Loopback \subseteq Addresses
    /\ MaxBudget \in Nat /\ ConnectTimeout \in Nat
    /\ MaxRedirects \in Nat /\ MaxBody \in Nat /\ MaxClock \in Nat

VARIABLES
    pc,        \* where fetch_with_address_policy is
    policy,    \* ResolvedAddressPolicy
    budget,    \* total_timeout
    clock,     \* time since "started"
    until,     \* when the current wait gives up
    limit,     \* TransportRequest.timeout
    url,
    hop,       \* redirect_count
    addrs,     \* the addresses of this hop
    response,  \* the response's status and Location
    body,      \* bytes of the body read
    looked,    \* history: every name resolved, with the answer
    sent,      \* history: every request sent
    result     \* the outcome

fixed == <<policy, budget>>
place == <<url, hop>>
history == <<looked, sent>>
vars == <<pc, fixed, clock, until, limit, place, addrs, response, body, history, result>>

Smaller(a, b) == IF a < b THEN a ELSE b

NoResponse == [redirect |-> FALSE, location |-> {}]

(* A redirect's Location: a URL, or none that can be used.                 *)
Responses == [redirect : BOOLEAN, location : {{}} \cup {{u} : u \in Urls}]

Outcomes == {"none", "ok", "Policy", "Network", "Timeout", "TooLarge", "TooManyRedirects"}

TypeOK ==
    /\ pc \in {"start", "hop", "resolving", "resolved", "asking", "reading", "answered", "done"}
    /\ policy \in {"Default", "DevAllowLoopback"}
    /\ budget \in Nat /\ clock \in Nat /\ until \in Nat /\ limit \in Nat
    /\ url \in Urls /\ hop \in Nat
    /\ addrs \in SUBSET Addresses
    /\ response \in Responses /\ body \in Nat
    /\ looked \in Seq([host : Hosts, addrs : SUBSET Addresses])
    /\ sent \in Seq([url : Urls, addrs : SUBSET Addresses])
    /\ result \in Outcomes

(* SafeFetchProvider: what is left of the run caps the budget.             *)
Init ==
    /\ pc = "start"
    /\ policy \in {"Default", "DevAllowLoopback"}
    /\ budget \in 0..MaxBudget
    /\ url \in Urls
    /\ clock = 0 /\ until = 0 /\ limit = 0 /\ hop = 0
    /\ addrs = {} /\ response = NoResponse /\ body = 0
    /\ looked = <<>> /\ sent = <<>>
    /\ result = "none"

(* "?" and return.                                                         *)
Finish(outcome) ==
    /\ pc' = "done"
    /\ result' = outcome
    /\ UNCHANGED <<fixed, until, limit, place, addrs, response, body, history>>

TimeIsUp == clock > budget
Remaining == budget - clock
Connect == Smaller(ConnectTimeout, budget)

ForbiddenNow == IF policy = "Default" THEN Forbidden ELSE Forbidden \ Loopback

---------------------------------------------------------------------------
(* The fetch.                                                              *)

(* Method, headers and URL are parsed before the clock starts.             *)
Start ==
    /\ pc = "start"
    /\ \/ Finish("Policy")
       \/ /\ pc' = "hop"
          /\ UNCHANGED <<fixed, until, limit, place, addrs, response, body, history, result>>
    /\ UNCHANGED clock

(* remaining_timeout, validate_url; then the wait for the resolver begins. *)
CheckUrl ==
    /\ pc = "hop"
    /\ \/ TimeIsUp /\ Finish("Timeout")
       \/ ~TimeIsUp /\ url \notin GoodUrls /\ Finish("Policy")
       \/ ~TimeIsUp /\ HostOf[url] \notin AllowedHosts /\ Finish("Policy")
       \/ /\ ~TimeIsUp /\ url \in GoodUrls /\ HostOf[url] \in AllowedHosts
          /\ pc' = "resolving"
          /\ until' = clock + Smaller(Connect, Remaining)
          /\ UNCHANGED <<fixed, limit, place, addrs, response, body, history, result>>
    /\ UNCHANGED clock

(* resolve_with_timeout: the resolver thread's answer, an error, or none   *)
(* in time; the thread is then left behind.                                *)
Resolved(found) ==
    /\ pc = "resolving"
    /\ found # {}
    /\ pc' = "resolved"
    /\ addrs' = found
    /\ looked' = Append(looked, [host |-> HostOf[url], addrs |-> found])
    /\ UNCHANGED <<fixed, clock, until, limit, place, response, body, sent, result>>

ResolveFails ==
    /\ pc = "resolving"
    /\ Finish("Network") \/ Finish("Policy")
    /\ UNCHANGED clock

ResolveTimesOut ==
    /\ pc = "resolving"
    /\ clock = until
    /\ Finish("Timeout")
    /\ UNCHANGED clock

SendNow(to, timeout) ==
    /\ pc' = "asking"
    /\ limit' = timeout
    /\ until' = clock + timeout
    /\ sent' = Append(sent, [url |-> to, addrs |-> addrs])

CheckAddresses_WholeBudget ==
    /\ pc = "resolved"
    /\ \/ addrs \cap ForbiddenNow # {} /\ Finish("Policy")
       \/ addrs \cap ForbiddenNow = {} /\ TimeIsUp /\ Finish("Timeout")
       \/ /\ addrs \cap ForbiddenNow = {} /\ ~TimeIsUp
          /\ SendNow(url, budget)
          /\ UNCHANGED <<fixed, place, addrs, response, body, looked, result>>
    /\ UNCHANGED clock

(* validate_resolved_addrs, remaining_timeout once more, transport.send.   *)
CheckAddresses ==
    /\ pc = "resolved"
    /\ \/ addrs \cap ForbiddenNow # {} /\ Finish("Policy")
       \/ addrs \cap ForbiddenNow = {} /\ TimeIsUp /\ Finish("Timeout")
       \/ /\ addrs \cap ForbiddenNow = {} /\ ~TimeIsUp
          /\ SendNow(url, Remaining)
          /\ UNCHANGED <<fixed, place, addrs, response, body, looked, result>>
    /\ UNCHANGED clock

(* The head of the response, and its Content-Length.                       *)
HeadArrives(r) ==
    /\ pc = "asking"
    /\ \/ /\ pc' = "reading"
          /\ response' = r
          /\ body' = 0
          /\ until' = clock + limit
          /\ UNCHANGED <<fixed, limit, place, addrs, history, result>>
       \/ Finish("TooLarge")
    /\ UNCHANGED clock

(* read_to_end through take(max + 1): every read may last as long as the   *)
(* time-out again.                                                         *)
BodyArrives ==
    /\ pc = "reading"
    /\ body <= MaxBody
    /\ body' = body + 1
    /\ until' = clock + limit
    /\ UNCHANGED <<pc, fixed, clock, limit, place, addrs, response, history, result>>

BodyEnds ==
    /\ pc = "reading"
    /\ body <= MaxBody
    /\ pc' = "answered"
    /\ UNCHANGED <<fixed, clock, until, limit, place, addrs, response, body, history, result>>

BodyTooLarge ==
    /\ pc = "reading"
    /\ body > MaxBody
    /\ Finish("TooLarge")
    /\ UNCHANGED clock

(* The connection breaks.                                                  *)
TransportFails ==
    /\ pc \in {"asking", "reading"}
    /\ Finish("Network")
    /\ UNCHANGED clock

TransportTimesOut_HeadOnly ==
    /\ pc = "asking"
    /\ clock = until
    /\ Finish("Network")
    /\ UNCHANGED clock

TransportTimesOut ==
    /\ pc \in {"asking", "reading"}
    /\ clock = until
    /\ Finish("Network")
    /\ UNCHANGED clock

Follow(next) ==
    /\ url' = next
    /\ hop' = hop + 1
    /\ UNCHANGED <<fixed, addrs, response, body, looked, result>>

Redirected_OneTooMany(next) ==
    /\ pc = "answered"
    /\ response.redirect /\ hop <= MaxRedirects /\ next \in response.location
    /\ pc' = "hop"
    /\ Follow(next)
    /\ UNCHANGED <<clock, until, limit, sent>>

Redirected_SameConnection(next) ==
    /\ pc = "answered"
    /\ response.redirect /\ hop < MaxRedirects /\ next \in response.location
    /\ ~TimeIsUp
    /\ SendNow(next, Remaining)
    /\ Follow(next)
    /\ UNCHANGED clock

(* join(location), and on to the next hop.                                 *)
Redirected(next) ==
    /\ pc = "answered"
    /\ response.redirect /\ hop < MaxRedirects /\ next \in response.location
    /\ pc' = "hop"
    /\ Follow(next)
    /\ UNCHANGED <<clock, until, limit, sent>>

(* Everything else a response may lead to.                                 *)
Answered ==
    /\ pc = "answered"
    /\ \/ ~response.redirect /\ Finish("ok")
       \/ response.redirect /\ hop = MaxRedirects /\ Finish("TooManyRedirects")
       \/ response.redirect /\ hop < MaxRedirects /\ response.location = {} /\ Finish("Policy")
    /\ UNCHANGED clock

---------------------------------------------------------------------------
(* Time passes, between any two steps; no wait outlasts its time-out.      *)

Waiting == pc \in {"resolving", "asking", "reading"}

Tick ==
    /\ pc \notin {"start", "done"}
    /\ clock < MaxClock
    /\ Waiting => clock < until
    /\ clock' = clock + 1
    /\ UNCHANGED <<pc, fixed, until, limit, place, addrs, response, body, history, result>>

Fetch ==
    \/ Start \/ CheckUrl \/ CheckAddresses \/ BodyTooLarge \/ Answered
    \/ \E next \in Urls : Redirected(next)

GiveUp == ResolveTimesOut \/ TransportTimesOut

World ==
    \/ \E found \in SUBSET Addresses : Resolved(found)
    \/ ResolveFails \/ TransportFails \/ BodyArrives \/ BodyEnds
    \/ \E r \in Responses : HeadArrives(r)

Next == Fetch \/ GiveUp \/ World \/ Tick

Spec == Init /\ [][Next]_vars

(* The host thread runs, time passes, and a time-out is acted upon.  The   *)
(* resolver and the servers need not do anything.                          *)
FairSpec == Spec /\ WF_vars(Fetch) /\ WF_vars(GiveUp) /\ WF_vars(Tick)

---------------------------------------------------------------------------
(* PROPERTIES                                                              *)

(* Every request, after any number of redirects, goes to a URL and to       *)
(* addresses checked in its own hop: to the very answer the resolver gave   *)
(* for its host then, not to an earlier or a later one (docs/protocol-v1.md *)
(* "host_fetch": every hop is checked anew; resolve_to_addrs).              *)
OnlyCheckedRequestsAreSent ==
    \A i \in DOMAIN sent :
        /\ sent[i].url \in GoodUrls /\ HostOf[sent[i].url] \in AllowedHosts
        /\ sent[i].addrs # {} /\ sent[i].addrs \cap ForbiddenNow = {}
        /\ i \in DOMAIN looked
        /\ looked[i] = [host |-> HostOf[sent[i].url], addrs |-> sent[i].addrs]

(* No wait for a resolver or for a response's head lasts beyond the total   *)
(* budget, whatever earlier hops and the resolver have used of it           *)
(* (remaining_timeout, twice in every hop).                                 *)
WaitsStayWithinBudget ==
    pc \in {"resolving", "asking"} => clock <= until /\ until <= budget

(* The redirect limit is exact, and a success is the whole answer to the    *)
(* last request sent (TooManyRedirects, final_url, ResponseTooLarge).       *)
OutcomeIsTrue ==
    /\ Len(sent) <= MaxRedirects + 1
    /\ result = "TooManyRedirects" => Len(sent) = MaxRedirects + 1
    /\ result = "ok" =>
         /\ Len(sent) > 0 /\ sent[Len(sent)].url = url
         /\ ~response.redirect /\ body <= MaxBody

(* The fetch comes to an end although nobody answers: the run of the host   *)
(* that waits for it goes on (resolve_with_timeout, Client::timeout).       *)
FetchEnds == <>(pc = "done")

(* What is known where, and how far the histories have come.                *)
PlaceInv ==
    /\ hop <= MaxRedirects
    /\ pc \in {"start", "hop", "resolving"} => Len(looked) = hop /\ Len(sent) = hop
    /\ pc \in {"resolving", "resolved", "asking", "reading", "answered"} =>
         url \in GoodUrls /\ HostOf[url] \in AllowedHosts
    /\ pc = "resolved" =>
         /\ Len(looked) = hop + 1 /\ Len(sent) = hop
         /\ addrs # {} /\ looked[hop + 1] = [host |-> HostOf[url], addrs |-> addrs]
    /\ pc \in {"asking", "reading", "answered"} =>
         /\ Len(looked) = hop + 1 /\ Len(sent) = hop + 1
         /\ sent[hop + 1].url = url
    /\ body <= MaxBody + 1
    /\ pc = "answered" => body <= MaxBody
    /\ result # "none" => pc = "done"

(* The inductive invariant.                                                 *)
FetchInv ==
    TypeOK /\ PlaceInv /\ OnlyCheckedRequestsAreSent /\ WaitsStayWithinBudget /\ OutcomeIsTrue
=============================================================================
