-------------------------- MODULE SafeFetchProofs --------------------------
(* The safety properties of SafeFetch, for any URLs, hosts and addresses,  *)
(* any limits and any answers of the world.                                *)
EXTENDS SafeFetch, TLAPS

(* Before the fetch nothing is known and nothing sent.                     *)
LEMMA InitHolds == Init => FetchInv
BY FetchConstantsOK
DEF Init, FetchInv, TypeOK, PlaceInv, OnlyCheckedRequestsAreSent, WaitsStayWithinBudget,
    OutcomeIsTrue, NoResponse, Responses, Outcomes

(* Returning disturbs nothing but the outcome, which its own conditions     *)
(* make true.                                                              *)
LEMMA FinishKeeps ==
    ASSUME FetchInv, NEW outcome \in Outcomes \ {"none"}, Finish(outcome), UNCHANGED clock,
           outcome = "TooManyRedirects" => Len(sent) = MaxRedirects + 1,
           outcome = "ok" => /\ Len(sent) > 0 /\ sent[Len(sent)].url = url
                             /\ ~response.redirect /\ body <= MaxBody
    PROVE  FetchInv'
<1>1. TypeOK'
  BY DEF FetchInv, TypeOK, Finish, fixed, place, history, Outcomes
<1>2. PlaceInv'
  BY DEF FetchInv, PlaceInv, Finish, fixed, place, history
<1>3. OnlyCheckedRequestsAreSent'
  BY DEF FetchInv, OnlyCheckedRequestsAreSent, ForbiddenNow, Finish, fixed, history
<1>4. WaitsStayWithinBudget'
  BY DEF WaitsStayWithinBudget, Finish
<1>5. OutcomeIsTrue'
  BY DEF FetchInv, OutcomeIsTrue, Finish, fixed, place, history
<1> QED BY <1>1, <1>2, <1>3, <1>4, <1>5 DEF FetchInv

(* The hop begins: the wait for the resolver ends within what is left.     *)
LEMMA CheckUrlKeeps == ASSUME FetchInv, CheckUrl PROVE FetchInv'
<1>1. CASE Finish("Timeout") \/ Finish("Policy")
  BY <1>1, FinishKeeps DEF CheckUrl, Outcomes
<1>2. CASE /\ ~TimeIsUp /\ url \in GoodUrls /\ HostOf[url] \in AllowedHosts
           /\ pc' = "resolving"
           /\ until' = clock + Smaller(Connect, Remaining)
           /\ UNCHANGED <<fixed, limit, place, addrs, response, body, history, result>>
  <2>1. /\ clock' = clock /\ pc = "hop"
        /\ clock \in Nat /\ budget \in Nat /\ clock <= budget
    BY <1>2 DEF CheckUrl, FetchInv, TypeOK, TimeIsUp
  <2>2. /\ Smaller(Connect, Remaining) \in Nat
        /\ Smaller(Connect, Remaining) <= budget - clock
    BY <2>1, FetchConstantsOK DEF Smaller, Connect, Remaining
  <2>3. TypeOK'
    BY <1>2, <2>1, <2>2 DEF FetchInv, TypeOK, fixed, place, history
  <2>4. PlaceInv'
    BY <1>2, <2>1 DEF FetchInv, PlaceInv, fixed, place, history
  <2>5. OnlyCheckedRequestsAreSent'
    BY <1>2 DEF FetchInv, OnlyCheckedRequestsAreSent, ForbiddenNow, fixed, history
  <2>6. WaitsStayWithinBudget'
    BY <1>2, <2>1, <2>2 DEF WaitsStayWithinBudget, fixed
  <2>7. OutcomeIsTrue'
    BY <1>2 DEF FetchInv, OutcomeIsTrue, fixed, place, history
  <2> QED BY <2>3, <2>4, <2>5, <2>6, <2>7 DEF FetchInv
<1> QED BY <1>1, <1>2 DEF CheckUrl

(* An answer of the resolver is recorded for the hop it was asked in.      *)
LEMMA ResolvedKeeps ==
    ASSUME FetchInv, NEW found \in SUBSET Addresses, Resolved(found) PROVE FetchInv'
<1> DEFINE answer == [host |-> HostOf[url], addrs |-> found]
<1>1. /\ answer \in [host : Hosts, addrs : SUBSET Addresses]
      /\ Len(looked) = hop /\ Len(sent) = hop /\ hop \in Nat
      /\ looked \in Seq([host : Hosts, addrs : SUBSET Addresses])
      /\ looked' = Append(looked, answer)
  BY FetchConstantsOK DEF FetchInv, TypeOK, PlaceInv, Resolved
<1>2. /\ Len(looked') = hop + 1 /\ looked'[hop + 1] = answer
      /\ \A i \in 1..hop : looked'[i] = looked[i]
  BY <1>1
<1>3. TypeOK'
  BY <1>1 DEF FetchInv, TypeOK, Resolved, fixed, place
<1>4. PlaceInv'
  BY <1>1, <1>2 DEF FetchInv, PlaceInv, Resolved, fixed, place
<1>5. OnlyCheckedRequestsAreSent'
  <2>1. sent' = sent /\ policy' = policy /\ DOMAIN sent = 1..hop /\ DOMAIN looked' = 1..(hop + 1)
    BY <1>1, <1>2, <1>3 DEF Resolved, fixed, FetchInv, TypeOK
  <2> QED BY <1>1, <1>2, <2>1 DEF FetchInv, OnlyCheckedRequestsAreSent, ForbiddenNow
<1>6. WaitsStayWithinBudget'
  BY DEF WaitsStayWithinBudget, Resolved
<1>7. OutcomeIsTrue'
  BY DEF FetchInv, OutcomeIsTrue, Resolved, fixed, place
<1> QED BY <1>3, <1>4, <1>5, <1>6, <1>7 DEF FetchInv

(* The one step that sends: what it sends was checked in this hop, and its  *)
(* time-out is what is left.                                               *)
LEMMA CheckAddressesKeeps == ASSUME FetchInv, CheckAddresses PROVE FetchInv'
<1>1. CASE Finish("Timeout") \/ Finish("Policy")
  BY <1>1, FinishKeeps DEF CheckAddresses, Outcomes
<1>2. CASE /\ addrs \cap ForbiddenNow = {} /\ ~TimeIsUp
           /\ SendNow(url, Remaining)
           /\ UNCHANGED <<fixed, place, addrs, response, body, looked, result>>
  <2> DEFINE request == [url |-> url, addrs |-> addrs]
  <2>1. /\ clock' = clock /\ clock \in Nat /\ budget \in Nat /\ clock <= budget
        /\ limit' = budget - clock /\ until' = clock + (budget - clock) /\ pc' = "asking"
    BY <1>2 DEF CheckAddresses, FetchInv, TypeOK, TimeIsUp, SendNow, Remaining
  <2>2. /\ request \in [url : Urls, addrs : SUBSET Addresses]
        /\ Len(looked) = hop + 1 /\ Len(sent) = hop /\ hop \in Nat
        /\ sent \in Seq([url : Urls, addrs : SUBSET Addresses])
        /\ looked \in Seq([host : Hosts, addrs : SUBSET Addresses])
        /\ sent' = Append(sent, request)
        /\ url \in GoodUrls /\ HostOf[url] \in AllowedHosts
        /\ addrs # {} /\ looked[hop + 1] = [host |-> HostOf[url], addrs |-> addrs]
        /\ hop <= MaxRedirects
    BY <1>2 DEF FetchInv, TypeOK, PlaceInv, CheckAddresses, SendNow
  <2>3. /\ Len(sent') = hop + 1 /\ sent'[hop + 1] = request
        /\ DOMAIN sent' = 1..(hop + 1) /\ DOMAIN sent = 1..hop /\ DOMAIN looked = 1..(hop + 1)
        /\ \A i \in 1..hop : sent'[i] = sent[i]
    BY <2>2
  <2>4. TypeOK'
    BY <1>2, <2>1, <2>2 DEF FetchInv, TypeOK, fixed, place
  <2>5. PlaceInv'
    BY <1>2, <2>1, <2>2, <2>3 DEF FetchInv, PlaceInv, CheckAddresses, fixed, place
  <2>6. OnlyCheckedRequestsAreSent'
    <3>1. looked' = looked /\ policy' = policy
      BY <1>2 DEF fixed
    <3> SUFFICES ASSUME NEW i \in 1..(hop + 1)
                 PROVE  /\ sent'[i].url \in GoodUrls /\ HostOf[sent'[i].url] \in AllowedHosts
                        /\ sent'[i].addrs # {} /\ sent'[i].addrs \cap ForbiddenNow = {}
                        /\ i \in DOMAIN looked
                        /\ looked[i] = [host |-> HostOf[sent'[i].url], addrs |-> sent'[i].addrs]
      BY <2>3, <3>1 DEF OnlyCheckedRequestsAreSent, ForbiddenNow
    <3>2. CASE i = hop + 1
      BY <1>2, <2>2, <2>3, <3>2
    <3>3. CASE i \in 1..hop
      BY <2>2, <2>3, <3>3 DEF FetchInv, OnlyCheckedRequestsAreSent
    <3> QED BY <2>2, <3>2, <3>3
  <2>7. WaitsStayWithinBudget'
    BY <1>2, <2>1 DEF WaitsStayWithinBudget, fixed
  <2>8. OutcomeIsTrue'
    <3>1. result' = "none"
      BY <1>2 DEF FetchInv, PlaceInv, CheckAddresses
    <3> QED BY <2>2, <2>3, <3>1, FetchConstantsOK DEF OutcomeIsTrue
  <2> QED BY <2>4, <2>5, <2>6, <2>7, <2>8 DEF FetchInv
<1> QED BY <1>1, <1>2 DEF CheckAddresses

(* A response that is not followed ends the fetch.                         *)
LEMMA AnsweredKeeps == ASSUME FetchInv, Answered PROVE FetchInv'
<1>1. /\ Len(sent) = hop + 1 /\ hop \in Nat /\ sent[hop + 1].url = url /\ body <= MaxBody
  BY DEF Answered, FetchInv, PlaceInv, TypeOK
<1> QED BY <1>1, FinishKeeps DEF Answered, Outcomes

(* A redirect forgets what this hop checked: the next one starts afresh.   *)
LEMMA RedirectedKeeps ==
    ASSUME FetchInv, NEW next \in Urls, Redirected(next) PROVE FetchInv'
<1>1. TypeOK'
  BY DEF FetchInv, TypeOK, Redirected, Follow, fixed
<1>2. PlaceInv'
  BY FetchConstantsOK DEF FetchInv, TypeOK, PlaceInv, Redirected, Follow, fixed
<1>3. OnlyCheckedRequestsAreSent'
  BY DEF FetchInv, OnlyCheckedRequestsAreSent, ForbiddenNow, Redirected, Follow, fixed
<1>4. WaitsStayWithinBudget'
  BY DEF WaitsStayWithinBudget, Redirected
<1>5. OutcomeIsTrue'
  BY DEF FetchInv, PlaceInv, OutcomeIsTrue, Redirected, Follow, fixed
<1> QED BY <1>1, <1>2, <1>3, <1>4, <1>5 DEF FetchInv

(* Steps that keep place, addresses, histories and outcome.                *)
LEMMA QuietStepKeeps ==
    ASSUME FetchInv, UNCHANGED <<fixed, limit, place, addrs, history, result>>,
           TypeOK', PlaceInv', WaitsStayWithinBudget', result = "none"
    PROVE  FetchInv'
<1>1. OnlyCheckedRequestsAreSent'
  BY DEF FetchInv, OnlyCheckedRequestsAreSent, ForbiddenNow, fixed, history
<1>2. OutcomeIsTrue'
  BY DEF FetchInv, OutcomeIsTrue, fixed, place, history
<1> QED BY <1>1, <1>2 DEF FetchInv

(* The request is well formed, or refused.                                 *)
LEMMA StartKeeps == ASSUME FetchInv, Start PROVE FetchInv'
<1>1. CASE Finish("Policy")
  BY <1>1, FinishKeeps DEF Start, Outcomes
<1>2. CASE /\ pc' = "hop"
           /\ UNCHANGED <<fixed, until, limit, place, addrs, response, body, history, result>>
  <2>1. clock' = clock /\ pc = "start" /\ result = "none"
    BY <1>2 DEF Start, FetchInv, PlaceInv
  <2>2. TypeOK' /\ PlaceInv' /\ WaitsStayWithinBudget'
    BY <1>2, <2>1
    DEF FetchInv, TypeOK, PlaceInv, WaitsStayWithinBudget, fixed, place, history
  <2> QED BY <1>2, <2>1, <2>2, QuietStepKeeps DEF fixed, place, history
<1> QED BY <1>1, <1>2 DEF Start

(* The body has not begun when the head arrives.                           *)
LEMMA HeadArrivesKeeps ==
    ASSUME FetchInv, NEW r \in Responses, HeadArrives(r) PROVE FetchInv'
<1>1. CASE Finish("TooLarge")
  BY <1>1, FinishKeeps DEF HeadArrives, Outcomes
<1>2. CASE /\ pc' = "reading"
           /\ response' = r
           /\ body' = 0
           /\ until' = clock + limit
           /\ UNCHANGED <<fixed, limit, place, addrs, history, result>>
  <2>1. clock' = clock /\ pc = "asking" /\ result = "none"
    BY <1>2 DEF HeadArrives, FetchInv, PlaceInv
  <2>2. TypeOK'
    BY <1>2, <2>1 DEF FetchInv, TypeOK, fixed, place, history
  <2>3. PlaceInv'
    BY <1>2, <2>1, FetchConstantsOK DEF FetchInv, PlaceInv, fixed, place, history
  <2>4. WaitsStayWithinBudget'
    BY <1>2 DEF WaitsStayWithinBudget
  <2> QED BY <1>2, <2>1, <2>2, <2>3, <2>4, QuietStepKeeps
<1> QED BY <1>1, <1>2 DEF HeadArrives

(* The body never grows beyond one byte more than allowed.                 *)
LEMMA BodyKeeps == ASSUME FetchInv, BodyArrives \/ BodyEnds PROVE FetchInv'
<1>1. /\ pc = "reading" /\ result = "none" /\ clock' = clock
      /\ UNCHANGED <<fixed, limit, place, addrs, history, result, response>>
  BY DEF BodyArrives, BodyEnds, FetchInv, PlaceInv
<1>2. TypeOK'
  BY <1>1 DEF BodyArrives, BodyEnds, FetchInv, TypeOK, fixed, place, history
<1>3. PlaceInv'
  BY <1>1, FetchConstantsOK
  DEF BodyArrives, BodyEnds, FetchInv, TypeOK, PlaceInv, fixed, place, history
<1>4. WaitsStayWithinBudget'
  BY DEF BodyArrives, BodyEnds, WaitsStayWithinBudget
<1> QED BY <1>1, <1>2, <1>3, <1>4, QuietStepKeeps

(* Time does not pass the end of a wait.                                   *)
LEMMA TickKeeps == ASSUME FetchInv, Tick PROVE FetchInv'
<1>1. TypeOK' /\ PlaceInv'
  BY DEF Tick, FetchInv, TypeOK, PlaceInv, fixed, place, history
<1>2. WaitsStayWithinBudget'
  BY DEF Tick, Waiting, FetchInv, TypeOK, WaitsStayWithinBudget, fixed
<1>3. OnlyCheckedRequestsAreSent'
  BY DEF Tick, FetchInv, OnlyCheckedRequestsAreSent, ForbiddenNow, fixed, history
<1>4. OutcomeIsTrue'
  BY DEF Tick, FetchInv, OutcomeIsTrue, place, history
<1> QED BY <1>1, <1>2, <1>3, <1>4 DEF FetchInv

(* The inductive invariant of a fetch.                                     *)
THEOREM FetchInvariant == Spec => []FetchInv
<1>1. ASSUME FetchInv, [Next]_vars PROVE FetchInv'
  <2>1. CASE Start BY <1>1, <2>1, StartKeeps
  <2>2. CASE CheckUrl BY <1>1, <2>2, CheckUrlKeeps
  <2>3. CASE CheckAddresses BY <1>1, <2>3, CheckAddressesKeeps
  <2>4. CASE Answered BY <1>1, <2>4, AnsweredKeeps
  <2>5. ASSUME NEW next \in Urls, Redirected(next) PROVE FetchInv'
    BY <1>1, <2>5, RedirectedKeeps
  <2>6. CASE BodyTooLarge
    BY <1>1, <2>6, FinishKeeps DEF BodyTooLarge, Outcomes
  <2>7. CASE GiveUp
    BY <1>1, <2>7, FinishKeeps DEF GiveUp, ResolveTimesOut, TransportTimesOut, Outcomes
  <2>8. CASE ResolveFails \/ TransportFails
    BY <1>1, <2>8, FinishKeeps DEF ResolveFails, TransportFails, Outcomes
  <2>9. ASSUME NEW found \in SUBSET Addresses, Resolved(found) PROVE FetchInv'
    BY <1>1, <2>9, ResolvedKeeps
  <2>10. ASSUME NEW r \in Responses, HeadArrives(r) PROVE FetchInv'
    BY <1>1, <2>10, HeadArrivesKeeps
  <2>11. CASE BodyArrives \/ BodyEnds BY <1>1, <2>11, BodyKeeps
  <2>12. CASE Tick BY <1>1, <2>12, TickKeeps
  <2>13. CASE UNCHANGED vars
    BY <1>1, <2>13
    DEF vars, fixed, place, history, FetchInv, TypeOK, PlaceInv, OnlyCheckedRequestsAreSent,
        ForbiddenNow, WaitsStayWithinBudget, OutcomeIsTrue
  <2> QED
    BY <1>1, <2>1, <2>2, <2>3, <2>4, <2>5, <2>6, <2>7, <2>8, <2>9, <2>10, <2>11, <2>12, <2>13
    DEF Next, Fetch, World
<1> QED BY InitHolds, <1>1, PTL DEF Spec

(* Whatever a plugin asks for, wherever servers redirect to and whatever   *)
(* names resolve to, a request goes only where its own hop checked.        *)
THEOREM EveryRequestWasChecked == Spec => []OnlyCheckedRequestsAreSent
BY FetchInvariant, PTL DEF FetchInv

(* Waits for resolvers and responses end within the fetch's budget.        *)
THEOREM BudgetIsKept == Spec => []WaitsStayWithinBudget
BY FetchInvariant, PTL DEF FetchInv

(* The redirect limit is exact and a success is the last answer.           *)
THEOREM OutcomesAreTrue == Spec => []OutcomeIsTrue
BY FetchInvariant, PTL DEF FetchInv
=============================================================================
