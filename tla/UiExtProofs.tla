---------------------------- MODULE UiExtProofs ----------------------------
(***************************************************************************)
(* Proofs about the extension host (UiExtRead and UiExtHost), for any      *)
(* pages, iframes, ids, extensions and files, and any number of requests,  *)
(* reloads, restarts of the provider and changes of extensions.            *)
(***************************************************************************)
EXTENDS UiExtHost, FiniteSetTheorems, SequenceTheorems, TLAPS

LEMMA RequestsFinite ==
    /\ IsFiniteSet(Requests) /\ Requests \subseteq Nat
    /\ None \notin Requests /\ Failure \notin Requests /\ None # Failure
BY UiConstantsOK, FS_Interval DEF Requests

(* The requests an iframe's count is about.                                 *)
Open(f) == {x \in Requests : Waiting(x) /\ req[x].frame = f}

LEMMA OpenIsFinite ==
    ASSUME NEW f
    PROVE  IsFiniteSet(Open(f)) /\ Cardinality(Open(f)) \in Nat
BY RequestsFinite, FS_Subset, FS_CardinalityType DEF Open

(* What a request in use was sent as.                                       *)
LEMMA RequestOK ==
    ASSUME UiInv, NEW x \in Requests, at[x] # "unused"
    PROVE  /\ req[x] \in [frame : Iframes, id : Ids] /\ req[x] # None
           /\ Page(x) \in Pages
<1>1. req[x] \in [frame : Iframes, id : Ids] /\ req[x] # None
  BY UiConstantsOK DEF UiInv, TypeOK
<1> QED
  BY <1>1, UiConstantsOK DEF Page

---------------------------------------------------------------------------
(* The steps of the server's threads leave the script alone.               *)

LEMMA ScriptKept ==
    ASSUME UiInv, UNCHANGED <<script, req>>,
           \A x \in Requests : at'[x] = "unused" <=> at[x] = "unused"
    PROVE  /\ ScriptInv' /\ AnswersBelongToRequests'
           /\ \A x \in Requests : at'[x] # "unused" => req'[x] # None
<1>1. pending' = pending /\ counts' = counts /\ got' = got /\ req' = req
  BY DEF script
<1>2. \A x \in Requests : Waiting(x)' = Waiting(x)
  BY <1>1 DEF Waiting, Page
<1>3. \A f \in Iframes :
        {x \in Requests : Waiting(x) /\ req[x].frame = f}'
        = {x \in Requests : Waiting(x) /\ req[x].frame = f}
  BY <1>1, <1>2
<1>4. \A x : Page(x)' = Page(x)
  BY <1>1 DEF Page
<1>5. ScriptInv'
  BY <1>1, <1>3, <1>4 DEF UiInv, ScriptInv
<1> QED
  BY <1>1, <1>5 DEF UiInv, AnswersBelongToRequests

(* From one place to the next.                                             *)
LEMMA AdvanceOK ==
    ASSUME UiInv, NEW x \in Requests, NEW from, NEW to, Advance(x, from, to),
           to \in {"sent", "queued", "asking", "answered", "failed"}, from # "unused"
    PROVE  /\ at' \in [Requests -> {"unused", "sent", "queued", "asking", "answered", "failed"}]
           /\ at[x] = from /\ at'[x] = to
           /\ \A y \in Requests : y # x => at'[y] = at[y]
           /\ \A y \in Requests : at'[y] = "unused" <=> at[y] = "unused"
BY DEF UiInv, TypeOK, Advance

LEMMA Elements == ASSUME NEW T, NEW s \in Seq(T) PROVE \A i \in DOMAIN s : s[i] \in T
OBVIOUS

(* Nor do the others touch the channel.                                     *)
LEMMA ChannelKept ==
    ASSUME UiInv, UNCHANGED <<reply, channel>>,
           \A x \in Requests : /\ at'[x] = "asking" <=> at[x] = "asking"
                               /\ at'[x] = "answered" => at[x] = "answered"
    PROVE  ChannelInv'
<1>1. reply' = reply /\ failed' = failed /\ asked' = asked /\ wire' = wire
  BY DEF channel
<1>2. /\ asked \subseteq Requests
      /\ \A i \in DOMAIN wire : wire[i].about \in Requests
  <2>1. wire \in Seq([about : Requests, good : BOOLEAN]) /\ asked \subseteq Requests
    BY DEF UiInv, TypeOK
  <2>2. \A i \in DOMAIN wire : wire[i] \in [about : Requests, good : BOOLEAN]
    BY <2>1, Elements
  <2> QED
    BY <2>1, <2>2
<1>3. Locked' <=> Locked
  BY DEF Locked
<1>4. ASSUME ~failed
      PROVE  \A x \in asked' \cup {wire'[i].about : i \in DOMAIN wire'} : at'[x] = "asking"
  <2>1. \A x \in asked \cup {wire[i].about : i \in DOMAIN wire} : at[x] = "asking"
    BY <1>4 DEF UiInv, ChannelInv
  <2> QED
    BY <1>1, <1>2, <2>1
<1>5. /\ \A x, y \in Requests : at'[x] = "asking" /\ at'[y] = "asking" => x = y
      /\ failed' => ~Locked'
      /\ ~failed' => Len(wire') <= 1 /\ (wire' # <<>> => asked' = {})
      /\ \A x \in Requests : at'[x] = "answered" => reply'[x] = x
  BY <1>1, <1>3 DEF UiInv, ChannelInv
<1> QED
  BY <1>1, <1>4, <1>5 DEF ChannelInv

LEMMA AcceptStep == ASSUME UiInv, NEW x \in Requests, Accept(x) PROVE UiInv'
<1>0. at[x] = "sent" /\ x \notin served /\ IsFiniteSet(served) /\ served \subseteq Requests
  BY RequestsFinite, FS_Subset DEF Accept, Advance, UiInv, SlotInv, TypeOK
<1> UNCHANGED <<script, req, reply, channel>>
  BY DEF Accept
<1>1. PICK to \in {"queued", "failed"} :
        /\ Advance(x, "sent", to)
        /\ \/ /\ to = "queued" /\ active < MaxConnections
              /\ active' = active + 1 /\ served' = served \cup {x}
           \/ to = "failed" /\ active' = active /\ served' = served
  BY DEF Accept
<1>2. /\ at' \in [Requests -> {"unused", "sent", "queued", "asking", "answered", "failed"}]
      /\ at'[x] = to
      /\ \A y \in Requests : y # x => at'[y] = at[y]
      /\ \A y \in Requests : at'[y] = "unused" <=> at[y] = "unused"
  BY <1>1, AdvanceOK
<1>3. TypeOK'
  BY <1>1, <1>2 DEF UiInv, TypeOK, script, channel
<1>4. SlotInv'
  <2>1. CASE to = "queued"
    <3>1. Cardinality(served') = Cardinality(served) + 1
      BY <1>0, <1>1, <2>1, FS_AddElement
    <3>2. active' = Cardinality(served') /\ active' <= MaxConnections
      BY <1>1, <2>1, <3>1, UiConstantsOK DEF UiInv, SlotInv, TypeOK
    <3> QED
      BY <1>1, <1>2, <2>1, <3>2 DEF UiInv, SlotInv
  <2>2. CASE to = "failed"
    BY <1>0, <1>1, <1>2, <2>2 DEF UiInv, SlotInv
  <2> QED
    BY <1>1, <2>1, <2>2
<1>5. ChannelInv'
  BY <1>0, <1>1, <1>2, ChannelKept
<1> QED
  BY <1>2, <1>3, <1>4, <1>5, ScriptKept DEF UiInv

LEMMA BadRequestStep == ASSUME UiInv, NEW x \in Requests, BadRequest(x) PROVE UiInv'
<1> UNCHANGED <<script, req, reply, served, active, channel>> /\ Advance(x, "queued", "failed")
  BY DEF BadRequest
<1>2. /\ at' \in [Requests -> {"unused", "sent", "queued", "asking", "answered", "failed"}]
      /\ at[x] = "queued" /\ at'[x] = "failed"
      /\ \A y \in Requests : y # x => at'[y] = at[y]
      /\ \A y \in Requests : at'[y] = "unused" <=> at[y] = "unused"
  BY AdvanceOK
<1>3. TypeOK'
  BY <1>2 DEF UiInv, TypeOK, script, channel
<1>4. SlotInv'
  BY <1>2 DEF UiInv, SlotInv
<1>5. ChannelInv'
  BY <1>2, ChannelKept
<1> QED
  BY <1>2, <1>3, <1>4, <1>5, ScriptKept DEF UiInv

LEMMA EndConnectionStep == ASSUME UiInv, NEW x \in Requests, EndConnection(x) PROVE UiInv'
<1>0. /\ UNCHANGED <<script, req, at, reply, channel>>
      /\ x \in served /\ at[x] \in {"answered", "failed"}
      /\ served' = served \ {x} /\ active' = active - 1
  BY DEF EndConnection
<1>1. /\ IsFiniteSet(served)
      /\ Cardinality(served') = Cardinality(served) - 1
      /\ Cardinality(served) \in Nat /\ Cardinality(served') \in Nat
  BY <1>0, RequestsFinite, FS_Subset, FS_RemoveElement, FS_CardinalityType DEF UiInv, TypeOK
<1>3. TypeOK'
  BY <1>0, <1>1 DEF UiInv, SlotInv, TypeOK, script, channel
<1>4. SlotInv'
  BY <1>0, <1>1, UiConstantsOK DEF UiInv, SlotInv
<1>5. ChannelInv'
  BY <1>0 DEF UiInv, ChannelInv, Locked, channel
<1> QED
  BY <1>0, <1>3, <1>4, <1>5, ScriptKept DEF UiInv

---------------------------------------------------------------------------
(* The provider channel.                                                   *)

LEMMA AtMostOne ==
    ASSUME NEW T, NEW s \in Seq(T), s # <<>>, Len(s) <= 1
    PROVE  Len(s) = 1 /\ 1 \in DOMAIN s /\ s[1] \in T /\ s[1] = Head(s) /\ Tail(s) = <<>>
<1>1. Len(s) \in Nat /\ Len(s) # 0
  BY EmptySeq
<1>2. Len(s) = 1 /\ DOMAIN s = 1..1
  BY <1>1
<1>3. Tail(s) \in Seq(T) /\ Len(Tail(s)) = 0
  BY <1>2, HeadTailProperties
<1>4. Tail(s) = <<>>
  BY <1>3, EmptySeq
<1> QED
  BY <1>2, <1>4

(* While the channel is good, nothing is owed or in the socket but what the *)
(* one reader waits for.                                                    *)
LEMMA Owed ==
    ASSUME UiInv, ~failed
    PROVE  /\ \A y \in asked : at[y] = "asking"
           /\ wire # <<>> => /\ Len(wire) = 1 /\ asked = {}
                             /\ wire[1] = Head(wire) /\ Tail(wire) = <<>>
                             /\ wire[1].about \in Requests /\ at[wire[1].about] = "asking"
           /\ ~Locked => asked = {} /\ wire = <<>>
<1>1. wire \in Seq([about : Requests, good : BOOLEAN]) /\ asked \subseteq Requests
  BY DEF UiInv, TypeOK
<1>2. \A y \in asked \cup {wire[i].about : i \in DOMAIN wire} : at[y] = "asking"
  BY DEF UiInv, ChannelInv
<1>3. Len(wire) <= 1 /\ (wire # <<>> => asked = {})
  BY DEF UiInv, ChannelInv
<1>4. ASSUME wire # <<>>
      PROVE  /\ Len(wire) = 1 /\ asked = {}
             /\ wire[1] = Head(wire) /\ Tail(wire) = <<>>
             /\ wire[1].about \in Requests /\ at[wire[1].about] = "asking"
  <2>1. /\ Len(wire) = 1 /\ 1 \in DOMAIN wire
        /\ wire[1] \in [about : Requests, good : BOOLEAN]
        /\ wire[1] = Head(wire) /\ Tail(wire) = <<>>
    BY <1>1, <1>3, <1>4, AtMostOne
  <2> QED
    BY <1>2, <1>3, <1>4, <2>1
<1> QED
  BY <1>1, <1>2, <1>4 DEF Locked

LEMMA AskStep == ASSUME UiInv, NEW x \in Requests, Ask(x) PROVE UiInv'
<1>0. UNCHANGED <<script, req, reply, served, active, wire>> /\ ~Locked
  BY DEF Ask
<1>1. PICK to \in {"asking", "failed"} :
        /\ Advance(x, "queued", to)
        /\ \/ to = "asking" /\ ~failed /\ failed' = failed /\ asked' = asked \cup {x}
           \/ to = "failed" /\ failed' = TRUE /\ asked' = asked
  BY DEF Ask
<1>2. /\ at' \in [Requests -> {"unused", "sent", "queued", "asking", "answered", "failed"}]
      /\ at[x] = "queued" /\ at'[x] = to
      /\ \A y \in Requests : y # x => at'[y] = at[y]
      /\ \A y \in Requests : at'[y] = "unused" <=> at[y] = "unused"
  BY <1>1, AdvanceOK
<1>3. TypeOK'
  BY <1>0, <1>1, <1>2 DEF UiInv, TypeOK, script
<1>4. SlotInv'
  BY <1>0, <1>1, <1>2 DEF UiInv, SlotInv
<1>5. ChannelInv'
  <2>1. CASE to = "asking"
    <3>1. asked = {} /\ wire = <<>> /\ ~failed /\ ~failed' /\ asked' = {x} /\ wire' = <<>>
      BY <1>0, <1>1, <2>1, Owed
    <3>2. \A y \in Requests : at'[y] = "asking" => y = x
      BY <1>0, <1>2 DEF Locked
    <3>3. DOMAIN wire' = {} /\ Len(wire') = 0
      BY <3>1
    <3> QED
      BY <1>0, <1>2, <2>1, <3>1, <3>2, <3>3 DEF UiInv, ChannelInv
  <2>2. CASE to = "failed"
    BY <1>0, <1>1, <1>2, <2>2 DEF UiInv, ChannelInv, Locked
  <2> QED
    BY <2>1, <2>2
<1> QED
  BY <1>0, <1>2, <1>3, <1>4, <1>5, ScriptKept DEF UiInv

LEMMA ReadFrameStep == ASSUME UiInv, NEW x \in Requests, ReadFrame(x) PROVE UiInv'
<1>0. /\ UNCHANGED <<script, req, served, active, asked>>
      /\ wire # <<>> /\ wire' = Tail(wire) /\ at[x] = "asking"
  BY DEF ReadFrame
<1>1. PICK to \in {"answered", "failed"} :
        /\ Advance(x, "asking", to)
        /\ \/ /\ Matches(Head(wire), x) /\ failed' = failed
              /\ \/ to = "answered" /\ reply' = [reply EXCEPT ![x] = Head(wire).about]
                 \/ to = "failed" /\ reply' = reply
           \/ to = "failed" /\ failed' = TRUE /\ reply' = reply
  BY DEF ReadFrame
<1>2. /\ at' \in [Requests -> {"unused", "sent", "queued", "asking", "answered", "failed"}]
      /\ at'[x] = to
      /\ \A y \in Requests : y # x => at'[y] = at[y]
      /\ \A y \in Requests : at'[y] = "unused" <=> at[y] = "unused"
  BY <1>1, AdvanceOK
<1>3. ~failed
  BY <1>0 DEF UiInv, ChannelInv, Locked
<1>4. Head(wire).about = x /\ wire' = <<>> /\ asked' = {}
  BY <1>0, <1>3, Owed DEF UiInv, ChannelInv
<1>5. TypeOK'
  <2>1. wire' \in Seq([about : Requests, good : BOOLEAN])
    BY <1>4
  <2>2. reply' \in [Requests -> Requests \cup {None}]
    BY <1>1, <1>4 DEF UiInv, TypeOK
  <2>3. failed' \in BOOLEAN
    BY <1>1 DEF UiInv, TypeOK
  <2> QED
    BY <1>0, <1>2, <2>1, <2>2, <2>3 DEF UiInv, TypeOK, script
<1>6. SlotInv'
  BY <1>0, <1>1, <1>2 DEF UiInv, SlotInv
<1>7. ChannelInv'
  <2>1. \A y \in Requests : at'[y] # "asking"
    BY <1>0, <1>1, <1>2 DEF UiInv, ChannelInv
  <2>2. \A y \in Requests : at'[y] = "answered" => reply'[y] = y
    BY <1>0, <1>1, <1>2, <1>4 DEF UiInv, TypeOK, ChannelInv
  <2>3. DOMAIN wire' = {} /\ Len(wire') = 0
    BY <1>4
  <2> QED
    BY <1>4, <2>1, <2>2, <2>3 DEF ChannelInv, Locked
<1> QED
  BY <1>0, <1>2, <1>5, <1>6, <1>7, ScriptKept DEF UiInv

LEMMA ReadFailsStep == ASSUME UiInv, NEW x \in Requests, ReadFails(x) PROVE UiInv'
<1>0. /\ UNCHANGED <<script, req, reply, served, active, asked, wire>>
      /\ failed' = TRUE /\ Advance(x, "asking", "failed")
  BY DEF ReadFails
<1>2. /\ at' \in [Requests -> {"unused", "sent", "queued", "asking", "answered", "failed"}]
      /\ at[x] = "asking" /\ at'[x] = "failed"
      /\ \A y \in Requests : y # x => at'[y] = at[y]
      /\ \A y \in Requests : at'[y] = "unused" <=> at[y] = "unused"
  BY <1>0, AdvanceOK
<1>3. TypeOK'
  BY <1>0, <1>2 DEF UiInv, TypeOK, script
<1>4. SlotInv'
  BY <1>0, <1>2 DEF UiInv, SlotInv
<1>5. ChannelInv'
  BY <1>0, <1>2 DEF UiInv, ChannelInv, Locked
<1> QED
  BY <1>0, <1>2, <1>3, <1>4, <1>5, ScriptKept DEF UiInv

(* An answer is the one the reader waits for, as long as the channel is     *)
(* good; later nobody reads any more.                                       *)
LEMMA AnswerStep == ASSUME UiInv, NEW x \in Requests, Answer(x) PROVE UiInv'
<1>0. /\ UNCHANGED <<script, req, server, failed>>
      /\ x \in asked /\ asked' = asked \ {x}
  BY DEF Answer
<1>1. PICK good \in BOOLEAN : wire' = Append(wire, [about |-> x, good |-> good])
  BY DEF Answer
<1>2. TypeOK'
  <2>1. wire' \in Seq([about : Requests, good : BOOLEAN])
    BY <1>1 DEF UiInv, TypeOK
  <2> QED
    BY <1>0, <2>1 DEF UiInv, TypeOK, script, server
<1>3. SlotInv'
  BY <1>0 DEF UiInv, SlotInv, server
<1>4. ChannelInv'
  <2>1. CASE failed
    BY <1>0, <2>1 DEF UiInv, ChannelInv, Locked, server
  <2>2. CASE ~failed
    <3>1. wire = <<>> /\ asked' = {} /\ at[x] = "asking"
      BY <1>0, <2>2, Owed DEF UiInv, TypeOK, ChannelInv
    <3>2. wire' = <<[about |-> x, good |-> good]>>
      BY <1>1, <3>1
    <3>3. Len(wire') = 1 /\ \A i \in DOMAIN wire' : wire'[i].about = x
      BY <3>2
    <3> QED
      BY <1>0, <2>2, <3>1, <3>3 DEF UiInv, ChannelInv, Locked, server
  <2> QED
    BY <2>1, <2>2
<1> QED
  BY <1>0, <1>2, <1>3, <1>4, ScriptKept DEF UiInv, server
---------------------------------------------------------------------------
(* The broker script.                                                      *)

LEMMA SlotKept ==
    ASSUME UiInv, UNCHANGED <<served, active>>,
           \A x \in Requests : /\ at'[x] \in {"queued", "asking"} => at[x] \in {"queued", "asking"}
                               /\ at'[x] \in {"unused", "sent"} => at[x] \in {"unused", "sent"}
    PROVE  SlotInv'
BY DEF UiInv, SlotInv

LEMMA PostStep ==
    ASSUME UiInv, NEW x \in Requests, NEW f \in Iframes, NEW i \in Ids, Post(x, f, i)
    PROVE  UiInv'
<1> DEFINE p == PageOf[f]
           q == [frame |-> f, id |-> i]
<1>0. /\ at[x] = "unused" /\ pending[p][i] = None /\ counts[f] < MaxConcurrent
      /\ counts' = [counts EXCEPT ![f] = @ + 1]
      /\ pending' = [pending EXCEPT ![p][i] = x]
      /\ req' = [req EXCEPT ![x] = q]
      /\ at' = [at EXCEPT ![x] = "sent"]
      /\ UNCHANGED <<got, reply, served, active, channel>>
  BY DEF Post
<1>1. p \in Pages /\ q \in [frame : Iframes, id : Ids] /\ q # None /\ q.frame = f /\ q.id = i
  BY UiConstantsOK
<1> HIDE DEF p, q
<1>2. /\ at \in [Requests -> {"unused", "sent", "queued", "asking", "answered", "failed"}]
      /\ req \in [Requests -> [frame : Iframes, id : Ids] \cup {None}]
      /\ pending \in [Pages -> [Ids -> Requests \cup {None}]]
      /\ counts \in [Iframes -> Nat]
  BY DEF UiInv, TypeOK
<1>3. /\ at'[x] = "sent" /\ req'[x] = q /\ pending'[p][i] = x
      /\ \A y \in Requests : y # x => at'[y] = at[y] /\ req'[y] = req[y]
      /\ \A r \in Pages, j \in Ids : r # p \/ j # i => pending'[r][j] = pending[r][j]
  BY <1>0, <1>1, <1>2
<1>4. Page(x)' = p /\ \A y \in Requests : y # x => Page(y)' = Page(y)
  BY <1>1, <1>3 DEF Page, p
<1>5. TypeOK'
  <2>1. counts' \in [Iframes -> Nat] /\ pending' \in [Pages -> [Ids -> Requests \cup {None}]]
    BY <1>0, <1>1, <1>2
  <2>2. /\ at' \in [Requests -> {"unused", "sent", "queued", "asking", "answered", "failed"}]
        /\ req' \in [Requests -> [frame : Iframes, id : Ids] \cup {None}]
    BY <1>0, <1>1, <1>2
  <2> QED
    BY <1>0, <2>1, <2>2 DEF UiInv, TypeOK, channel
<1>6. ~Waiting(x) /\ Waiting(x)'
  BY <1>0, <1>1, <1>3, <1>4 DEF Waiting
<1>7. \A y \in Requests : y # x => Waiting(y)' = Waiting(y)
  <2> SUFFICES ASSUME NEW y \in Requests, y # x PROVE Waiting(y)' = Waiting(y)
    OBVIOUS
  <2>1. CASE at[y] = "unused"
    BY <1>3, <2>1 DEF Waiting
  <2>2. CASE at[y] # "unused"
    <3>1. Page(y) \in Pages /\ req[y].id \in Ids
      BY <2>2, RequestOK
    <3>2. CASE Page(y) = p /\ req[y].id = i
      BY <1>0, <1>3, <1>4, <2>2, <3>2, RequestsFinite DEF Waiting
    <3>3. CASE Page(y) # p \/ req[y].id # i
      BY <1>3, <1>4, <2>2, <3>1, <3>3 DEF Waiting
    <3> QED
      BY <3>2, <3>3
  <2> QED
    BY <2>1, <2>2
<1>8. ASSUME NEW g \in Iframes
      PROVE  counts'[g] <= MaxConcurrent /\ counts'[g] = Cardinality(Open(g)')
  <2>1. counts[g] <= MaxConcurrent /\ counts[g] = Cardinality(Open(g)) /\ counts[g] \in Nat
    BY <1>2 DEF UiInv, ScriptInv, Open
  <2>2. IsFiniteSet(Open(g)) /\ x \notin Open(g)
    BY <1>6, OpenIsFinite DEF Open
  <2>3. CASE g = f
    <3>1. Open(g)' = Open(g) \cup {x}
      BY <1>1, <1>3, <1>6, <1>7, <2>3 DEF Open
    <3>2. Cardinality(Open(g)') = Cardinality(Open(g)) + 1
      BY <2>2, <3>1, FS_AddElement
    <3>3. counts'[g] = counts[g] + 1
      BY <1>0, <1>2, <2>3
    <3> QED
      BY <1>0, <2>1, <2>3, <3>2, <3>3, UiConstantsOK
  <2>4. CASE g # f
    <3>1. Open(g)' = Open(g)
      BY <1>1, <1>3, <1>6, <1>7, <2>4 DEF Open
    <3>2. counts'[g] = counts[g]
      BY <1>0, <1>2, <2>4
    <3> QED
      BY <2>1, <3>1, <3>2
  <2> QED
    BY <2>3, <2>4
<1>9. ASSUME NEW r \in Pages, NEW j \in Ids, NEW y, y = pending'[r][j], y # None
      PROVE  req'[y] # None /\ Page(y)' = r /\ req'[y].id = j /\ got'[y] = None
  <2>1. CASE r = p /\ j = i
    BY <1>0, <1>1, <1>3, <1>4, <1>9, <2>1 DEF UiInv, ScriptInv
  <2>2. CASE r # p \/ j # i
    <3>1. y = pending[r][j] /\ y \in Requests
      BY <1>2, <1>3, <1>9, <2>2
    <3>2. req[y] # None /\ Page(y) = r /\ req[y].id = j /\ got[y] = None
      BY <1>9, <3>1 DEF UiInv, ScriptInv
    <3>3. y # x
      BY <1>0, <3>2 DEF UiInv, ScriptInv
    <3> QED
      BY <1>0, <1>3, <1>4, <3>1, <3>2, <3>3
  <2> QED
    BY <2>1, <2>2
<1>10. ScriptInv'
  <2>1. \A y \in Requests : at'[y] = "unused" => req'[y] = None /\ got'[y] = None
    BY <1>0, <1>3 DEF UiInv, ScriptInv
  <2> QED
    BY <1>8, <1>9, <2>1 DEF ScriptInv, Open
<1>11. SlotInv'
  BY <1>0, <1>3, SlotKept
<1>12. ChannelInv'
  BY <1>0, <1>3, ChannelKept
<1>13. AnswersBelongToRequests'
  BY <1>0 DEF UiInv, AnswersBelongToRequests
<1>14. \A y \in Requests : at'[y] # "unused" => req'[y] # None
  BY <1>1, <1>3 DEF UiInv
<1> QED
  BY <1>5, <1>10, <1>11, <1>12, <1>13, <1>14 DEF UiInv

(* A request that is settled was the one pending under its id, and counted. *)
LEMMA FinishStep ==
    ASSUME UiInv, NEW x \in Requests, NEW result \in {x, Failure}, Waiting(x), Finish(x, result)
    PROVE  UiInv'
<1> DEFINE p == Page(x)
           i == req[x].id
           f == req[x].frame
<1>0. /\ pending' = [pending EXCEPT ![p][i] = None]
      /\ counts' = [counts EXCEPT ![f] = IF @ = 0 THEN 0 ELSE @ - 1]
      /\ got' = [got EXCEPT ![x] = result]
      /\ UNCHANGED <<req, server, channel>>
      /\ at[x] # "unused" /\ pending[p][i] = x
  BY DEF Finish, Waiting
<1>1. p \in Pages /\ i \in Ids /\ f \in Iframes /\ req[x].frame = f
  BY <1>0, RequestOK
<1>2. /\ pending \in [Pages -> [Ids -> Requests \cup {None}]]
      /\ counts \in [Iframes -> Nat]
      /\ got \in [Requests -> Requests \cup {None, Failure}]
  BY DEF UiInv, TypeOK
<1>3. /\ at' = at /\ req' = req /\ reply' = reply /\ served' = served /\ active' = active
      /\ \A y : Page(y)' = Page(y)
  BY <1>0 DEF server, Page
<1>4. Page(x) = p /\ req[x].id = i
  OBVIOUS
<1> HIDE DEF p, i, f
<1>5. /\ pending'[p][i] = None /\ got'[x] = result
      /\ \A y \in Requests : y # x => got'[y] = got[y]
      /\ \A r \in Pages, j \in Ids : r # p \/ j # i => pending'[r][j] = pending[r][j]
  BY <1>0, <1>1, <1>2
<1>6. TypeOK'
  <2>1. counts' \in [Iframes -> Nat]
    <3>1. (IF counts[f] = 0 THEN 0 ELSE counts[f] - 1) \in Nat
      BY <1>1, <1>2
    <3> QED
      BY <1>0, <1>1, <1>2, <3>1
  <2>2. pending' \in [Pages -> [Ids -> Requests \cup {None}]]
    BY <1>0, <1>1, <1>2
  <2>3. got' \in [Requests -> Requests \cup {None, Failure}]
    BY <1>0, <1>2
  <2> QED
    BY <1>0, <1>3, <2>1, <2>2, <2>3 DEF UiInv, TypeOK, channel
<1>7. ~Waiting(x)'
  BY <1>3, <1>4, <1>5, RequestsFinite DEF Waiting
<1>8. \A y \in Requests : y # x => Waiting(y)' = Waiting(y)
  <2> SUFFICES ASSUME NEW y \in Requests, y # x PROVE Waiting(y)' = Waiting(y)
    OBVIOUS
  <2>1. CASE at[y] = "unused"
    BY <1>3, <2>1 DEF Waiting
  <2>2. CASE at[y] # "unused"
    <3>1. Page(y) \in Pages /\ req[y].id \in Ids
      BY <2>2, RequestOK
    <3>2. CASE Page(y) = p /\ req[y].id = i
      BY <1>0, <1>3, <1>5, <2>2, <3>2, RequestsFinite DEF Waiting
    <3>3. CASE Page(y) # p \/ req[y].id # i
      BY <1>3, <1>5, <2>2, <3>1, <3>3 DEF Waiting
    <3> QED
      BY <3>2, <3>3
  <2> QED
    BY <2>1, <2>2
<1>9. ASSUME NEW g \in Iframes
      PROVE  counts'[g] <= MaxConcurrent /\ counts'[g] = Cardinality(Open(g)')
  <2>1. counts[g] <= MaxConcurrent /\ counts[g] = Cardinality(Open(g)) /\ counts[g] \in Nat
    BY <1>2 DEF UiInv, ScriptInv, Open
  <2>2. CASE g = f
    <3>1. Open(g)' = Open(g) \ {x} /\ x \in Open(g)
      BY <1>1, <1>3, <1>7, <1>8, <2>2 DEF Open
    <3>2. /\ IsFiniteSet(Open(g)) /\ IsFiniteSet(Open(g)')
          /\ Cardinality(Open(g)') = Cardinality(Open(g)) - 1
      BY <3>1, OpenIsFinite, FS_RemoveElement
    <3>3. Cardinality(Open(g)') \in Nat
      BY <3>2, FS_CardinalityType
    <3>4. counts'[g] = counts[g] - 1
      BY <1>0, <1>2, <2>1, <2>2, <3>2, <3>3
    <3> QED
      BY <2>1, <3>2, <3>4, UiConstantsOK
  <2>3. CASE g # f
    <3>1. Open(g)' = Open(g)
      BY <1>1, <1>3, <1>7, <1>8, <2>3 DEF Open
    <3>2. counts'[g] = counts[g]
      BY <1>0, <1>2, <2>3
    <3> QED
      BY <2>1, <3>1, <3>2
  <2> QED
    BY <2>2, <2>3
<1>10. ASSUME NEW r \in Pages, NEW j \in Ids, NEW y, y = pending'[r][j], y # None
       PROVE  req'[y] # None /\ Page(y)' = r /\ req'[y].id = j /\ got'[y] = None
  <2>1. r # p \/ j # i
    BY <1>5, <1>10
  <2>2. y = pending[r][j] /\ y \in Requests
    BY <1>2, <1>5, <1>10, <2>1
  <2>3. req[y] # None /\ Page(y) = r /\ req[y].id = j /\ got[y] = None
    BY <1>10, <2>2 DEF UiInv, ScriptInv
  <2>4. y # x
    BY <1>4, <2>1, <2>3
  <2> QED
    BY <1>3, <1>5, <2>2, <2>3, <2>4
<1>11. ScriptInv'
  <2>1. \A y \in Requests : at'[y] = "unused" => req'[y] = None /\ got'[y] = None
    BY <1>0, <1>3, <1>5 DEF UiInv, ScriptInv
  <2> QED
    BY <1>9, <1>10, <2>1 DEF ScriptInv, Open
<1>12. SlotInv'
  BY <1>3, SlotKept
<1>13. ChannelInv'
  BY <1>0, <1>3, ChannelKept
<1>14. AnswersBelongToRequests'
  BY <1>5 DEF UiInv, AnswersBelongToRequests
<1>15. \A y \in Requests : at'[y] # "unused" => req'[y] # None
  BY <1>3 DEF UiInv
<1> QED
  BY <1>6, <1>11, <1>12, <1>13, <1>14, <1>15 DEF UiInv

LEMMA SettleStep == ASSUME UiInv, NEW x \in Requests, Settle(x) PROVE UiInv'
<1>1. PICK result \in {x, Failure} : Waiting(x) /\ Finish(x, result)
  BY DEF Settle, UiInv, ChannelInv
<1> QED
  BY <1>1, FinishStep

LEMMA ReloadStep == ASSUME UiInv, NEW p \in Pages, Reload(p) PROVE UiInv'
<1>0. /\ pending' = [pending EXCEPT ![p] = [i \in Ids |-> None]]
      /\ counts' = [f \in Iframes |-> IF PageOf[f] = p THEN 0 ELSE counts[f]]
      /\ UNCHANGED <<got, req, server, channel>>
  BY DEF Reload
<1>1. /\ pending \in [Pages -> [Ids -> Requests \cup {None}]]
      /\ counts \in [Iframes -> Nat]
  BY DEF UiInv, TypeOK
<1>2. /\ at' = at /\ req' = req /\ got' = got
      /\ reply' = reply /\ served' = served /\ active' = active
      /\ \A y : Page(y)' = Page(y)
  BY <1>0 DEF server, Page
<1>3. \A r \in Pages, j \in Ids : pending'[r][j] = IF r = p THEN None ELSE pending[r][j]
  BY <1>0, <1>1
<1>4. TypeOK'
  <2>1. counts' \in [Iframes -> Nat] /\ pending' \in [Pages -> [Ids -> Requests \cup {None}]]
    BY <1>0, <1>1
  <2> QED
    BY <1>0, <1>2, <2>1 DEF UiInv, TypeOK, channel
<1>5. ASSUME NEW y \in Requests PROVE Waiting(y)' <=> Waiting(y) /\ Page(y) # p
  <2>1. CASE at[y] = "unused"
    BY <1>2, <2>1 DEF Waiting
  <2>2. CASE at[y] # "unused"
    <3>1. Page(y) \in Pages /\ req[y].id \in Ids
      BY <2>2, RequestOK
    <3> QED
      BY <1>2, <1>3, <2>2, <3>1, RequestsFinite DEF Waiting
  <2> QED
    BY <2>1, <2>2
<1>6. ASSUME NEW g \in Iframes
      PROVE  counts'[g] <= MaxConcurrent /\ counts'[g] = Cardinality(Open(g)')
  <2>1. counts[g] <= MaxConcurrent /\ counts[g] = Cardinality(Open(g))
    BY DEF UiInv, ScriptInv, Open
  <2>2. CASE PageOf[g] = p
    <3>1. Open(g)' = {}
      BY <1>2, <1>5, <2>2 DEF Open, Page
    <3>2. Cardinality(Open(g)') = 0
      BY <3>1, FS_EmptySet
    <3> QED
      BY <1>0, <2>2, <3>2, UiConstantsOK
  <2>3. CASE PageOf[g] # p
    <3>1. Open(g)' = Open(g)
      BY <1>2, <1>5, <2>3 DEF Open, Page
    <3> QED
      BY <1>0, <2>1, <2>3, <3>1
  <2> QED
    BY <2>2, <2>3
<1>7. ScriptInv'
  <2>1. ASSUME NEW r \in Pages, NEW j \in Ids, NEW y, y = pending'[r][j], y # None
        PROVE  req'[y] # None /\ Page(y)' = r /\ req'[y].id = j /\ got'[y] = None
    BY <1>2, <1>3, <2>1 DEF UiInv, ScriptInv
  <2>2. \A y \in Requests : at'[y] = "unused" => req'[y] = None /\ got'[y] = None
    BY <1>2 DEF UiInv, ScriptInv
  <2> QED
    BY <1>6, <2>1, <2>2 DEF ScriptInv, Open
<1>8. SlotInv'
  BY <1>2, SlotKept
<1>9. ChannelInv'
  BY <1>0, <1>2, ChannelKept
<1> QED
  BY <1>2, <1>4, <1>7, <1>8, <1>9 DEF UiInv, AnswersBelongToRequests

---------------------------------------------------------------------------
(* The host.                                                               *)

LEMMA ReadingStep ==
    ASSUME UiInv, Reading
    PROVE  /\ UiInv'
           /\ \A x \in Requests :
                at'[x] # "unused" =>
                    \/ at[x] # "unused" /\ req'[x] = req[x]
                    \/ ExtOf[req'[x].frame] \in registry
<1> DEFINE Kept == req' = req /\ \A y \in Requests : at'[y] = "unused" <=> at[y] = "unused"
<1> USE DEF UiInv
<1>1. ASSUME NEW x \in Requests, NEW f \in Iframes, NEW i \in Ids, PostRead(x, f, i)
      PROVE  /\ UiInv'
             /\ \A y \in Requests :
                  at'[y] # "unused" =>
                      \/ at[y] # "unused" /\ req'[y] = req[y]
                      \/ ExtOf[req'[y].frame] \in registry
  <2>1. Post(x, f, i) /\ ExtOf[f] \in registry
    BY <1>1 DEF PostRead
  <2>2. UiInv'
    BY <2>1, PostStep
  <2>3. \A y \in Requests : IF y = x THEN req'[y].frame = f ELSE at'[y] = at[y] /\ req'[y] = req[y]
    BY <2>1 DEF Post, TypeOK
  <2> QED
    BY <2>1, <2>2, <2>3
<1>2. ASSUME NEW x \in Requests,
             Settle(x) \/ Accept(x) \/ BadRequest(x) \/ AskProvider(x) \/ ReadFrame(x)
             \/ ReadFails(x) \/ EndConnection(x) \/ Answer(x)
      PROVE  UiInv' /\ Kept
  <2>1. CASE Settle(x)
    BY <2>1, SettleStep DEF Settle, Finish, server
  <2>2. CASE Accept(x)
    BY <2>2, AcceptStep, AdvanceOK DEF Accept
  <2>3. CASE BadRequest(x)
    BY <2>3, BadRequestStep, AdvanceOK DEF BadRequest
  <2>4. CASE AskProvider(x)
    BY <2>4, AskStep, AdvanceOK DEF AskProvider, Ask
  <2>5. CASE ReadFrame(x)
    BY <2>5, ReadFrameStep, AdvanceOK DEF ReadFrame
  <2>6. CASE ReadFails(x)
    BY <2>6, ReadFailsStep, AdvanceOK DEF ReadFails
  <2>7. CASE EndConnection(x)
    BY <2>7, EndConnectionStep DEF EndConnection
  <2>8. CASE Answer(x)
    BY <2>8, AnswerStep DEF Answer, server
  <2> QED
    BY <1>2, <2>1, <2>2, <2>3, <2>4, <2>5, <2>6, <2>7, <2>8
<1>3. ASSUME NEW p \in Pages, Reload(p) PROVE UiInv' /\ Kept
  BY <1>3, ReloadStep DEF Reload, server
<1> QED
  BY <1>1, <1>2, <1>3 DEF Reading

LEMMA ServingStep == ASSUME ExtInv, Serving(Reading) PROVE ExtInv'
<1>0. /\ phase = "serving" /\ Reading
      /\ phase' = phase /\ registry' = registry /\ sockets' = sockets /\ before' = before
      /\ peer' = peer /\ disk' = disk /\ load' = load /\ changes' = changes /\ quota' = quota
  BY DEF Serving, hostVars
<1>1. /\ UiInv'
      /\ \A x \in Requests :
           at'[x] # "unused" => \/ at[x] # "unused" /\ req'[x] = req[x]
                                \/ ExtOf[req'[x].frame] \in registry
  BY <1>0, ReadingStep DEF ExtInv
<1>2. ExtTypeOK' /\ StartInv' /\ AssetsAreNamed'
  BY <1>0 DEF ExtInv, ExtTypeOK, StartInv, AssetsAreNamed
<1>3. \A l \in Loads : load'[l].step # "idle" =>
         phase' = "serving" /\ load'[l].ext \in registry' /\ LoadInv(load[l])'
  BY <1>0 DEF ExtInv, LoadInv, Named, Opens, Canonical
<1> QED
  BY <1>0, <1>1, <1>2, <1>3 DEF ExtInv

(* Steps without a request leave the read path as it is.                    *)
LEMMA ReadsKept == ASSUME UiInv, UNCHANGED vars PROVE UiInv'
BY DEF UiInv, TypeOK, ScriptInv, SlotInv, ChannelInv, AnswersBelongToRequests, Locked, Waiting,
       Page, vars, script, server, channel

(* Nobody is served before the start has ended.                             *)
LEMMA StartupStep == ASSUME ExtInv, Startup PROVE ExtInv'
<1> USE DEF ExtInv
<1>1. /\ phase # "serving"
      /\ UNCHANGED <<vars, sockets, disk, load, changes, quota>>
  BY DEF Startup, ParseOptions, CheckStore, LoadRegistry, CheckSocket, ConnectProvider,
         RecheckSocket, ReadHello, BindListeners, Refuse, Go
<1>2. UiInv'
  BY <1>1, ReadsKept
<1>3. /\ \A x \in Requests : at'[x] = "unused"
      /\ \A l \in Loads : load'[l].step = "idle"
  BY <1>1 DEF vars, server
<1>4. ExtTypeOK' /\ StartInv'
  <2>1. Len(sockets) \in Nat \ {0} /\ Len(sockets) \in 0..Len(sockets)
    BY EmptySeq DEF ExtTypeOK
  <2> USE <1>1, <2>1 DEF ExtTypeOK, StartInv, Phases, Go
  <2>10. CASE ParseOptions
    BY <2>10 DEF ParseOptions
  <2>2. CASE CheckStore
    BY <2>2 DEF CheckStore
  <2>3. CASE LoadRegistry
    BY <2>3 DEF LoadRegistry, Dirs
  <2>4. CASE CheckSocket
    BY <2>4 DEF CheckSocket, OwnerOnly
  <2>5. CASE ConnectProvider
    BY <2>5 DEF ConnectProvider
  <2>6. CASE RecheckSocket
    BY <2>6 DEF RecheckSocket
  <2>7. CASE ReadHello
    BY <2>7 DEF ReadHello
  <2>8. CASE BindListeners
    BY <2>8 DEF BindListeners
  <2>9. CASE Refuse
    BY <2>9 DEF Refuse
  <2> QED
    BY <2>2, <2>3, <2>4, <2>5, <2>6, <2>7, <2>8, <2>9, <2>10 DEF Startup
<1> QED
  BY <1>1, <1>2, <1>3, <1>4 DEF AssetsAreNamed

LEMMA RestartStep == ASSUME ExtInv, RestartProvider PROVE ExtInv'
<1> USE DEF ExtInv
<1>0. UNCHANGED <<vars, phase, registry, before, peer, disk, load, changes, quota>>
  BY DEF RestartProvider
<1>1. PICK safe \in BOOLEAN : sockets' = Append(sockets, safe)
  BY DEF RestartProvider
<1>2. UiInv'
  BY <1>0, ReadsKept
<1>3. /\ sockets' \in Seq(BOOLEAN) /\ Len(sockets') = Len(sockets) + 1 /\ Len(sockets) \in Nat
      /\ \A i \in 1..Len(sockets) : sockets'[i] = sockets[i]
  BY <1>1 DEF ExtTypeOK
<1>4. sockets' # <<>>
  BY <1>3
<1>5. ExtTypeOK'
  BY <1>0, <1>3, <1>4 DEF ExtTypeOK
<1>6. StartInv'
  BY <1>0, <1>3 DEF ExtTypeOK, StartInv
<1>7. \A l \in Loads : load'[l].step # "idle" =>
         phase' = "serving" /\ load'[l].ext \in registry' /\ LoadInv(load[l])'
  BY <1>0 DEF LoadInv, Named, Opens, Canonical
<1> QED
  BY <1>0, <1>2, <1>5, <1>6, <1>7 DEF AssetsAreNamed, vars, server

---------------------------------------------------------------------------
(* The asset server.                                                       *)

(* A path leads to a place; what it names is a file's number.               *)
LEMMA CanonicalOK ==
    ASSUME NEW d \in [file : [Places -> Nat], link : [Links -> Places]], NEW e, NEW x \in Paths
    PROVE  /\ Canonical(d, x) \in Places
           /\ Named(d, e, x) \subseteq Nat
           /\ Named(d, e, x) \subseteq {d.file[Canonical(d, x)]}
           /\ Opens(d, e, x) => Named(d, e, x) = {d.file[Canonical(d, x)]}
<1>1. Canonical(d, x) \in Places
  BY DEF Canonical, Paths
<1> QED
  BY <1>1 DEF Named

LEMMA LoadStepOK ==
    ASSUME ExtInv, NEW l \in Loads, NEW state \in LoadRecords, LoadStep(l, state),
           state.step # "idle" => state.ext \in registry /\ LoadInv(state),
           state.step = "answered" => state.file \in state.named
    PROVE  ExtInv'
<1> USE DEF ExtInv
<1>0. /\ phase = "serving" /\ load' = [load EXCEPT ![l] = state]
      /\ UNCHANGED <<vars, phase, registry, sockets, before, peer, disk, changes, quota>>
  BY DEF LoadStep
<1>1. UiInv'
  BY <1>0, ReadsKept
<1>2. load' \in [Loads -> LoadRecords] /\ \A m \in Loads : load'[m] = IF m = l THEN state ELSE load[m]
  BY <1>0 DEF ExtTypeOK
<1>3. ExtTypeOK' /\ StartInv' /\ AssetsAreNamed'
  BY <1>0, <1>2 DEF ExtTypeOK, StartInv, AssetsAreNamed
<1>4. ASSUME NEW m \in Loads, load'[m].step # "idle"
      PROVE  phase' = "serving" /\ load'[m].ext \in registry' /\ LoadInv(load[m])'
  <2>1. load'[m].ext \in registry /\ LoadInv(load'[m])
    BY <1>2, <1>4
  <2> QED
    BY <1>0, <2>1 DEF LoadInv, Named, Opens, Canonical
<1> QED
  BY <1>0, <1>1, <1>3, <1>4 DEF vars, server

LEMMA LoadingStep == ASSUME ExtInv, Loading PROVE ExtInv'
<1> USE DEF ExtInv
<1>0. PICK l \in Loads :
        ResolveAsset(l) \/ OpenAsset(l) \/ ResolveAgain(l) \/ CompareFile(l) \/ EndLoad(l)
  BY DEF Loading
<1>1. /\ disk \in [file : [Places -> Nat], link : [Links -> Places]]
      /\ load[l] \in LoadRecords
      /\ registry \subseteq Extensions
      /\ changes \in Nat /\ Cardinality(Places) \in Nat
      /\ \A p \in Places : disk.file[p] \in Nat /\ disk.file[p] <= Cardinality(Places) + changes
  BY ExtConstantsOK, FS_CardinalityType DEF ExtTypeOK
<1>2. CASE ResolveAsset(l)
  <2>1. PICK e \in registry, x \in Typed :
          LoadStep(l, [step |-> "resolved", ext |-> e, path |-> x, found |-> Canonical(disk, x),
                       file |-> 0, named |-> Named(disk, e, x)])
    BY <1>2 DEF ResolveAsset
  <2> DEFINE k == [step |-> "resolved", ext |-> e, path |-> x, found |-> Canonical(disk, x),
                   file |-> 0, named |-> Named(disk, e, x)]
  <2>2. LoadStep(l, k)
    BY <2>1
  <2>3. x \in Paths
    BY ExtConstantsOK
  <2>4. Canonical(disk, x) \in Places /\ Named(disk, e, x) \subseteq Nat
    BY <1>1, <2>3, CanonicalOK
  <2>5. k \in LoadRecords
    BY <1>1, <2>3, <2>4 DEF LoadRecords
  <2>6. k.ext \in registry /\ LoadInv(k)
    BY <2>3, <2>4 DEF LoadInv
  <2>7. k.step # "answered"
    OBVIOUS
  <2> HIDE DEF k
  <2> QED
    BY <2>2, <2>5, <2>6, <2>7, LoadStepOK
<1>3. CASE OpenAsset(l)
  <2> DEFINE n == disk.file[load[l].found]
             k == [load[l] EXCEPT !.step = "opened", !.file = n]
  <2>1. load[l].step = "resolved" /\ disk.file[load[l].found] # 0 /\ LoadStep(l, k)
    BY <1>3 DEF OpenAsset
  <2>2. load[l].ext \in registry /\ LoadInv(load[l])
    BY <2>1
  <2>3. /\ disk.file[load[l].found] \in Nat
        /\ disk.file[load[l].found] \in 1..(Cardinality(Places) + changes)
    BY <1>1, <2>1, <2>2 DEF LoadInv
  <2>6. n \in Nat
    BY <2>3
  <2> HIDE DEF n
  <2>4. /\ k \in LoadRecords /\ k.step = "opened" /\ k.ext = load[l].ext /\ k.path = load[l].path
        /\ k.found = load[l].found /\ k.named = load[l].named /\ k.file = n
    BY <1>1, <2>6 DEF LoadRecords
  <2> HIDE DEF k
  <2>5. LoadInv(k)
    BY <2>1, <2>2, <2>3, <2>4 DEF LoadInv, n
  <2> QED
    BY <2>1, <2>2, <2>4, <2>5, LoadStepOK
<1>4. CASE ResolveAgain(l)
  <2> DEFINE c == Canonical(disk, load[l].path)
             k == [load[l] EXCEPT !.step = "found", !.found = c]
  <2>1. load[l].step = "opened" /\ Opens(disk, load[l].ext, load[l].path) /\ LoadStep(l, k)
    BY <1>4 DEF ResolveAgain
  <2>2. load[l].ext \in registry /\ LoadInv(load[l])
    BY <2>1
  <2>3. c \in Places /\ Named(disk, load[l].ext, load[l].path) = {disk.file[c]}
    BY <1>1, <2>1, <2>2, CanonicalOK DEF LoadInv
  <2> HIDE DEF c
  <2>4. /\ k \in LoadRecords /\ k.step = "found" /\ k.ext = load[l].ext /\ k.path = load[l].path
        /\ k.found = c /\ k.named = load[l].named /\ k.file = load[l].file
    BY <1>1, <2>3 DEF LoadRecords
  <2> HIDE DEF k
  <2>5. LoadInv(k)
    BY <2>1, <2>2, <2>3, <2>4 DEF LoadInv
  <2> QED
    BY <2>1, <2>2, <2>4, <2>5, LoadStepOK
<1>5. CASE CompareFile(l)
  <2> DEFINE k == [load[l] EXCEPT !.step = "answered"]
  <2>1. load[l].step = "found" /\ disk.file[load[l].found] = load[l].file /\ LoadStep(l, k)
    BY <1>5 DEF CompareFile
  <2>2. load[l].ext \in registry /\ LoadInv(load[l])
    BY <2>1
  <2>3. /\ k \in LoadRecords /\ k.step = "answered" /\ k.ext = load[l].ext /\ k.path = load[l].path
        /\ k.found = load[l].found /\ k.named = load[l].named /\ k.file = load[l].file
    BY <1>1 DEF LoadRecords
  <2> HIDE DEF k
  <2>4. LoadInv(k) /\ k.file \in k.named
    BY <2>1, <2>2, <2>3 DEF LoadInv
  <2> QED
    BY <2>1, <2>2, <2>3, <2>4, LoadStepOK
<1>6. CASE EndLoad(l)
  <2>1. Idle \in LoadRecords /\ Idle.step = "idle"
    BY DEF Idle, LoadRecords
  <2> QED
    BY <1>6, <2>1, LoadStepOK DEF EndLoad
<1> QED
  BY <1>0, <1>2, <1>3, <1>4, <1>5, <1>6

(* A changed file has a number that no request has met, so that a file that *)
(* was opened and is found again has not been replaced.                     *)
LEMMA ChangeStep == ASSUME ExtInv, ChangeExtension PROVE ExtInv'
<1> USE DEF ExtInv
<1> DEFINE N == Cardinality(Places)
<1>0. /\ changes' = changes + 1
      /\ load' = [l \in Loads |->
                    IF load[l].step = "idle" THEN Idle
                    ELSE [load[l] EXCEPT
                             !.named = @ \cup Named(disk', load[l].ext, load[l].path)]]
      /\ UNCHANGED <<vars, phase, registry, sockets, before, peer, quota>>
  BY DEF ChangeExtension
<1>1. /\ disk \in [file : [Places -> Nat], link : [Links -> Places]]
      /\ load \in [Loads -> LoadRecords]
      /\ changes \in Nat /\ N \in Nat
      /\ \A p \in Places : disk.file[p] \in Nat /\ disk.file[p] <= N + changes
  BY ExtConstantsOK, FS_CardinalityType DEF ExtTypeOK
<1> HIDE DEF N
<1>2. /\ disk' \in [file : [Places -> Nat], link : [Links -> Places]]
      /\ \A p \in Places : disk'.file[p] \in {disk.file[p], 0, N + changes'}
  <2>1. CASE \E p \in Places, n \in {0, N + changes'} : disk' = [disk EXCEPT !.file[p] = n]
    <3>1. PICK p \in Places, n \in {0, N + changes'} : disk' = [disk EXCEPT !.file[p] = n]
      BY <2>1
    <3>2. n \in Nat
      BY <1>0, <1>1
    <3>3. disk'.file = [disk.file EXCEPT ![p] = n] /\ disk'.link = disk.link
      BY <1>1, <3>1
    <3>4. disk' = [file |-> disk'.file, link |-> disk'.link]
      BY <1>1, <3>1
    <3>5. disk'.file \in [Places -> Nat]
      BY <1>1, <3>2, <3>3
    <3> QED
      BY <1>1, <3>1, <3>3, <3>4, <3>5
  <2>2. CASE \E x \in Links, p \in Places : disk' = [disk EXCEPT !.link[x] = p]
    <3>1. PICK x \in Links, p \in Places : disk' = [disk EXCEPT !.link[x] = p]
      BY <2>2
    <3>2. disk'.link = [disk.link EXCEPT ![x] = p] /\ disk'.file = disk.file
      BY <1>1, <3>1
    <3>3. disk' = [file |-> disk'.file, link |-> disk'.link]
      BY <1>1, <3>1
    <3>4. disk'.link \in [Links -> Places]
      BY <1>1, <3>2
    <3> QED
      BY <1>1, <3>2, <3>3, <3>4
  <2> QED
    BY <2>1, <2>2 DEF ChangeExtension, N
<1>3. \A p \in Places : disk'.file[p] <= N + changes'
  BY <1>0, <1>1, <1>2
<1>4. UiInv'
  BY <1>0, ReadsKept
<1>5. ASSUME NEW l \in Loads
      PROVE  /\ load'[l] \in LoadRecords
             /\ load'[l].step # "idle" => load'[l].ext = load[l].ext /\ LoadInv(load[l])'
             /\ load'[l].step = load[l].step
             /\ load'[l].file = load[l].file \/ load[l].step = "idle"
             /\ load[l].step # "idle" => load[l].named \subseteq load'[l].named
  <2>1. CASE load[l].step = "idle"
    BY <1>0, <2>1 DEF Idle, LoadRecords
  <2>2. CASE load[l].step # "idle"
    <3> DEFINE k == load[l]
               new == Named(disk', k.ext, k.path)
    <3>1. LoadInv(k) /\ k \in LoadRecords /\ k.path \in Paths
      BY <1>1, <2>2 DEF LoadInv
    <3>2. new \subseteq Nat
      BY <1>2, <3>1, CanonicalOK
    <3>3. load'[l] = [k EXCEPT !.named = @ \cup new]
      BY <1>0, <2>2
    <3> HIDE DEF k, new
    <3>4. /\ load'[l] \in LoadRecords
          /\ load'[l].step = k.step /\ load'[l].ext = k.ext /\ load'[l].path = k.path
          /\ load'[l].found = k.found /\ load'[l].file = k.file
          /\ load'[l].named = k.named \cup new
      BY <3>1, <3>2, <3>3 DEF LoadRecords
    <3>5. Named(disk', load'[l].ext, load'[l].path) \subseteq load'[l].named
      BY <3>4 DEF new
    <3>6. k.step \in {"opened", "found", "answered"} => k.file \in 1..(N + changes')
      BY <1>0, <1>1, <3>1 DEF LoadInv, N
    <3>7. k.step = "found" /\ disk'.file[k.found] = k.file => k.file \in k.named
      BY <1>0, <1>1, <1>2, <3>1 DEF LoadInv, N
    <3>8. LoadInv(load[l])'
      <4>1. load'[l].path \in Paths /\ load'[l].found \in Places
        BY <3>1, <3>4 DEF LoadInv
      <4>2. Named(disk, load[l].ext, load[l].path)' \subseteq load'[l].named
        BY <3>5 DEF Named, Opens, Canonical
      <4> QED
        BY <3>4, <3>6, <3>7, <4>1, <4>2 DEF LoadInv, N
    <3> QED
      BY <3>4, <3>8 DEF k
  <2> QED
    BY <2>1, <2>2
<1>6. ExtTypeOK'
  <2>1. load' \in [Loads -> LoadRecords]
    BY <1>0, <1>5
  <2> QED
    BY <1>0, <1>1, <1>2, <2>1 DEF ExtTypeOK
<1>7. AssetsAreNamed' /\ StartInv'
  BY <1>0, <1>5 DEF AssetsAreNamed, StartInv
<1> QED
  BY <1>0, <1>3, <1>4, <1>5, <1>6, <1>7 DEF vars, server, N

LEMMA ReadsBegin == ASSUME Init PROVE UiInv /\ \A x \in Requests : at[x] = "unused"
<1>1. \A x \in Requests : at[x] = "unused" /\ req[x] = None /\ got[x] = None
  BY DEF Init
<1>2. \A p \in Pages, i \in Ids : pending[p][i] = None
  BY DEF Init
<1>3. \A f \in Iframes : counts[f] = 0 /\ {x \in Requests : Waiting(x) /\ req[x].frame = f} = {}
  BY <1>1 DEF Init, Waiting
<1>4. TypeOK
  <2>1. /\ pending \in [Pages -> [Ids -> Requests \cup {None}]]
        /\ counts \in [Iframes -> Nat]
    BY DEF Init
  <2>2. wire \in Seq([about : Requests, good : BOOLEAN])
    BY DEF Init
  <2> QED
    BY <2>1, <2>2 DEF Init, TypeOK
<1>5. ScriptInv
  <2>1. \A f \in Iframes :
          /\ counts[f] <= MaxConcurrent
          /\ counts[f] = Cardinality({x \in Requests : Waiting(x) /\ req[x].frame = f})
    <3> SUFFICES ASSUME NEW f \in Iframes
                 PROVE  /\ counts[f] <= MaxConcurrent
                        /\ counts[f] = Cardinality({x \in Requests : Waiting(x) /\ req[x].frame = f})
      OBVIOUS
    <3>1. Cardinality({x \in Requests : Waiting(x) /\ req[x].frame = f}) = Cardinality({})
      BY <1>3
    <3>2. 0 <= MaxConcurrent
      BY UiConstantsOK
    <3> QED
      BY <1>3, <3>1, <3>2, FS_EmptySet
  <2> QED
    BY <1>1, <1>2, <2>1 DEF ScriptInv
<1>6. SlotInv
  BY <1>1, FS_EmptySet, UiConstantsOK DEF Init, SlotInv
<1>7. ChannelInv
  BY <1>1 DEF Init, ChannelInv, Locked
<1> QED
  BY <1>1, <1>4, <1>5, <1>6, <1>7 DEF UiInv, AnswersBelongToRequests

---------------------------------------------------------------------------
(* THEOREMS                                                                *)

(* The host is in order at any time: it reads from the owner-only socket it *)
(* checked, serves nobody before it has started nor for an extension it did *)
(* not register, counts slots and pending reads rightly, and its provider   *)
(* channel owes only what the one reader waits for (ui_ext.rs run,          *)
(* ProviderClient, ConnectionSlot, shell.rs finish).                        *)
THEOREM ExtInvariant == ExtSpec => []ExtInv
<1>1. ExtInit => ExtInv
  <2> SUFFICES ASSUME ExtInit PROVE ExtInv
    OBVIOUS
  <2> USE DEF ExtInit
  <2>1. UiInv /\ \A x \in Requests : at[x] = "unused"
    BY ReadsBegin
  <2>4. \A l \in Loads : load[l].step = "idle"
    BY DEF Idle
  <2>5. /\ Cardinality(Places) \in Nat
        /\ disk \in [file : [Places -> 0..Cardinality(Places)], link : [Links -> Places]]
    BY ExtConstantsOK, FS_CardinalityType
  <2>6. ExtTypeOK
    <3>1. disk \in [file : [Places -> Nat], link : [Links -> Places]]
      BY <2>5
    <3>2. sockets \in Seq(BOOLEAN) /\ sockets # <<>> /\ Len(sockets) = 1
      OBVIOUS
    <3>3. load \in [Loads -> LoadRecords]
      BY DEF Idle, LoadRecords
    <3> QED
      BY <3>1, <3>2, <3>3 DEF ExtTypeOK, Phases
  <2>7. \A p \in Places : disk.file[p] <= Cardinality(Places) + changes
    BY <2>5
  <2> QED
    BY <2>1, <2>4, <2>6, <2>7 DEF ExtInv, StartInv, AssetsAreNamed
<1>2. ExtInv /\ [ExtNext]_extVars => ExtInv'
  <2> SUFFICES ASSUME ExtInv, [ExtNext]_extVars PROVE ExtInv'
    OBVIOUS
  <2>1. CASE Startup
    BY <2>1, StartupStep
  <2>2. CASE Serving(Reading)
    BY <2>2, ServingStep
  <2>3. CASE RestartProvider
    BY <2>3, RestartStep
  <2>4. CASE Loading
    BY <2>4, LoadingStep
  <2>5. CASE ChangeExtension
    BY <2>5, ChangeStep
  <2>6. CASE UNCHANGED extVars
    <3>1. UNCHANGED <<vars, phase, registry, sockets, before, peer, disk, load, changes, quota>>
      BY <2>6 DEF extVars, hostVars
    <3>2. UiInv'
      BY <3>1, ReadsKept DEF ExtInv
    <3>3. ExtTypeOK' /\ StartInv' /\ AssetsAreNamed'
      BY <3>1 DEF ExtInv, ExtTypeOK, StartInv, AssetsAreNamed
    <3>4. \A l \in Loads : load'[l].step # "idle" =>
             phase' = "serving" /\ load'[l].ext \in registry' /\ LoadInv(load[l])'
      BY <3>1 DEF ExtInv, LoadInv, Named, Opens, Canonical
    <3> QED
      BY <3>1, <3>2, <3>3, <3>4 DEF ExtInv, vars, server
  <2> QED
    BY <2>1, <2>2, <2>3, <2>4, <2>5, <2>6 DEF ExtNext
<1> QED
  BY <1>1, <1>2, PTL DEF ExtSpec

(* No iframe is ever handed the answer to another request, whatever ids     *)
(* come again and whenever answers arrive (shell.rs, provider.rs read).     *)
THEOREM AnswersReachTheirRequests == ExtSpec => []AnswersBelongToRequests
<1>1. ExtInv => AnswersBelongToRequests
  BY DEF ExtInv, UiInv
<1> QED
  BY <1>1, ExtInvariant, PTL

(* Every asset answered is a file its path named, inside its extension's    *)
(* directory, at some moment of the request (open_confined_file).           *)
THEOREM AssetsStayNamed == ExtSpec => []AssetsAreNamed
<1>1. ExtInv => AssetsAreNamed
  BY DEF ExtInv
<1> QED
  BY <1>1, ExtInvariant, PTL
=============================================================================
