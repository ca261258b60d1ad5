-------------------------- MODULE BrowserPageProofs --------------------------
(***************************************************************************)
(* A card and its WebProcess talk through two queues: what a message says  *)
(* is of the moment it was sent, and is acted on at the moment it is       *)
(* handled.  The invariant says what cannot have changed between the two,  *)
(* or what makes the message void when it has.                             *)
(***************************************************************************)
EXTENDS BrowserPage, TLAPS, SequenceTheorems, FiniteSetTheorems

Tells(i, what) == i \in DOMAIN news /\ news[i].is = what
Sends(i, op)   == i \in DOMAIN evals /\ evals[i].op = op
DecisionAt(i)  == Sends(i, "use") \/ Sends(i, "ignore")

(* A view without a WebProcess has nothing under way but the news of its    *)
(* end; a page that is gone gets results only.                              *)
Running ==
  /\ ~up => evals = <<>> /\ doc = 0 /\ asking = 0 /\ going = 0
  /\ \A i \in DOMAIN news : Tells(i, "terminated") =>
       /\ ~up /\ view # NoView
       /\ \A j \in DOMAIN news : Tells(j, "terminated") => j = i
  /\ navs <= MaxNavs + crashes
  /\ (\E i \in DOMAIN news : Tells(i, "terminated")) => navs < MaxNavs + crashes /\ crashes > 0
  /\ ~alive => ~up /\ \A i \in DOMAIN news : IsResult(news[i])

(* A navigation is asked about once and decided once.                       *)
Numbered ==
  /\ asking <= navs
  /\ held # 0 => held <= navs /\ released[held] = 0
  /\ \A n \in Navs : n > navs => released[n] = 0
  /\ \A i \in DOMAIN news : Tells(i, "policy") =>
       /\ news[i].n <= navs /\ released[news[i].n] = 0 /\ held # news[i].n
       /\ \A j \in DOMAIN news : Tells(j, "policy") /\ news[j].n = news[i].n => j = i
  /\ \A i \in DOMAIN evals : DecisionAt(i) => evals[i].n <= navs
  /\ \A i \in DOMAIN evals : Sends(i, "load") =>
       /\ evals[i].n <= navs /\ released[evals[i].n] = 0 /\ held # evals[i].n
       /\ \A j \in DOMAIN news : Tells(j, "policy") => news[j].n # evals[i].n
       /\ \A j \in DOMAIN evals : Sends(j, "load") \/ DecisionAt(j) => evals[j].n # evals[i].n \/ j = i
  /\ failsafes = 1 => recent

(* While a question is open, the document that asked it is still there.     *)
InTurn ==
  /\ going # 0 => /\ \A i \in DOMAIN news : ~Tells(i, "policy")
                  /\ \A i \in DOMAIN evals : ~Sends(i, "snap")
  /\ \A i \in DOMAIN news : Tells(i, "policy") =>
       IF up THEN news[i].from = doc
             ELSE \E j \in DOMAIN news : j > i /\ Tells(j, "terminated")
  /\ \A i \in DOMAIN evals : Sends(i, "snap") => evals[i].from = doc
  /\ \A i \in DOMAIN evals : Sends(i, "use") /\ evals[i].n = asking =>
       /\ \A j \in DOMAIN news : ~Tells(j, "policy")
       /\ \A j \in DOMAIN evals : j > i => ~Sends(j, "snap")
  /\ \A i \in DOMAIN news : Tells(i, "policy") /\ news[i].n = asking =>
       \A j \in DOMAIN news : j > i => ~Tells(j, "policy")
  /\ held # 0 /\ held = asking => \A j \in DOMAIN news : ~Tells(j, "policy")

(* Where the commit of a navigation under way is, or will be.               *)
Commits(k) == Tells(k, "committed") \/ (going # 0 /\ k = Len(news) + 1)

(* No answer to a probe is on its way that the page would listen to.        *)
Quiet == /\ ~probing /\ ~pushing
         /\ \A i \in DOMAIN evals : Sends(i, "probe") => evals[i].gen # gen
         /\ \A i \in DOMAIN news : Tells(i, "wanted") => news[i].gen # gen

(* Between a load's start and its commit the page asks nothing.             *)
Probed ==
  /\ \A k \in 1 .. Len(news) + 1 : Commits(k) =>
       \/ \E j \in DOMAIN news : /\ j < k /\ Tells(j, "started")
                                 /\ \A i \in DOMAIN news : j < i /\ i < k => ~Tells(i, "finished")
       \/ Quiet /\ \A i \in DOMAIN news : i < k => ~Tells(i, "started") /\ ~Tells(i, "finished")
  /\ \A i \in DOMAIN evals : Sends(i, "probe") => evals[i].gen <= gen
  /\ \A i \in DOMAIN news : Tells(i, "wanted") => news[i].gen <= gen /\ (alive \/ news[i].gen # gen)

(* The page knows the document it shows, or the news of it is on its way.   *)
Told ==
  doc # 0 => \/ \E i \in DOMAIN news : /\ Tells(i, "committed") /\ news[i].n = doc
                                       /\ \A j \in DOMAIN news : j > i => ~Tells(j, "committed")
             \/ shown = doc /\ \A i \in DOMAIN news : ~Tells(i, "committed")

(* An answer that the page would listen to is of the document it shows.     *)
Current ==
  \A i \in DOMAIN news :
     /\ Tells(i, "wanted") /\ news[i].wants /\ news[i].gen = gen
     /\ \A j \in DOMAIN news : j < i => ~Tells(j, "started")
     => news[i].on = shown

(* Until something was opened there is no view, or a warm one's blank page, *)
(* which does not listen and has no markers.                                *)
Deaf == ~opened => ~wants /\ \A i \in DOMAIN news : Tells(i, "wanted") => ~news[i].wants
AsBuilt == /\ ViewIsTheCards
           /\ prewarm => marks = {}
           /\ ~opened /\ ~prewarm => view = NoView

(* Questions are answered only once they were asked.                        *)
Questioned ==
  /\ \A i \in DOMAIN evals : /\ Sends(i, "hit") => hitQ # 0
                             /\ Sends(i, "src") => saveQ # 0
  /\ \A i \in DOMAIN news : Tells(i, "found") \/ Tells(i, "failed") =>
       /\ news[i].of.op = "hit" => hitQ # 0
       /\ news[i].of.op = "src" => saveQ # 0

IInv == /\ TypeOK /\ Running /\ Numbered /\ InTurn /\ Probed /\ Told /\ Current /\ Deaf
        /\ Questioned /\ PushedToAsker /\ AsBuilt /\ ProbeNeverUsesFreed

-----------------------------------------------------------------------------
(* What the queues hold.                                                    *)
LEMMA MessageParts ==
  /\ \A m \in Message :
       /\ m.is = "policy" => m.n \in Navs /\ m.from \in {0} \cup Navs
       /\ m.is = "committed" => m.n \in Navs
       /\ m.is = "wanted" => m.gen \in Nat /\ m.on \in {0} \cup Navs /\ m.wants \in BOOLEAN
       /\ m.is \in {"found", "failed"} => m.of \in Evaluation /\ m.of.op \in Answered
  /\ \A e \in Evaluation :
       /\ e.op \in {"load", "use", "ignore"} => e.n \in Navs
       /\ e.op = "snap" => e.from \in {0} \cup Navs
       /\ e.op = "probe" => e.gen \in Nat
  BY DEF Message, Evaluation

LEMMA MessageKinds ==
  /\ \A w \in {"started", "finished", "captured", "terminated"} : [is |-> w] \in Message
  /\ \A n \in Navs : [is |-> "committed", n |-> n] \in Message
  /\ \A n \in Navs, k \in {"form", "link", "handoff", "other"}, f \in {0} \cup Navs :
       [is |-> "policy", n |-> n, kind |-> k, from |-> f] \in Message
  /\ \A g \in Nat, d \in {0} \cup Navs, w \in BOOLEAN :
       [is |-> "wanted", gen |-> g, on |-> d, wants |-> w] \in Message
  /\ \A e \in Evaluation : e.op \in Answered =>
       [is |-> "found", of |-> e] \in Message /\ [is |-> "failed", of |-> e] \in Message
<1>1. \A e \in Evaluation : e.op \in Answered => e \in {x \in Evaluation : x.op \in Answered}
  OBVIOUS
<1> QED BY <1>1 DEF Message

LEMMA EvaluationKinds ==
  /\ \A o \in {"load", "use", "ignore"}, n \in Navs : [op |-> o, n |-> n] \in Evaluation
  /\ \A f \in {0} \cup Navs : [op |-> "snap", from |-> f] \in Evaluation
  /\ \A g \in Nat : [op |-> "probe", gen |-> g] \in Evaluation
  /\ [op |-> "hit"] \in Evaluation /\ [op |-> "src"] \in Evaluation
  BY DEF Evaluation

(* t is s without its first d members, and with others after the rest.      *)
From(s, t, d) ==
  /\ d \in {0, 1} /\ Len(s) \in Nat /\ Len(t) \in Nat
  /\ DOMAIN s = 1 .. Len(s) /\ DOMAIN t = 1 .. Len(t)
  /\ \A i \in DOMAIN t : i + d <= Len(s) => i + d \in DOMAIN s /\ t[i] = s[i + d]
Shift(s, t, d) ==
  /\ From(s, t, d) /\ Len(s) <= Len(t) + d
  /\ \A i \in DOMAIN s : i > d => i - d \in DOMAIN t /\ t[i - d] = s[i]

LEMMA Stays == ASSUME NEW S, NEW s \in Seq(S) PROVE Shift(s, s, 0)
  BY DEF Shift, From

LEMMA Drops ==
  ASSUME NEW S, NEW s \in Seq(S), s # <<>>
  PROVE  /\ Shift(s, Tail(s), 1) /\ Len(Tail(s)) = Len(s) - 1 /\ Tail(s) \in Seq(S)
         /\ Head(s) = s[1] /\ 1 \in DOMAIN s /\ s[1] \in S
<1>1. /\ Len(s) \in Nat \ {0} /\ DOMAIN s = 1 .. Len(s)
      /\ Tail(s) \in Seq(S) /\ Len(Tail(s)) = Len(s) - 1 /\ DOMAIN Tail(s) = 1 .. Len(s) - 1
  OBVIOUS
<1>2. Head(s) = s[1] /\ s[1] \in S
  BY <1>1
<1>3. \A i \in DOMAIN Tail(s) : Tail(s)[i] = s[i + 1] /\ i + 1 \in DOMAIN s
  BY <1>1
<1>4. \A i \in DOMAIN s : i > 1 => i - 1 \in DOMAIN Tail(s) /\ (i - 1) + 1 = i
  BY <1>1
<1> QED BY <1>1, <1>2, <1>3, <1>4 DEF Shift, From

(* What is appended to a queue, or to what is left of it, comes last.       *)
LEMMA Adds ==
  ASSUME NEW S, NEW s, NEW t \in Seq(S), NEW d, Shift(s, t, d), Len(t) + d = Len(s), NEW u \in Seq(S)
  PROVE  /\ Shift(s, t \o u, d) /\ t \o u \in Seq(S)
         /\ \A i \in DOMAIN (t \o u) : i + d > Len(s) =>
              \E j \in DOMAIN u : i + d = Len(s) + j /\ (t \o u)[i] = u[j]
         /\ \A j \in DOMAIN u : \E i \in DOMAIN (t \o u) : i + d = Len(s) + j /\ (t \o u)[i] = u[j]
<1>1. /\ t \o u \in Seq(S) /\ Len(t \o u) = Len(t) + Len(u)
      /\ Len(t) \in Nat /\ Len(u) \in Nat /\ DOMAIN t = 1 .. Len(t) /\ DOMAIN u = 1 .. Len(u)
      /\ DOMAIN (t \o u) = 1 .. Len(t) + Len(u)
      /\ d \in {0, 1} /\ Len(s) \in Nat
  BY DEF Shift, From
<1>2. \A i \in 1 .. Len(t) + Len(u) : (t \o u)[i] = IF i <= Len(t) THEN t[i] ELSE u[i - Len(t)]
  BY ConcatProperties
<1>3. \A i \in DOMAIN (t \o u) : i + d > Len(s) =>
        \E j \in DOMAIN u : i + d = Len(s) + j /\ (t \o u)[i] = u[j]
  <2> SUFFICES ASSUME NEW i \in DOMAIN (t \o u), i + d > Len(s)
               PROVE  \E j \in DOMAIN u : i + d = Len(s) + j /\ (t \o u)[i] = u[j]
    OBVIOUS
  <2>1. i - Len(t) \in DOMAIN u /\ i + d = Len(s) + (i - Len(t)) /\ ~(i <= Len(t))
    BY <1>1
  <2> QED BY <2>1, <1>1, <1>2
<1>4. ASSUME NEW j \in DOMAIN u
      PROVE  \E i \in DOMAIN (t \o u) : i + d = Len(s) + j /\ (t \o u)[i] = u[j]
  <2>1. /\ Len(t) + j \in DOMAIN (t \o u) /\ (Len(t) + j) + d = Len(s) + j
        /\ ~(Len(t) + j <= Len(t)) /\ (Len(t) + j) - Len(t) = j
    BY <1>1
  <2> QED BY <2>1, <1>1, <1>2
<1>5. \A i \in DOMAIN s : i > d => i - d \in DOMAIN (t \o u) /\ (t \o u)[i - d] = s[i]
  BY <1>1, <1>2 DEF Shift, From
<1>6. \A i \in DOMAIN (t \o u) : i + d <= Len(s) => i + d \in DOMAIN s /\ (t \o u)[i] = s[i + d]
  BY <1>1, <1>2 DEF Shift, From
<1>7. Len(s) <= Len(t \o u) + d /\ Len(t \o u) \in Nat
  BY <1>1
<1> QED BY <1>1, <1>3, <1>4, <1>5, <1>6, <1>7 DEF Shift, From

LEMMA AddsOne ==
  ASSUME NEW S, NEW s, NEW t \in Seq(S), NEW d, Shift(s, t, d), Len(t) + d = Len(s), NEW x \in S
  PROVE  /\ Shift(s, Append(t, x), d) /\ Append(t, x) \in Seq(S)
         /\ \A i \in DOMAIN Append(t, x) : i + d > Len(s) => i + d = Len(s) + 1 /\ Append(t, x)[i] = x
         /\ Len(Append(t, x)) + d = Len(s) + 1
         /\ Len(t) + 1 \in DOMAIN Append(t, x) /\ Append(t, x)[Len(t) + 1] = x
<1>1. /\ Append(t, x) \in Seq(S) /\ Len(Append(t, x)) = Len(t) + 1
      /\ Len(t) \in Nat /\ DOMAIN t = 1 .. Len(t) /\ DOMAIN Append(t, x) = 1 .. Len(t) + 1
      /\ d \in {0, 1} /\ Len(s) \in Nat
  BY DEF Shift, From
<1>2. \A i \in 1 .. Len(t) + 1 : Append(t, x)[i] = IF i <= Len(t) THEN t[i] ELSE x
  OBVIOUS
<1>3. \A i \in DOMAIN Append(t, x) : i + d > Len(s) => i + d = Len(s) + 1 /\ Append(t, x)[i] = x
  BY <1>1, <1>2
<1>4. \A i \in DOMAIN s : i > d => i - d \in DOMAIN Append(t, x) /\ Append(t, x)[i - d] = s[i]
  BY <1>1, <1>2 DEF Shift, From
<1>5. \A i \in DOMAIN Append(t, x) : i + d <= Len(s) => i + d \in DOMAIN s /\ Append(t, x)[i] = s[i + d]
  BY <1>1, <1>2 DEF Shift, From
<1>6. Len(t) + 1 \in DOMAIN Append(t, x) /\ Append(t, x)[Len(t) + 1] = x
  BY <1>1, <1>2
<1> QED BY <1>1, <1>3, <1>4, <1>5, <1>6 DEF Shift, From

(* Evaluations that fail are reported as failed, and nothing else is.       *)
LEMMA FailedParts ==
  ASSUME NEW es \in Seq(Evaluation), NEW f \in Unanswered(es)
  PROVE  /\ Failed(es, f) \in Seq(Message)
         /\ \A j \in DOMAIN Failed(es, f) : /\ Failed(es, f)[j].is = "failed"
                                            /\ \E k \in DOMAIN es : Failed(es, f)[j].of = es[k]
<1> DEFINE I == {i \in DOMAIN es : es[i].op \in Answered}
<1>1. IsFiniteSet(I)
  <2>1. DOMAIN es = 1 .. Len(es) /\ Len(es) \in Nat
    OBVIOUS
  <2>2. IsFiniteSet(1 .. Len(es))
    BY <2>1, FS_Interval
  <2> QED BY <2>1, <2>2, FS_Subset
<1>2. Cardinality(I) \in Nat
  BY <1>1, FS_CardinalityType
<1> DEFINE n == Cardinality(I)
<1>3. f \in [1 .. n -> I]
  BY DEF Unanswered, InOrder
<1> HIDE DEF n
<1>4. ASSUME NEW j \in 1 .. n
      PROVE  f[j] \in DOMAIN es /\ [is |-> "failed", of |-> es[f[j]]] \in Message
  <2>1. f[j] \in I
    BY <1>3
  <2>2. f[j] \in DOMAIN es /\ es[f[j]].op \in Answered
    BY <2>1
  <2>3. es[f[j]] \in Evaluation
    BY <2>2, ElementOfSeq
  <2> QED BY <2>2, <2>3, MessageKinds
<1>5. Failed(es, f) = [j \in 1 .. n |-> [is |-> "failed", of |-> es[f[j]]]]
  BY <1>3 DEF Failed
<1>6. Failed(es, f) \in Seq(Message) /\ DOMAIN Failed(es, f) = 1 .. n
  <2>1. n \in Nat
    BY <1>2 DEF n
  <2> QED BY <2>1, <1>4, <1>5
<1>7. \A j \in 1 .. n : Failed(es, f)[j] = [is |-> "failed", of |-> es[f[j]]]
  BY <1>5
<1> QED BY <1>4, <1>6, <1>7


-----------------------------------------------------------------------------
(* What a step does to both queues: the messages it adds are of M, the      *)
(* evaluations of E.                                                        *)
Moves(d, M, e, E) ==
  /\ Shift(news, news', d) /\ news' \in Seq(Message)
  /\ From(evals, evals', e) /\ evals' \in Seq(Evaluation)
  /\ \A i \in DOMAIN news' : i + d > Len(news) => news'[i] \in M
  /\ \A i \in DOMAIN evals' : i + e > Len(evals) => evals'[i] \in E

Typed == news \in Seq(Message) /\ evals \in Seq(Evaluation)
FailedOf(es) == {m \in Message : m.is = "failed" /\ \E k \in DOMAIN es : m.of = es[k]}

LEMMA FailedSeq ==
  ASSUME NEW es \in Seq(Evaluation), NEW f \in Unanswered(es)
  PROVE  /\ Failed(es, f) \in Seq(Message)
         /\ \A j \in DOMAIN Failed(es, f) : Failed(es, f)[j] \in FailedOf(es)
<1>1. /\ Failed(es, f) \in Seq(Message)
      /\ \A j \in DOMAIN Failed(es, f) : /\ Failed(es, f)[j].is = "failed"
                                         /\ \E k \in DOMAIN es : Failed(es, f)[j].of = es[k]
  BY FailedParts
<1>2. \A j \in DOMAIN Failed(es, f) : Failed(es, f)[j] \in Message
  BY <1>1, ElementOfSeq
<1> QED BY <1>1, <1>2 DEF FailedOf

LEMMA Holds ==
  ASSUME Typed, news' = news, evals' = evals
  PROVE  Moves(0, {}, 0, {})
<1>1. Shift(news, news, 0) /\ Shift(evals, evals, 0)
  BY Stays DEF Typed
<1>2. \A i \in DOMAIN news : ~(i + 0 > Len(news))
  BY DEF Typed
<1>3. \A i \in DOMAIN evals : ~(i + 0 > Len(evals))
  BY DEF Typed
<1> QED BY <1>1, <1>2, <1>3 DEF Moves, Typed, Shift

LEMMA Rests ==
  ASSUME Typed, news # <<>>
  PROVE  /\ Shift(news, Rest, 1) /\ Len(Rest) + 1 = Len(news) /\ Rest \in Seq(Message)
         /\ Msg = news[1] /\ 1 \in DOMAIN news /\ news[1] \in Message
<1>1. Len(news) \in Nat
  BY DEF Typed
<1> QED BY <1>1, Drops DEF Typed, Rest, Msg

LEMMA Pops ==
  ASSUME Typed, news # <<>>, news' = Rest, evals' = evals
  PROVE  Moves(1, {}, 0, {})
<1>1. /\ Shift(news, Rest, 1) /\ Len(Rest) + 1 = Len(news) /\ Rest \in Seq(Message)
      /\ Shift(evals, evals, 0)
  BY Rests, Stays DEF Typed
<1>2. \A i \in DOMAIN Rest : ~(i + 1 > Len(news))
  BY <1>1 DEF Shift, From
<1>3. \A i \in DOMAIN evals : ~(i + 0 > Len(evals))
  BY DEF Typed
<1> QED BY <1>1, <1>2, <1>3 DEF Moves, Typed, Shift

LEMMA Sent ==
  ASSUME Typed, NEW rest \in Seq(Message), NEW d, Shift(news, rest, d), Len(rest) + d = Len(news),
         NEW ev \in Evaluation, Send(rest, <<ev>>)
  PROVE  /\ Moves(d, {m \in Message : ~up /\ m.is = "failed" /\ m.of = ev}, 0, {x \in {ev} : up})
<1>0. <<ev>> \in Seq(Evaluation) /\ DOMAIN <<ev>> = {1} /\ <<ev>>[1] = ev
  OBVIOUS
<1>1. Shift(evals, evals, 0) /\ Len(evals) + 0 = Len(evals) /\ Len(evals) \in Nat
  BY Stays DEF Typed
<1>2. CASE up
  <2>1. evals' = evals \o <<ev>> /\ news' = rest
    BY <1>2 DEF Send
  <2>2. /\ Shift(evals, evals \o <<ev>>, 0) /\ evals \o <<ev>> \in Seq(Evaluation)
        /\ \A i \in DOMAIN (evals \o <<ev>>) : i + 0 > Len(evals) =>
             \E j \in DOMAIN <<ev>> : i + 0 = Len(evals) + j /\ (evals \o <<ev>>)[i] = <<ev>>[j]
    <3>1. \A u \in Seq(Evaluation) :
            /\ Shift(evals, evals \o u, 0) /\ evals \o u \in Seq(Evaluation)
            /\ \A i \in DOMAIN (evals \o u) : i + 0 > Len(evals) =>
                 \E j \in DOMAIN u : i + 0 = Len(evals) + j /\ (evals \o u)[i] = u[j]
      BY <1>1, Adds DEF Typed
    <3> QED BY <1>0, <3>1, Zenon
  <2>3. \A i \in DOMAIN rest : ~(i + d > Len(news))
    BY DEF Shift, From
  <2> QED BY <1>0, <1>2, <2>1, <2>2, <2>3 DEF Moves, Typed, Shift
<1>3. CASE ~up
  <2>1. PICK f \in Unanswered(<<ev>>) : evals' = evals /\ news' = rest \o Failed(<<ev>>, f)
    BY <1>3 DEF Send
  <2>2. /\ Failed(<<ev>>, f) \in Seq(Message)
        /\ \A j \in DOMAIN Failed(<<ev>>, f) : Failed(<<ev>>, f)[j] \in FailedOf(<<ev>>)
    BY <1>0, FailedSeq
  <2>3. /\ Shift(news, news', d) /\ news' \in Seq(Message)
        /\ \A i \in DOMAIN news' : i + d > Len(news) =>
             \E j \in DOMAIN Failed(<<ev>>, f) : news'[i] = Failed(<<ev>>, f)[j]
    <3>1. \A u \in Seq(Message) :
            /\ Shift(news, rest \o u, d) /\ rest \o u \in Seq(Message)
            /\ \A i \in DOMAIN (rest \o u) : i + d > Len(news) =>
                 \E j \in DOMAIN u : i + d = Len(news) + j /\ (rest \o u)[i] = u[j]
      BY Adds DEF Typed
    <3>2. \A u \in Seq(Message) :
            /\ Shift(news, rest \o u, d) /\ rest \o u \in Seq(Message)
            /\ \A i \in DOMAIN (rest \o u) : i + d > Len(news) =>
                 \E j \in DOMAIN u : (rest \o u)[i] = u[j]
      BY <3>1
    <3> QED BY <2>1, <2>2, <3>2, Zenon
  <2>4. \A i \in DOMAIN news' : i + d > Len(news) => news'[i] \in FailedOf(<<ev>>)
    BY <2>2, <2>3
  <2>5. \A m \in FailedOf(<<ev>>) : m \in Message /\ m.is = "failed" /\ m.of = ev
    BY <1>0 DEF FailedOf
  <2>6. \A i \in DOMAIN evals : ~(i + 0 > Len(evals))
    BY DEF Typed
  <2> QED BY <1>1, <1>3, <2>1, <2>3, <2>4, <2>5, <2>6 DEF Moves, Typed, Shift
<1> QED BY <1>2, <1>3

(* A message, or an evaluation, is added while the other queue stays.       *)
LEMMA Tells1 ==
  ASSUME Typed, NEW m \in Message, news' = Append(news, m),
         NEW e, From(evals, evals', e), evals' \in Seq(Evaluation),
         \A i \in DOMAIN evals' : ~(i + e > Len(evals))
  PROVE  Moves(0, {m}, e, {})
<1>1. Shift(news, news, 0) /\ Len(news) + 0 = Len(news)
  BY Stays DEF Typed
<1>2. /\ Shift(news, Append(news, m), 0) /\ Append(news, m) \in Seq(Message)
      /\ \A i \in DOMAIN Append(news, m) : i + 0 > Len(news) => Append(news, m)[i] = m
  BY <1>1, AddsOne DEF Typed
<1> QED BY <1>2 DEF Moves

LEMMA Sends1 ==
  ASSUME Typed, NEW ev \in Evaluation, evals' = Append(evals, ev),
         NEW d, Shift(news, news', d), news' \in Seq(Message),
         \A i \in DOMAIN news' : ~(i + d > Len(news))
  PROVE  Moves(d, {}, 0, {ev})
<1>1. Shift(evals, evals, 0) /\ Len(evals) + 0 = Len(evals)
  BY Stays DEF Typed
<1>2. /\ Shift(evals, Append(evals, ev), 0) /\ Append(evals, ev) \in Seq(Evaluation)
      /\ \A i \in DOMAIN Append(evals, ev) : i + 0 > Len(evals) => Append(evals, ev)[i] = ev
  BY <1>1, AddsOne DEF Typed
<1> QED BY <1>2 DEF Moves, Shift

LEMMA Heads ==
  ASSUME Typed, evals # <<>>
  PROVE  /\ From(evals, Tail(evals), 1) /\ Tail(evals) \in Seq(Evaluation)
         /\ \A i \in DOMAIN Tail(evals) : ~(i + 1 > Len(evals))
         /\ Head(evals) = evals[1] /\ 1 \in DOMAIN evals /\ evals[1] \in Evaluation
<1>1. /\ Shift(evals, Tail(evals), 1) /\ Len(Tail(evals)) = Len(evals) - 1 /\ Tail(evals) \in Seq(Evaluation)
      /\ Head(evals) = evals[1] /\ 1 \in DOMAIN evals /\ evals[1] \in Evaluation
  BY Drops DEF Typed
<1> QED BY <1>1 DEF Shift, From

(* What is left of the news when a view is gone.                            *)
LEMMA Kept ==
  ASSUME Typed, KeepResults
  PROVE  /\ news' \in Seq(Message)
         /\ \A i \in DOMAIN news' : /\ IsResult(news'[i])
                                    /\ \/ \E j \in DOMAIN news : news'[i] = news[j]
                                       \/ news'[i] \in FailedOf(evals)
<1> DEFINE I == {i \in DOMAIN news : IsResult(news[i])}
<1>1. PICK g \in InOrder(I), f \in Unanswered(evals) : news' = Picked(news, g) \o Failed(evals, f)
  BY DEF KeepResults
<1>2. /\ Failed(evals, f) \in Seq(Message)
      /\ \A j \in DOMAIN Failed(evals, f) : Failed(evals, f)[j] \in FailedOf(evals)
  BY FailedSeq DEF Typed
<1>3. Cardinality(I) \in Nat
  <2>1. DOMAIN news = 1 .. Len(news) /\ Len(news) \in Nat
    BY DEF Typed
  <2>2. IsFiniteSet(1 .. Len(news))
    BY <2>1, FS_Interval
  <2>3. IsFiniteSet(I)
    BY <2>1, <2>2, FS_Subset
  <2> QED BY <2>3, FS_CardinalityType
<1> DEFINE n == Cardinality(I)
<1>4. g \in [1 .. n -> I] /\ n \in Nat
  BY <1>3 DEF InOrder
<1> HIDE DEF n
<1>5. \A j \in 1 .. n : g[j] \in DOMAIN news /\ IsResult(news[g[j]])
  BY <1>4
<1>6. \A j \in 1 .. n : news[g[j]] \in Message
  BY <1>5, ElementOfSeq DEF Typed
<1>7. Picked(news, g) = [j \in 1 .. n |-> news[g[j]]]
  BY <1>4 DEF Picked
<1>8. Picked(news, g) \in Seq(Message) /\ Len(Picked(news, g)) = n
  BY <1>4, <1>6, <1>7
<1> DEFINE p == Picked(news, g)
           q == Failed(evals, f)
<1> HIDE DEF p, q
<1>9. /\ p \in Seq(Message) /\ q \in Seq(Message) /\ news' = p \o q /\ Len(p) = n
      /\ \A j \in 1 .. n : p[j] = news[g[j]]
      /\ \A j \in DOMAIN q : q[j] \in FailedOf(evals)
  BY <1>1, <1>2, <1>7, <1>8 DEF p, q
<1>10. \A i \in DOMAIN (p \o q) : \/ i \in 1 .. n /\ (p \o q)[i] = p[i]
                                  \/ \E j \in DOMAIN q : (p \o q)[i] = q[j]
  <2> SUFFICES ASSUME NEW i \in DOMAIN (p \o q), ~(i \in 1 .. n)
               PROVE  \E j \in DOMAIN q : (p \o q)[i] = q[j]
    BY <1>4, <1>9, ConcatProperties
  <2>1. /\ i \in Nat /\ i > n /\ i <= n + Len(q) /\ (p \o q)[i] = q[i - n]
        /\ DOMAIN q = 1 .. Len(q) /\ Len(q) \in Nat
    BY <1>4, <1>9, ConcatProperties
  <2>2. i - n \in DOMAIN q
    BY <2>1, <1>4
  <2> QED BY <2>1, <2>2
<1>11. \A m \in FailedOf(evals) : IsResult(m)
  BY DEF FailedOf, IsResult
<1> QED BY <1>5, <1>9, <1>10, <1>11


-----------------------------------------------------------------------------
(* Each part of the invariant, under the steps that do little to it.        *)
LEMMA RunningKept ==
  ASSUME Running, NEW d, NEW M, NEW e, NEW E, Moves(d, M, e, E),
         \A m \in M : m.is # "terminated" /\ (~alive => IsResult(m)),
         UNCHANGED <<alive, view, up, crashes>>,
         navs' = navs \/ (navs' = navs + 1 /\ navs < MaxNavs),
         navs \in Nat, crashes \in Nat, MaxNavs \in Nat,
         ~up => E = {} /\ e = 0 /\ doc' = doc /\ asking' = asking /\ going' = going
  PROVE  Running'
<1>1. ~up => evals' = <<>>
  <2> SUFFICES ASSUME ~up PROVE evals' = <<>>
    OBVIOUS
  <2>1. evals = <<>> /\ Len(evals) = 0
    BY DEF Running
  <2>2. \A i \in DOMAIN evals' : FALSE
    BY <2>1 DEF Moves, From
  <2>3. evals' \in Seq(Evaluation) /\ Len(evals') = 0
    BY <2>2 DEF Moves, From
  <2> QED BY <2>3, EmptySeq
<1>2. \A i \in DOMAIN news' : \/ i + d \in DOMAIN news /\ news'[i] = news[i + d]
                              \/ news'[i] \in M
  BY DEF Moves, Shift, From
<1>3. d \in {0, 1} /\ DOMAIN news = 1 .. Len(news) /\ DOMAIN news' = 1 .. Len(news')
  BY DEF Moves, Shift, From
<1>4. \A i \in DOMAIN news' : Tells(i, "terminated")' => Tells(i + d, "terminated")
  BY <1>2 DEF Tells
<1>5. \A i \in DOMAIN news' : Tells(i, "terminated")' =>
        /\ ~up' /\ view' # NoView
        /\ \A j \in DOMAIN news' : Tells(j, "terminated")' => j = i
  <2> SUFFICES ASSUME NEW i \in DOMAIN news', Tells(i, "terminated")'
               PROVE  /\ ~up' /\ view' # NoView
                      /\ \A j \in DOMAIN news' : Tells(j, "terminated")' => j = i
    OBVIOUS
  <2>1. i + d \in DOMAIN news /\ Tells(i + d, "terminated")
    BY <1>4 DEF Tells
  <2>2. \A j \in DOMAIN news' : Tells(j, "terminated")' => j + d = i + d
    BY <1>4, <2>1 DEF Tells, Running
  <2> QED BY <1>3, <2>1, <2>2 DEF Running
<1>6. /\ navs' <= MaxNavs + crashes'
      /\ (\E i \in DOMAIN news' : Tells(i, "terminated")') => navs' < MaxNavs + crashes' /\ crashes' > 0
  <2>1. (\E i \in DOMAIN news' : Tells(i, "terminated")') => navs < MaxNavs + crashes /\ crashes > 0
    BY <1>4 DEF Tells, Running
  <2>2. navs <= MaxNavs + crashes
    BY DEF Running
  <2> QED BY <2>1, <2>2
<1>7. ~alive' => ~up' /\ \A i \in DOMAIN news' : IsResult(news'[i])
  BY <1>2 DEF Running
<1>8. ~up' => evals' = <<>> /\ doc' = 0 /\ asking' = 0 /\ going' = 0
  BY <1>1 DEF Running
<1> QED BY <1>5, <1>6, <1>7, <1>8 DEF Running, IsResult, Tells

(* No navigation is new; N is the one that is decided, or 0.                *)
LEMMA NumberedKept ==
  ASSUME Numbered, Typed, NEW d, NEW M, NEW e, NEW E, Moves(d, M, e, E),
         NEW N \in {0} \cup Navs, navs \in Nat, navs' \in {navs, navs + 1}, asking' \in {0, asking}, N <= navs,
         asking \in {0} \cup Navs,
         released \in [Navs -> 0 .. 1], held \in {0} \cup Navs,
         \A m \in M : m.is # "policy",
         \A x \in E : x.op # "load" /\ (x.op \in {"use", "ignore"} => x.n = N),
         \A n \in Navs : n # N => released'[n] = released[n],
         \A i \in DOMAIN news : i > d /\ Tells(i, "policy") => news[i].n # N,
         \A i \in DOMAIN evals : Sends(i, "load") => evals[i].n # N,
         held' # 0 => held' # N /\ (held' = held \/ (d = 1 /\ Tells(1, "policy") /\ held' = news[1].n)),
         failsafes' = 1 => recent'
  PROVE  Numbered'
<1>1. \A i \in DOMAIN news' : \/ i + d \in DOMAIN news /\ i + d > d /\ news'[i] = news[i + d]
                              \/ news'[i] \in M
  BY DEF Moves, Shift, From
<1>2. /\ d \in {0, 1} /\ DOMAIN news = 1 .. Len(news) /\ DOMAIN news' = 1 .. Len(news')
      /\ e \in {0, 1} /\ DOMAIN evals = 1 .. Len(evals) /\ DOMAIN evals' = 1 .. Len(evals')
  BY DEF Moves, Shift, From
<1>3. \A i \in DOMAIN evals' : \/ i + e \in DOMAIN evals /\ evals'[i] = evals[i + e]
                               \/ evals'[i] \in E
  BY DEF Moves, From
<1>4. \A i \in DOMAIN news' : Tells(i, "policy")' =>
        i + d \in DOMAIN news /\ i + d > d /\ Tells(i + d, "policy") /\ news'[i] = news[i + d]
  BY <1>1 DEF Tells
<1>5. \A i \in DOMAIN news : Tells(i, "policy") => news[i].n \in Navs
  BY MessageParts, ElementOfSeq DEF Typed, Tells
<1>6. \A i \in DOMAIN evals : Sends(i, "load") => evals[i].n \in Navs
  BY EvaluationKinds, MessageParts, ElementOfSeq DEF Typed, Sends
<1>0. \A n \in {0} \cup Navs : n <= navs => n <= navs'
  BY DEF Navs
<1>7. asking' <= navs'
  BY <1>0 DEF Numbered
<1>8. held' # 0 => held' <= navs' /\ released'[held'] = 0
  <2>1. CASE held' = held /\ held # 0
    BY <2>1, <1>0 DEF Numbered
  <2>2. CASE d = 1 /\ Tells(1, "policy") /\ held' = news[1].n
    BY <2>2, <1>0, <1>2, <1>5 DEF Numbered, Tells
  <2> QED BY <2>1, <2>2
<1>9. \A n \in Navs : n > navs' => released'[n] = 0
  <2>1. \A n \in Navs : n > navs' => n # N /\ n > navs
    BY DEF Navs
  <2> QED BY <2>1 DEF Numbered
<1>10. \A i \in DOMAIN news' : Tells(i, "policy")' =>
         /\ news'[i].n <= navs' /\ released'[news'[i].n] = 0 /\ held' # news'[i].n
         /\ \A j \in DOMAIN news' : Tells(j, "policy")' /\ news'[j].n = news'[i].n => j = i
  <2> SUFFICES ASSUME NEW i \in DOMAIN news', Tells(i, "policy")'
               PROVE  /\ news'[i].n <= navs' /\ released'[news'[i].n] = 0 /\ held' # news'[i].n
                      /\ \A j \in DOMAIN news' : Tells(j, "policy")' /\ news'[j].n = news'[i].n => j = i
    OBVIOUS
  <2>1. i + d \in DOMAIN news /\ i + d > d /\ Tells(i + d, "policy") /\ news'[i] = news[i + d]
    BY <1>4
  <2>2. news[i + d].n \in Navs /\ news[i + d].n # N
    BY <2>1, <1>5
  <2>3. news'[i].n <= navs' /\ released'[news'[i].n] = 0
    <3>1. news[i + d].n <= navs /\ released[news[i + d].n] = 0
      BY <2>1 DEF Numbered
    <3>2. news[i + d].n <= navs'
      BY <3>1, <2>2, <1>0
    <3> QED BY <2>1, <2>2, <3>1, <3>2
  <2>4. held' # news'[i].n
    <3>1. CASE held' = held \/ held' = 0
      BY <3>1, <2>1, <2>2 DEF Numbered, Navs
    <3>2. CASE d = 1 /\ Tells(1, "policy") /\ held' = news[1].n
      <4>1. 1 \in DOMAIN news /\ i + d # 1
        BY <3>2, <2>1 DEF Tells
      <4> QED BY <3>2, <2>1, <4>1 DEF Numbered
    <3> QED BY <3>1, <3>2
  <2>5. \A j \in DOMAIN news' : Tells(j, "policy")' /\ news'[j].n = news'[i].n => j + d = i + d
    BY <1>4, <2>1 DEF Numbered
  <2> QED BY <1>2, <2>3, <2>4, <2>5
<1>11. \A i \in DOMAIN evals' : DecisionAt(i)' => evals'[i].n <= navs'
  <2>1. \A i \in DOMAIN evals : DecisionAt(i) => evals[i].n \in Navs /\ evals[i].n <= navs
    BY MessageParts, ElementOfSeq DEF Typed, Sends, DecisionAt, Numbered
  <2> SUFFICES ASSUME NEW i \in DOMAIN evals', DecisionAt(i)' PROVE evals'[i].n <= navs'
    OBVIOUS
  <2>2. CASE evals'[i] \in E
    BY <2>2, <1>0 DEF DecisionAt, Sends
  <2>3. CASE i + e \in DOMAIN evals /\ evals'[i] = evals[i + e]
    BY <2>1, <2>3, <1>0 DEF DecisionAt, Sends
  <2> QED BY <1>3, <2>2, <2>3
<1>12. \A i \in DOMAIN evals' : Sends(i, "load")' =>
         /\ evals'[i].n <= navs' /\ released'[evals'[i].n] = 0 /\ held' # evals'[i].n
         /\ \A j \in DOMAIN news' : Tells(j, "policy")' => news'[j].n # evals'[i].n
         /\ \A j \in DOMAIN evals' : Sends(j, "load")' \/ DecisionAt(j)' => evals'[j].n # evals'[i].n \/ j = i
  <2> SUFFICES ASSUME NEW i \in DOMAIN evals', Sends(i, "load")'
               PROVE  /\ evals'[i].n <= navs' /\ released'[evals'[i].n] = 0 /\ held' # evals'[i].n
                      /\ \A j \in DOMAIN news' : Tells(j, "policy")' => news'[j].n # evals'[i].n
                      /\ \A j \in DOMAIN evals' :
                           Sends(j, "load")' \/ DecisionAt(j)' => evals'[j].n # evals'[i].n \/ j = i
    OBVIOUS
  <2>1. i + e \in DOMAIN evals /\ Sends(i + e, "load") /\ evals'[i] = evals[i + e]
    BY <1>3 DEF Sends
  <2>2. evals[i + e].n \in Navs /\ evals[i + e].n # N
    BY <2>1, <1>6
  <2>3. evals'[i].n <= navs' /\ released'[evals'[i].n] = 0
    <3>1. evals[i + e].n <= navs /\ released[evals[i + e].n] = 0
      BY <2>1 DEF Numbered
    <3>2. evals[i + e].n <= navs'
      BY <3>1, <2>2, <1>0
    <3> QED BY <2>1, <2>2, <3>1, <3>2
  <2>4. held' # evals'[i].n
    <3>1. CASE held' = held \/ held' = 0
      BY <3>1, <2>1, <2>2 DEF Numbered, Navs
    <3>2. CASE d = 1 /\ Tells(1, "policy") /\ held' = news[1].n
      BY <3>2, <2>1 DEF Numbered, Tells
    <3> QED BY <3>1, <3>2
  <2>5. \A j \in DOMAIN news' : Tells(j, "policy")' => news'[j].n # evals'[i].n
    BY <1>4, <2>1 DEF Numbered
  <2>6. ASSUME NEW j \in DOMAIN evals', Sends(j, "load")' \/ DecisionAt(j)'
        PROVE  evals'[j].n # evals'[i].n \/ j = i
    <3>1. CASE evals'[j] \in E
      BY <3>1, <2>1, <2>2, <2>6 DEF Sends, DecisionAt
    <3>2. CASE j + e \in DOMAIN evals /\ evals'[j] = evals[j + e]
      <4>1. Sends(j + e, "load") \/ DecisionAt(j + e)
        BY <3>2, <2>6 DEF Sends, DecisionAt
      <4>2. evals[j + e].n # evals[i + e].n \/ j + e = i + e
        BY <4>1, <3>2, <2>1 DEF Numbered
      <4> QED BY <4>2, <3>2, <2>1, <1>2
    <3> QED BY <1>3, <3>1, <3>2
  <2> QED BY <2>3, <2>4, <2>5, <2>6
<1> QED BY <1>7, <1>8, <1>9, <1>10, <1>11, <1>12 DEF Numbered


(* A load is sent, with the number of a new navigation.                     *)
LEMMA NumberedLoad ==
  ASSUME Numbered, Typed, NEW d, NEW e, NEW E, Moves(d, {}, e, E),
         navs \in Nat, navs' = navs + 1, navs' \in Navs, asking \in Nat, asking' = asking,
         E = {[op |-> "load", n |-> navs + 1]}, \A i \in DOMAIN evals' : i + e <= Len(evals) + 1,
         held \in {0} \cup Navs, UNCHANGED <<held, recent, failsafes, released>>
  PROVE  Numbered'
<1>1. \A i \in DOMAIN news' : i + d \in DOMAIN news /\ news'[i] = news[i + d]
  BY DEF Moves, Shift, From
<1>2. /\ d \in {0, 1} /\ DOMAIN news = 1 .. Len(news) /\ DOMAIN news' = 1 .. Len(news')
      /\ e \in {0, 1} /\ DOMAIN evals = 1 .. Len(evals) /\ DOMAIN evals' = 1 .. Len(evals')
      /\ Len(evals) \in Nat
  BY DEF Moves, Shift, From
<1>3. \A i \in DOMAIN evals' : \/ i + e \in DOMAIN evals /\ evals'[i] = evals[i + e]
                               \/ i + e = Len(evals) + 1 /\ evals'[i] = [op |-> "load", n |-> navs + 1]
  BY <1>2 DEF Moves, From
<1>4. \A i \in DOMAIN news' : Tells(i, "policy")' => Tells(i + d, "policy") /\ news'[i] = news[i + d]
  BY <1>1 DEF Tells
<1>5. \A i \in DOMAIN news : Tells(i, "policy") => news[i].n \in Navs
  BY MessageParts, ElementOfSeq DEF Typed, Tells
<1>6. \A i \in DOMAIN evals : Sends(i, "load") \/ DecisionAt(i) => evals[i].n \in Navs /\ evals[i].n <= navs
  BY MessageParts, ElementOfSeq DEF Typed, Sends, DecisionAt, Numbered
<1>7. asking' <= navs' /\ (held' # 0 => held' <= navs' /\ released'[held'] = 0)
      /\ \A n \in Navs : n > navs' => released'[n] = 0
  BY DEF Numbered, Navs
<1>8. \A i \in DOMAIN news' : Tells(i, "policy")' =>
         /\ news'[i].n <= navs' /\ released'[news'[i].n] = 0 /\ held' # news'[i].n
         /\ \A j \in DOMAIN news' : Tells(j, "policy")' /\ news'[j].n = news'[i].n => j = i
  <2> SUFFICES ASSUME NEW i \in DOMAIN news', Tells(i, "policy")'
               PROVE  /\ news'[i].n <= navs' /\ released'[news'[i].n] = 0 /\ held' # news'[i].n
                      /\ \A j \in DOMAIN news' : Tells(j, "policy")' /\ news'[j].n = news'[i].n => j = i
    OBVIOUS
  <2>1. i + d \in DOMAIN news /\ Tells(i + d, "policy") /\ news'[i] = news[i + d]
    BY <1>4, <1>1
  <2>2. news[i + d].n \in Navs /\ news[i + d].n <= navs
    BY <2>1, <1>5 DEF Numbered
  <2>3. news'[i].n <= navs' /\ released'[news'[i].n] = 0 /\ held' # news'[i].n
    BY <2>1, <2>2 DEF Numbered, Navs
  <2>4. \A j \in DOMAIN news' : Tells(j, "policy")' /\ news'[j].n = news'[i].n => j + d = i + d
    BY <1>4, <1>1, <2>1 DEF Numbered
  <2> QED BY <1>2, <2>3, <2>4
<1>9. \A i \in DOMAIN evals' : DecisionAt(i)' => evals'[i].n <= navs'
  <2> SUFFICES ASSUME NEW i \in DOMAIN evals', DecisionAt(i)' PROVE evals'[i].n <= navs'
    OBVIOUS
  <2>1. DecisionAt(i + e) /\ i + e \in DOMAIN evals /\ evals'[i] = evals[i + e]
    BY <1>3 DEF DecisionAt, Sends
  <2> QED BY <2>1, <1>6 DEF Navs
<1>10. \A i \in DOMAIN evals' : Sends(i, "load")' =>
         /\ evals'[i].n <= navs' /\ released'[evals'[i].n] = 0 /\ held' # evals'[i].n
         /\ \A j \in DOMAIN news' : Tells(j, "policy")' => news'[j].n # evals'[i].n
         /\ \A j \in DOMAIN evals' : Sends(j, "load")' \/ DecisionAt(j)' => evals'[j].n # evals'[i].n \/ j = i
  <2> SUFFICES ASSUME NEW i \in DOMAIN evals', Sends(i, "load")'
               PROVE  /\ evals'[i].n <= navs' /\ released'[evals'[i].n] = 0 /\ held' # evals'[i].n
                      /\ \A j \in DOMAIN news' : Tells(j, "policy")' => news'[j].n # evals'[i].n
                      /\ \A j \in DOMAIN evals' :
                           Sends(j, "load")' \/ DecisionAt(j)' => evals'[j].n # evals'[i].n \/ j = i
    OBVIOUS
  <2>1. CASE i + e \in DOMAIN evals /\ evals'[i] = evals[i + e]
    <3>1. Sends(i + e, "load")
      BY <2>1 DEF Sends
    <3>2. evals'[i].n \in Navs /\ evals'[i].n <= navs
      BY <2>1, <3>1, <1>6
    <3>3. evals'[i].n <= navs' /\ released'[evals'[i].n] = 0 /\ held' # evals'[i].n
      BY <2>1, <3>1, <3>2 DEF Numbered, Navs
    <3>4. \A j \in DOMAIN news' : Tells(j, "policy")' => news'[j].n # evals'[i].n
      BY <1>1, <1>4, <2>1, <3>1 DEF Numbered
    <3>5. ASSUME NEW j \in DOMAIN evals', Sends(j, "load")' \/ DecisionAt(j)'
          PROVE  evals'[j].n # evals'[i].n \/ j = i
      <4>1. CASE evals'[j] = [op |-> "load", n |-> navs + 1]
        BY <4>1, <3>2 DEF Navs
      <4>2. CASE j + e \in DOMAIN evals /\ evals'[j] = evals[j + e]
        <5>1. Sends(j + e, "load") \/ DecisionAt(j + e)
          BY <4>2, <3>5 DEF Sends, DecisionAt
        <5>2. evals[j + e].n # evals[i + e].n \/ j + e = i + e
          BY <5>1, <4>2, <2>1, <3>1 DEF Numbered
        <5> QED BY <5>2, <4>2, <2>1, <1>2
      <4> QED BY <1>3, <4>1, <4>2
    <3> QED BY <3>3, <3>4, <3>5
  <2>2. CASE i + e = Len(evals) + 1 /\ evals'[i] = [op |-> "load", n |-> navs + 1]
    <3>1. evals'[i].n = navs + 1
      BY <2>2
    <3>2. evals'[i].n <= navs' /\ released'[evals'[i].n] = 0 /\ held' # evals'[i].n
      BY <3>1 DEF Numbered, Navs
    <3>3. \A j \in DOMAIN news' : Tells(j, "policy")' => news'[j].n # evals'[i].n
      BY <1>1, <1>4, <1>5, <3>1 DEF Numbered, Navs
    <3>4. ASSUME NEW j \in DOMAIN evals', Sends(j, "load")' \/ DecisionAt(j)'
          PROVE  evals'[j].n # evals'[i].n \/ j = i
      <4>1. CASE j + e = Len(evals) + 1
        BY <4>1, <2>2, <1>2
      <4>2. CASE j + e \in DOMAIN evals /\ evals'[j] = evals[j + e]
        <5>1. Sends(j + e, "load") \/ DecisionAt(j + e)
          BY <4>2, <3>4 DEF Sends, DecisionAt
        <5> QED BY <5>1, <4>2, <1>6, <3>1 DEF Navs
      <4> QED BY <1>3, <4>1, <4>2
    <3> QED BY <3>2, <3>3, <3>4
  <2> QED BY <1>3, <2>1, <2>2
<1>11. failsafes' = 1 => recent'
  BY DEF Numbered
<1> QED BY <1>7, <1>8, <1>9, <1>10, <1>11 DEF Numbered

(* The WebProcess asks about a navigation that nobody has heard of.         *)
LEMMA NumberedAsk ==
  ASSUME Numbered, Typed, NEW M, NEW e, Moves(0, M, e, {}), NEW n \in Navs,
         navs \in Nat, navs' \in Nat, navs <= navs', n <= navs', asking' = n,
         \A m \in M : m.is = "policy" => m.n = n,
         \A i \in DOMAIN news' : i > Len(news) /\ Tells(i, "policy")' => i = Len(news'),
         \A i \in DOMAIN news : Tells(i, "policy") => news[i].n # n,
         \A i \in DOMAIN evals : i > e /\ Sends(i, "load") => evals[i].n # n,
         released[n] = 0, held # n, held \in {0} \cup Navs,
         UNCHANGED <<held, recent, failsafes, released>>
  PROVE  Numbered'
<1>1. \A i \in DOMAIN news' : \/ i \in DOMAIN news /\ news'[i] = news[i]
                              \/ i > Len(news) /\ news'[i] \in M
  BY DEF Moves, Shift, From
<1>2. /\ DOMAIN news = 1 .. Len(news) /\ DOMAIN news' = 1 .. Len(news') /\ Len(news) \in Nat
      /\ e \in {0, 1} /\ DOMAIN evals = 1 .. Len(evals) /\ DOMAIN evals' = 1 .. Len(evals')
  BY DEF Moves, Shift, From
<1>3. \A i \in DOMAIN evals' : i + e \in DOMAIN evals /\ i + e > e /\ evals'[i] = evals[i + e]
  BY DEF Moves, From
<1>4. \A i \in DOMAIN news' : Tells(i, "policy")' =>
        \/ i \in DOMAIN news /\ Tells(i, "policy") /\ news'[i] = news[i]
        \/ i = Len(news') /\ news'[i].n = n
  BY <1>1 DEF Tells
<1>5. \A i \in DOMAIN news : Tells(i, "policy") => news[i].n \in Navs /\ news[i].n <= navs
  BY MessageParts, ElementOfSeq DEF Typed, Tells, Numbered
<1>6. \A i \in DOMAIN evals : Sends(i, "load") \/ DecisionAt(i) => evals[i].n \in Navs /\ evals[i].n <= navs
  BY MessageParts, ElementOfSeq DEF Typed, Sends, DecisionAt, Numbered
<1>7. asking' <= navs' /\ (held' # 0 => held' <= navs' /\ released'[held'] = 0)
      /\ \A m \in Navs : m > navs' => released'[m] = 0
  BY DEF Numbered, Navs
<1>8. \A i \in DOMAIN news' : Tells(i, "policy")' =>
         /\ news'[i].n <= navs' /\ released'[news'[i].n] = 0 /\ held' # news'[i].n
         /\ \A j \in DOMAIN news' : Tells(j, "policy")' /\ news'[j].n = news'[i].n => j = i
  <2> SUFFICES ASSUME NEW i \in DOMAIN news', Tells(i, "policy")'
               PROVE  /\ news'[i].n <= navs' /\ released'[news'[i].n] = 0 /\ held' # news'[i].n
                      /\ \A j \in DOMAIN news' : Tells(j, "policy")' /\ news'[j].n = news'[i].n => j = i
    OBVIOUS
  <2>1. CASE i \in DOMAIN news /\ Tells(i, "policy") /\ news'[i] = news[i]
    <3>1. news'[i].n <= navs' /\ released'[news'[i].n] = 0 /\ held' # news'[i].n
      BY <2>1, <1>5 DEF Numbered, Navs
    <3>2. \A j \in DOMAIN news' : Tells(j, "policy")' /\ news'[j].n = news'[i].n => j = i
      BY <1>4, <2>1 DEF Numbered
    <3> QED BY <3>1, <3>2
  <2>2. CASE i = Len(news') /\ news'[i].n = n
    BY <2>2, <1>4
  <2> QED BY <1>4, <2>1, <2>2
<1>9. \A i \in DOMAIN evals' : DecisionAt(i)' => evals'[i].n <= navs'
  <2> SUFFICES ASSUME NEW i \in DOMAIN evals', DecisionAt(i)' PROVE evals'[i].n <= navs'
    OBVIOUS
  <2>1. DecisionAt(i + e) /\ i + e \in DOMAIN evals /\ evals'[i] = evals[i + e]
    BY <1>3 DEF DecisionAt, Sends
  <2> QED BY <2>1, <1>6 DEF Navs
<1>10. \A i \in DOMAIN evals' : Sends(i, "load")' =>
         /\ evals'[i].n <= navs' /\ released'[evals'[i].n] = 0 /\ held' # evals'[i].n
         /\ \A j \in DOMAIN news' : Tells(j, "policy")' => news'[j].n # evals'[i].n
         /\ \A j \in DOMAIN evals' : Sends(j, "load")' \/ DecisionAt(j)' => evals'[j].n # evals'[i].n \/ j = i
  <2> SUFFICES ASSUME NEW i \in DOMAIN evals', Sends(i, "load")'
               PROVE  /\ evals'[i].n <= navs' /\ released'[evals'[i].n] = 0 /\ held' # evals'[i].n
                      /\ \A j \in DOMAIN news' : Tells(j, "policy")' => news'[j].n # evals'[i].n
                      /\ \A j \in DOMAIN evals' :
                           Sends(j, "load")' \/ DecisionAt(j)' => evals'[j].n # evals'[i].n \/ j = i
    OBVIOUS
  <2>1. i + e \in DOMAIN evals /\ evals'[i] = evals[i + e] /\ Sends(i + e, "load")
    BY <1>3 DEF Sends
  <2>2. evals'[i].n \in Navs /\ evals'[i].n <= navs /\ evals'[i].n # n
    BY <2>1, <1>3, <1>6
  <2>3. evals'[i].n <= navs' /\ released'[evals'[i].n] = 0 /\ held' # evals'[i].n
    BY <2>1, <2>2 DEF Numbered, Navs
  <2>4. \A j \in DOMAIN news' : Tells(j, "policy")' => news'[j].n # evals'[i].n
    BY <1>4, <2>1, <2>2 DEF Numbered
  <2>5. ASSUME NEW j \in DOMAIN evals', Sends(j, "load")' \/ DecisionAt(j)'
        PROVE  evals'[j].n # evals'[i].n \/ j = i
    <3>1. j + e \in DOMAIN evals /\ evals'[j] = evals[j + e]
      BY <1>3
    <3>2. Sends(j + e, "load") \/ DecisionAt(j + e)
      BY <3>1, <2>5 DEF Sends, DecisionAt
    <3>3. evals[j + e].n # evals[i + e].n \/ j + e = i + e
      BY <3>1, <3>2, <2>1 DEF Numbered
    <3> QED BY <3>3, <3>1, <2>1, <1>2
  <2> QED BY <2>3, <2>4, <2>5
<1>11. failsafes' = 1 => recent'
  BY DEF Numbered
<1> QED BY <1>7, <1>8, <1>9, <1>10, <1>11 DEF Numbered


LEMMA NumberedOver ==
  ASSUME Numbered, Typed, navs \in Nat, navs' \in {navs, navs + 1}, asking' <= navs',
         \A i \in DOMAIN news' : ~Tells(i, "policy")',
         evals' = <<>> \/ (evals' = <<[op |-> "load", n |-> navs']>> /\ navs' = navs + 1 /\ navs' \in Navs),
         held \in {0} \cup Navs, held' \in {0, held}, \A n \in Navs : n # held \/ held' = held => released'[n] = released[n],
         UNCHANGED <<recent, failsafes>>
  PROVE  Numbered'
<1>1. \A i \in DOMAIN evals' : i = 1 /\ navs' = navs + 1 /\ navs' \in Navs /\ evals'[i].op = "load" /\ evals'[i].n = navs'
  OBVIOUS
<1>2. \A n \in Navs : n > navs => n # held
  BY DEF Numbered, Navs
<1>3. \A n \in Navs : n > navs => released'[n] = 0
  BY <1>2 DEF Numbered
<1>4. held' # 0 => held' <= navs' /\ released'[held'] = 0
  BY DEF Numbered, Navs
<1>5. \A n \in Navs : n > navs' => released'[n] = 0
  BY <1>3 DEF Navs
<1>6. \A i \in DOMAIN evals' : /\ evals'[i].n <= navs' /\ released'[evals'[i].n] = 0 /\ held' # evals'[i].n
                               /\ \A j \in DOMAIN evals' : j = i
  BY <1>1, <1>2, <1>3 DEF Numbered, Navs
<1>7. failsafes' = 1 => recent'
  BY DEF Numbered
<1>8. \A i \in DOMAIN evals' : ~DecisionAt(i)'
  BY <1>1 DEF DecisionAt, Sends
<1> QED BY <1>4, <1>5, <1>6, <1>7, <1>8 DEF Numbered

LEMMA InTurnClear ==
  ASSUME \A i \in DOMAIN news' : ~Tells(i, "policy")', \A i \in DOMAIN evals' : ~Sends(i, "snap")'
  PROVE  InTurn'
  BY DEF InTurn

LEMMA InTurnKept ==
  ASSUME InTurn, Typed, NEW d, NEW M, NEW e, NEW E, Moves(d, M, e, E),
         up' = up, doc' = doc, going' \in {0, going}, asking' \in {0, asking},
         \A m \in M : m.is # "policy",
         \A x \in E : x.op = "snap" => /\ x.from = doc /\ going = 0
                                       /\ \A i \in DOMAIN evals : Sends(i, "use") => evals[i].n # asking,
         \A x \in E : x.op = "use" => x.n \in Navs /\ \A y \in E : y.op # "snap",
         \A x \in E : x.op = "use" /\ x.n = asking => \A j \in DOMAIN news : j > d => ~Tells(j, "policy"),
         \/ held' \in {0, held}
         \/ asking # held' \/ \A j \in DOMAIN news : j > d => ~Tells(j, "policy")
  PROVE  InTurn'
<1>1. \A i \in DOMAIN news' : \/ i + d \in DOMAIN news /\ i + d > d /\ news'[i] = news[i + d]
                              \/ news'[i] \in M
  BY DEF Moves, Shift, From
<1>2. /\ d \in {0, 1} /\ DOMAIN news = 1 .. Len(news) /\ DOMAIN news' = 1 .. Len(news')
      /\ e \in {0, 1} /\ DOMAIN evals = 1 .. Len(evals) /\ DOMAIN evals' = 1 .. Len(evals')
      /\ Len(news) \in Nat /\ Len(evals) \in Nat
      /\ \A i \in DOMAIN news : i > d => i - d \in DOMAIN news' /\ news'[i - d] = news[i]
  BY DEF Moves, Shift, From
<1>3. \A i \in DOMAIN evals' : \/ i + e \in DOMAIN evals /\ evals'[i] = evals[i + e]
                               \/ i + e > Len(evals) /\ evals'[i] \in E
  BY <1>2 DEF Moves, From
<1>4. \A i \in DOMAIN news' : Tells(i, "policy")' =>
        i + d \in DOMAIN news /\ i + d > d /\ Tells(i + d, "policy") /\ news'[i] = news[i + d]
  BY <1>1 DEF Tells
<1>5. \A i \in DOMAIN news : Tells(i, "policy") => news[i].n # 0
  BY MessageParts, ElementOfSeq DEF Typed, Tells, Navs
<1>6. \A i \in DOMAIN evals : Sends(i, "use") => evals[i].n # 0
  BY MessageParts, ElementOfSeq DEF Typed, Sends, Navs
<1>7. going' # 0 => /\ \A i \in DOMAIN news' : ~Tells(i, "policy")'
                    /\ \A i \in DOMAIN evals' : ~Sends(i, "snap")'
  <2> SUFFICES ASSUME going' # 0
               PROVE  /\ \A i \in DOMAIN news' : ~Tells(i, "policy")'
                      /\ \A i \in DOMAIN evals' : ~Sends(i, "snap")'
    OBVIOUS
  <2>1. going # 0
    OBVIOUS
  <2>2. \A i \in DOMAIN news' : ~Tells(i, "policy")'
    BY <1>4, <2>1 DEF InTurn, Tells
  <2>3. \A i \in DOMAIN evals' : ~Sends(i, "snap")'
    BY <1>3, <2>1 DEF InTurn, Sends
  <2> QED BY <2>2, <2>3
<1>8. ASSUME NEW i \in DOMAIN news', Tells(i, "policy")'
      PROVE  IF up' THEN news'[i].from = doc'
             ELSE \E j \in DOMAIN news' : j > i /\ Tells(j, "terminated")'
  <2>1. i + d \in DOMAIN news /\ i + d > d /\ Tells(i + d, "policy") /\ news'[i] = news[i + d]
    BY <1>4, <1>8
  <2>2. CASE up
    BY <2>1, <2>2 DEF InTurn
  <2>3. CASE ~up
    <3>1. PICK j \in DOMAIN news : j > i + d /\ Tells(j, "terminated")
      BY <2>1, <2>3 DEF InTurn
    <3>2. j - d \in DOMAIN news' /\ news'[j - d] = news[j] /\ j - d > i
      BY <3>1, <2>1, <1>2
    <3> QED BY <2>3, <3>1, <3>2 DEF Tells
  <2> QED BY <2>2, <2>3
<1>9. ASSUME NEW i \in DOMAIN evals', Sends(i, "snap")'
      PROVE  evals'[i].from = doc'
  BY <1>3, <1>9 DEF InTurn, Sends
<1>10. ASSUME NEW i \in DOMAIN evals', Sends(i, "use")', evals'[i].n = asking'
       PROVE  /\ \A j \in DOMAIN news' : ~Tells(j, "policy")'
              /\ \A j \in DOMAIN evals' : j > i => ~Sends(j, "snap")'
  <2>1. CASE i + e \in DOMAIN evals /\ evals'[i] = evals[i + e]
    <3>1. Sends(i + e, "use") /\ evals[i + e].n = asking
      BY <2>1, <1>10, <1>6 DEF Sends
    <3>2. \A j \in DOMAIN news' : ~Tells(j, "policy")'
      BY <1>4, <2>1, <3>1 DEF InTurn, Tells
    <3>3. ASSUME NEW j \in DOMAIN evals', j > i PROVE ~Sends(j, "snap")'
      <4>1. CASE j + e \in DOMAIN evals /\ evals'[j] = evals[j + e]
        <5>1. j + e > i + e
          BY <1>2, <3>3
        <5> QED BY <4>1, <5>1, <2>1, <3>1 DEF InTurn, Sends
      <4>2. CASE evals'[j] \in E
        BY <4>2, <2>1, <3>1 DEF Sends
      <4> QED BY <1>3, <4>1, <4>2
    <3> QED BY <3>2, <3>3
  <2>2. CASE i + e > Len(evals) /\ evals'[i] \in E
    <3>1. evals'[i].op = "use" /\ evals'[i].n = asking
      BY <2>2, <1>10 DEF Sends, Navs
    <3>2. \A j \in DOMAIN news' : ~Tells(j, "policy")'
      BY <1>4, <2>2, <3>1
    <3>3. ASSUME NEW j \in DOMAIN evals', j > i PROVE ~Sends(j, "snap")'
      <4>1. evals'[j] \in E
        BY <1>2, <1>3, <2>2, <3>3
      <4> QED BY <4>1, <2>2, <3>1 DEF Sends
    <3> QED BY <3>2, <3>3
  <2> QED BY <1>3, <2>1, <2>2
<1>11. ASSUME NEW i \in DOMAIN news', Tells(i, "policy")', news'[i].n = asking'
       PROVE  \A j \in DOMAIN news' : j > i => ~Tells(j, "policy")'
  <2>1. i + d \in DOMAIN news /\ Tells(i + d, "policy") /\ news[i + d].n = asking
    BY <1>4, <1>5, <1>11
  <2>2. \A j \in DOMAIN news : j > i + d => ~Tells(j, "policy")
    BY <2>1 DEF InTurn
  <2>3. \A j \in DOMAIN news' : j > i => j + d > i + d
    BY <1>2
  <2> QED BY <1>4, <2>2, <2>3
<1>12. ASSUME held' # 0, held' = asking'
       PROVE  \A j \in DOMAIN news' : ~Tells(j, "policy")'
  <2>1. CASE held' \in {0, held}
    BY <2>1, <1>4, <1>12 DEF InTurn
  <2>2. CASE \A j \in DOMAIN news : j > d => ~Tells(j, "policy")
    BY <2>2, <1>4
  <2> QED BY <2>1, <2>2, <1>12
<1> QED BY <1>7, <1>8, <1>9, <1>10, <1>11, <1>12 DEF InTurn

LEMMA InTurnAsk ==
  ASSUME InTurn, Typed, NEW M, NEW e, Moves(0, M, e, {}), NEW n \in Navs, asking' = n,
         up, up' = up, doc' = doc, going' = 0, held' = held, held # n,
         \A m \in M : m.is = "policy" => m.from = doc,
         \A i \in DOMAIN news' : i > Len(news) /\ Tells(i, "policy")' => i = Len(news'),
         \A i \in DOMAIN news : Tells(i, "policy") => news[i].n # n,
         \A i \in DOMAIN evals : i > e /\ DecisionAt(i) => evals[i].n # n
  PROVE  InTurn'
<1>1. \A i \in DOMAIN news' : \/ i \in DOMAIN news /\ news'[i] = news[i]
                              \/ i > Len(news) /\ news'[i] \in M
  BY DEF Moves, Shift, From
<1>2. /\ DOMAIN news' = 1 .. Len(news') /\ Len(news') \in Nat
      /\ \A i \in DOMAIN evals' : i + e \in DOMAIN evals /\ i + e > e /\ evals'[i] = evals[i + e]
  BY DEF Moves, Shift, From
<1>3. \A i \in DOMAIN news' : Tells(i, "policy")' =>
        /\ news'[i].from = doc'
        /\ news'[i].n = n => \A j \in DOMAIN news' : ~(j > i)
  <2> SUFFICES ASSUME NEW i \in DOMAIN news', Tells(i, "policy")'
               PROVE  news'[i].from = doc' /\ (news'[i].n = n => \A j \in DOMAIN news' : ~(j > i))
    OBVIOUS
  <2>1. CASE i \in DOMAIN news /\ news'[i] = news[i]
    BY <2>1 DEF InTurn, Tells
  <2>2. CASE i > Len(news) /\ news'[i] \in M
    BY <2>2, <1>2 DEF Tells
  <2> QED BY <1>1, <2>1, <2>2
<1>4. \A i \in DOMAIN evals' : Sends(i, "use")' => evals'[i].n # asking'
  BY <1>2 DEF Sends, DecisionAt
<1>5. \A i \in DOMAIN evals' : Sends(i, "snap")' => evals'[i].from = doc'
  BY <1>2 DEF Sends, InTurn
<1> QED BY <1>3, <1>4, <1>5 DEF InTurn

LEMMA InTurnCrash ==
  ASSUME InTurn, up, ~up', evals' = <<>>, going' = 0, asking' = 0, Typed, held' = held,
         NEW M, Moves(0, M, 0, {}), \A m \in M : m.is # "policy",
         (Len(news) \in DOMAIN news /\ Tells(Len(news), "terminated"))'
  PROVE  InTurn'
<1>1. /\ \A i \in DOMAIN news' : \/ i \in DOMAIN news /\ news'[i] = news[i]
                                 \/ news'[i] \in M
      /\ DOMAIN news' = 1 .. Len(news') /\ Len(news') \in Nat
  BY DEF Moves, Shift, From
<1>2. \A i \in DOMAIN news' : Tells(i, "policy")' =>
        /\ news'[i].n # 0
        /\ i < Len(news')
  <2> SUFFICES ASSUME NEW i \in DOMAIN news', Tells(i, "policy")' PROVE news'[i].n # 0 /\ i < Len(news')
    OBVIOUS
  <2>1. i # Len(news')
    BY DEF Tells
  <2>2. i \in DOMAIN news /\ news'[i] = news[i] /\ Tells(i, "policy")
    BY <1>1 DEF Tells
  <2>3. news[i].n # 0
    BY <2>2, MessageParts, ElementOfSeq DEF Typed, Tells, Navs
  <2> QED BY <1>1, <2>1, <2>2, <2>3
<1>3. DOMAIN evals' = {}
  OBVIOUS
<1> QED BY <1>2, <1>3 DEF InTurn, Sends


LEMMA QuietKept ==
  ASSUME Quiet, NEW d, NEW M, NEW e, NEW E, Moves(d, M, e, E),
         ~probing', ~pushing', gen' = gen,
         \A m \in M : m.is = "wanted" => m.gen # gen, \A x \in E : x.op = "probe" => x.gen # gen
  PROVE  Quiet'
<1>1. \A i \in DOMAIN news' : \/ i + d \in DOMAIN news /\ news'[i] = news[i + d]
                              \/ news'[i] \in M
  BY DEF Moves, Shift, From
<1>2. \A i \in DOMAIN evals' : \/ i + e \in DOMAIN evals /\ evals'[i] = evals[i + e]
                               \/ evals'[i] \in E
  BY DEF Moves, From
<1>3. \A i \in DOMAIN evals' : Sends(i, "probe")' => evals'[i].gen # gen'
  BY <1>2 DEF Quiet, Sends
<1>4. \A i \in DOMAIN news' : Tells(i, "wanted")' => news'[i].gen # gen'
  BY <1>1 DEF Quiet, Tells
<1> QED BY <1>3, <1>4 DEF Quiet

(* When the questions that are under way have been cancelled, all is quiet. *)
LEMMA QuietStopped ==
  ASSUME Probed, Typed, NEW d, NEW e, Moves(d, {}, e, {}), gen \in Nat, gen' = gen + 1, ~probing', ~pushing'
  PROVE  Quiet'
<1>1. \A i \in DOMAIN news' : i + d \in DOMAIN news /\ news'[i] = news[i + d]
  BY DEF Moves, Shift, From
<1>2. \A i \in DOMAIN evals' : i + e \in DOMAIN evals /\ evals'[i] = evals[i + e]
  BY DEF Moves, From
<1>3. \A i \in DOMAIN evals : Sends(i, "probe") => evals[i].gen \in Nat /\ evals[i].gen <= gen
  BY MessageParts, ElementOfSeq DEF Typed, Sends, Probed
<1>4. \A i \in DOMAIN news : Tells(i, "wanted") => news[i].gen \in Nat /\ news[i].gen <= gen
  BY MessageParts, ElementOfSeq DEF Typed, Tells, Probed
<1>5. \A i \in DOMAIN evals' : Sends(i, "probe")' => evals'[i].gen # gen'
  BY <1>2, <1>3 DEF Sends
<1>6. \A i \in DOMAIN news' : Tells(i, "wanted")' => news'[i].gen # gen'
  BY <1>1, <1>4 DEF Tells
<1> QED BY <1>5, <1>6 DEF Quiet

LEMMA ProbedKept ==
  ASSUME Probed, NEW d, NEW M, NEW e, NEW E, Moves(d, M, e, E),
         gen' = gen, alive' = alive, d = 1 => ~Tells(1, "started"),
         /\ Quiet
         /\ \E k \in 1 .. Len(news) + 1 : Commits(k) /\ \A i \in DOMAIN news : i < k => ~Tells(i, "finished")
         => Quiet',
         \/ going' = 0
         \/ going' = going /\ \A m \in M : m.is \notin {"started", "finished"}
         \/ (Len(news) \in DOMAIN news /\ Tells(Len(news), "started"))',
         \/ \A m \in M : m.is # "committed"
         \/ going # 0 /\ going' = 0 /\ Len(news') + d <= Len(news) + 1,
         \A m \in M : m.is = "wanted" => m.gen <= gen /\ (alive \/ m.gen # gen),
         \A x \in E : x.op = "probe" => x.gen <= gen
  PROVE  Probed'
<1>1. \A i \in DOMAIN news' : \/ i + d \in DOMAIN news /\ i + d <= Len(news) /\ news'[i] = news[i + d]
                              \/ i + d > Len(news) /\ news'[i] \in M
  BY DEF Moves, Shift, From
<1>2. /\ d \in {0, 1} /\ DOMAIN news = 1 .. Len(news) /\ DOMAIN news' = 1 .. Len(news')
      /\ Len(news) \in Nat /\ Len(news') \in Nat /\ Len(news) <= Len(news') + d
      /\ \A j \in DOMAIN news : j > d => j - d \in DOMAIN news' /\ news'[j - d] = news[j]
  BY DEF Moves, Shift, From
<1>3. \A i \in DOMAIN evals' : \/ i + e \in DOMAIN evals /\ evals'[i] = evals[i + e]
                               \/ evals'[i] \in E
  BY DEF Moves, From
<1>4. \A i \in DOMAIN evals' : Sends(i, "probe")' => evals'[i].gen <= gen'
  BY <1>3 DEF Probed, Sends
<1>5. \A i \in DOMAIN news' : Tells(i, "wanted")' => news'[i].gen <= gen' /\ (alive' \/ news'[i].gen # gen')
  BY <1>1 DEF Probed, Tells
<1>6. ASSUME NEW k \in 1 .. Len(news') + 1, Commits(k)'
      PROVE  \/ \E j \in DOMAIN news' :
                  /\ j < k /\ Tells(j, "started")'
                  /\ \A i \in DOMAIN news' : j < i /\ i < k => ~Tells(i, "finished")'
             \/ Quiet' /\ \A i \in DOMAIN news' : i < k => ~Tells(i, "started")' /\ ~Tells(i, "finished")'
  <2>1. CASE going' # 0 /\ k = Len(news') + 1 /\ (Len(news) \in DOMAIN news /\ Tells(Len(news), "started"))'
    <3>1. Len(news') < k /\ \A i \in DOMAIN news' : ~(Len(news') < i /\ i < k)
      BY <2>1, <1>2
    <3> QED BY <2>1, <3>1
  <2>2. CASE ~(going' # 0 /\ k = Len(news') + 1 /\ (Len(news) \in DOMAIN news /\ Tells(Len(news), "started"))')
    <3>1. \E K \in 1 .. Len(news) + 1 :
            /\ Commits(K)
            /\ \A i \in DOMAIN news' : i < k =>
                 \/ i + d \in DOMAIN news /\ i + d < K /\ news'[i] = news[i + d]
                 \/ ~Tells(i, "started")' /\ ~Tells(i, "finished")'
            /\ \A j \in DOMAIN news : j < K /\ j > d => j - d < k
      <4>1. CASE going' # 0 /\ k = Len(news') + 1
        <5>1. going' = going /\ \A m \in M : m.is \notin {"started", "finished"}
          BY <2>2, <4>1
        <5>2. Commits(Len(news) + 1)
          BY <4>1, <5>1 DEF Commits
        <5>3. \A i \in DOMAIN news' : i < k =>
                 \/ i + d \in DOMAIN news /\ i + d < Len(news) + 1 /\ news'[i] = news[i + d]
                 \/ ~Tells(i, "started")' /\ ~Tells(i, "finished")'
          BY <1>1, <1>2, <5>1 DEF Tells
        <5>4. \A j \in DOMAIN news : j < Len(news) + 1 /\ j > d => j - d < k
          BY <1>2, <4>1
        <5> QED BY <5>2, <5>3, <5>4, <1>2
      <4>2. CASE k \in DOMAIN news' /\ Tells(k, "committed")'
        <5>1. k + d \in 1 .. Len(news) + 1 /\ Commits(k + d)
          <6>1. CASE k + d \in DOMAIN news /\ news'[k] = news[k + d]
            BY <6>1, <4>2, <1>2 DEF Tells, Commits
          <6>2. CASE k + d > Len(news) /\ news'[k] \in M
            <7>1. going # 0 /\ Len(news') + d <= Len(news) + 1
              BY <6>2, <4>2 DEF Tells
            <7>2. k + d = Len(news) + 1
              BY <7>1, <6>2, <4>2, <1>2
            <7> QED BY <7>1, <7>2, <1>2 DEF Commits
          <6> QED BY <6>1, <6>2, <4>2, <1>1
        <5>2. \A i \in DOMAIN news' : i < k => i + d \in DOMAIN news /\ i + d < k + d /\ news'[i] = news[i + d]
          BY <1>1, <1>2, <5>1
        <5>3. \A j \in DOMAIN news : j < k + d /\ j > d => j - d < k
          BY <1>2
        <5> QED BY <5>1, <5>2, <5>3
      <4> QED BY <1>6, <4>1, <4>2 DEF Commits, Tells
    <3>2. PICK K \in 1 .. Len(news) + 1 :
            /\ Commits(K)
            /\ \A i \in DOMAIN news' : i < k =>
                 \/ i + d \in DOMAIN news /\ i + d < K /\ news'[i] = news[i + d]
                 \/ ~Tells(i, "started")' /\ ~Tells(i, "finished")'
            /\ \A j \in DOMAIN news : j < K /\ j > d => j - d < k
      BY <3>1
    <3>3. CASE \E j \in DOMAIN news : /\ j < K /\ Tells(j, "started")
                                      /\ \A i \in DOMAIN news : j < i /\ i < K => ~Tells(i, "finished")
      <4>1. PICK j \in DOMAIN news : /\ j < K /\ Tells(j, "started")
                                     /\ \A i \in DOMAIN news : j < i /\ i < K => ~Tells(i, "finished")
        BY <3>3
      <4>2. j > d
        BY <4>1, <1>2
      <4>3. j - d \in DOMAIN news' /\ j - d < k /\ Tells(j - d, "started")'
        BY <4>1, <4>2, <3>2, <1>2 DEF Tells
      <4>4. \A i \in DOMAIN news' : j - d < i /\ i < k => ~Tells(i, "finished")'
        <5> SUFFICES ASSUME NEW i \in DOMAIN news', j - d < i, i < k PROVE ~Tells(i, "finished")'
          OBVIOUS
        <5>1. CASE i + d \in DOMAIN news /\ i + d < K /\ news'[i] = news[i + d]
          <6>1. j < i + d
            BY <1>2
          <6> QED BY <5>1, <6>1, <4>1 DEF Tells
        <5> QED BY <5>1, <3>2
      <4> QED BY <4>3, <4>4
    <3>4. CASE Quiet /\ \A i \in DOMAIN news : i < K => ~Tells(i, "started") /\ ~Tells(i, "finished")
      BY <3>4, <3>2 DEF Tells
    <3> QED BY <3>2, <3>3, <3>4 DEF Probed
  <2> QED BY <2>1, <2>2
<1> QED BY <1>4, <1>5, <1>6 DEF Probed

(* The page hears of a load that has started, and stops asking.             *)
LEMMA ProbedStarted ==
  ASSUME Probed, Typed, Moves(1, {}, 0, {}), Quiet', gen \in Nat, gen' = gen + 1, alive' = alive, going' = going,
         Tells(1, "started")
  PROVE  Probed'
<1>1. \A i \in DOMAIN news' : i + 1 \in DOMAIN news /\ news'[i] = news[i + 1]
  BY DEF Moves, Shift, From
<1>2. /\ DOMAIN news = 1 .. Len(news) /\ DOMAIN news' = 1 .. Len(news')
      /\ Len(news) \in Nat /\ Len(news') \in Nat /\ Len(news) = Len(news') + 1
      /\ \A j \in DOMAIN news : j > 1 => j - 1 \in DOMAIN news' /\ news'[j - 1] = news[j]
  <2>1. Len(news) <= Len(news') + 1 /\ DOMAIN news = 1 .. Len(news) /\ DOMAIN news' = 1 .. Len(news')
        /\ Len(news) \in Nat /\ Len(news') \in Nat
    BY DEF Moves, Shift, From
  <2>2. Len(news') + 1 <= Len(news)
    <3>1. CASE Len(news') = 0
      BY <3>1, <2>1 DEF Tells
    <3>2. CASE Len(news') # 0
      <4>1. Len(news') \in DOMAIN news'
        BY <3>2, <2>1
      <4>2. Len(news') + 1 \in DOMAIN news
        BY <4>1, <1>1
      <4> QED BY <4>2, <2>1
    <3> QED BY <3>1, <3>2
  <2>3. \A j \in DOMAIN news : j > 1 => j - 1 \in DOMAIN news' /\ news'[j - 1] = news[j]
    BY DEF Moves, Shift
  <2>4. Len(news) = Len(news') + 1
    <3>1. \A a, b \in Nat : a <= b + 1 /\ b + 1 <= a => a = b + 1
      OBVIOUS
    <3>2. Len(news) \in Nat /\ Len(news') \in Nat /\ Len(news) <= Len(news') + 1
      BY <2>1
    <3> QED BY <2>2, <3>1, <3>2
  <2> QED BY <2>1, <2>3, <2>4
<1>3. \A i \in DOMAIN evals' : i \in DOMAIN evals /\ evals'[i] = evals[i]
  BY DEF Moves, From
<1>4. \A i \in DOMAIN evals' : Sends(i, "probe")' => evals'[i].gen <= gen'
  <2>1. \A i \in DOMAIN evals : Sends(i, "probe") => evals[i].gen \in Nat /\ evals[i].gen <= gen
    BY MessageParts, ElementOfSeq DEF Typed, Sends, Probed
  <2> QED BY <1>3, <2>1 DEF Sends
<1>5. \A i \in DOMAIN news' : Tells(i, "wanted")' => news'[i].gen <= gen' /\ (alive' \/ news'[i].gen # gen')
  <2>1. \A i \in DOMAIN news : Tells(i, "wanted") => news[i].gen \in Nat /\ news[i].gen <= gen
    BY MessageParts, ElementOfSeq DEF Typed, Tells, Probed
  <2> QED BY <1>1, <2>1 DEF Tells
<1>6. ASSUME NEW k \in 1 .. Len(news') + 1, Commits(k)'
      PROVE  \/ \E j \in DOMAIN news' :
                  /\ j < k /\ Tells(j, "started")'
                  /\ \A i \in DOMAIN news' : j < i /\ i < k => ~Tells(i, "finished")'
             \/ Quiet' /\ \A i \in DOMAIN news' : i < k => ~Tells(i, "started")' /\ ~Tells(i, "finished")'
  <2>1. k + 1 \in 1 .. Len(news) + 1 /\ Commits(k + 1)
    BY <1>1, <1>2, <1>6 DEF Commits, Tells
  <2>2. PICK j \in DOMAIN news : /\ j < k + 1 /\ Tells(j, "started")
                                 /\ \A i \in DOMAIN news : j < i /\ i < k + 1 => ~Tells(i, "finished")
    <3>1. 1 \in DOMAIN news /\ 1 < k + 1
      BY DEF Tells
    <3> QED BY <2>1, <3>1 DEF Probed
  <2>3. \A i \in DOMAIN news' : Tells(i, "finished")' => Tells(i + 1, "finished") /\ i + 1 \in DOMAIN news
    BY <1>1 DEF Tells
  <2>4. CASE \E b \in DOMAIN news' : b < k /\ Tells(b, "started")'
    <3>1. CASE j > 1
      <4>1. j - 1 \in DOMAIN news' /\ j - 1 < k /\ Tells(j - 1, "started")'
        BY <3>1, <2>2, <1>2 DEF Tells
      <4>2. \A i \in DOMAIN news' : j - 1 < i /\ i < k => ~Tells(i, "finished")'
        BY <2>2, <2>3, <1>2
      <4> QED BY <4>1, <4>2
    <3>2. CASE j = 1
      <4>1. \A i \in DOMAIN news' : i < k => ~Tells(i, "finished")'
        BY <3>2, <2>2, <2>3, <1>2
      <4> QED BY <4>1, <2>4
    <3> QED BY <3>1, <3>2, <1>2
  <2>5. CASE \A b \in DOMAIN news' : b < k => ~Tells(b, "started")'
    <3>1. j = 1
      <4>1. CASE j > 1
        <5>1. j - 1 \in DOMAIN news' /\ j - 1 < k /\ Tells(j - 1, "started")'
          BY <4>1, <2>2, <1>2 DEF Tells
        <5> QED BY <5>1, <2>5
      <4> QED BY <4>1, <1>2
    <3>2. \A i \in DOMAIN news' : i < k => ~Tells(i, "finished")'
      BY <3>1, <2>2, <2>3, <1>2
    <3> QED BY <3>2, <2>5
  <2> QED BY <2>4, <2>5
<1> QED BY <1>4, <1>5, <1>6 DEF Probed


(* A view is gone, and only results are left of its news.                   *)
LEMMA ProbedOver ==
  ASSUME Probed, going' = 0, \A i \in DOMAIN evals' : ~Sends(i, "probe")',
         \A i \in DOMAIN news' : ~Tells(i, "committed")',
         \A i \in DOMAIN news' : Tells(i, "wanted")' => \E j \in DOMAIN news : news'[i] = news[j],
         Typed, gen \in Nat, gen' \in {gen, gen + 1}, alive' = alive \/ (~alive' /\ gen' = gen + 1)
  PROVE  Probed'
<1>1. \A i \in DOMAIN news' : Tells(i, "wanted")' => news'[i].gen <= gen' /\ (alive' \/ news'[i].gen # gen')
  <2> SUFFICES ASSUME NEW i \in DOMAIN news', Tells(i, "wanted")'
               PROVE  news'[i].gen <= gen' /\ (alive' \/ news'[i].gen # gen')
    OBVIOUS
  <2>1. PICK j \in DOMAIN news : news'[i] = news[j]
    OBVIOUS
  <2>2. Tells(j, "wanted")
    BY <2>1 DEF Tells
  <2>3. news[j].gen \in Nat /\ news[j].gen <= gen /\ (alive \/ news[j].gen # gen)
    BY <2>2, MessageParts, ElementOfSeq DEF Typed, Tells, Probed
  <2> QED BY <2>1, <2>3
<1>2. \A k : ~Commits(k)'
  BY DEF Commits, Tells
<1> QED BY <1>1, <1>2 DEF Probed

LEMMA ToldKept ==
  ASSUME Told, NEW d, NEW M, NEW e, NEW E, Moves(d, M, e, E),
         doc' # 0 => doc' = doc /\ shown' = shown /\ (d = 1 => ~Tells(1, "committed")),
         \A m \in M : m.is # "committed"
  PROVE  Told'
<1>1. \A i \in DOMAIN news' : \/ i + d \in DOMAIN news /\ i + d > d /\ news'[i] = news[i + d]
                              \/ news'[i] \in M
  BY DEF Moves, Shift, From
<1>2. /\ d \in {0, 1} /\ DOMAIN news = 1 .. Len(news) /\ DOMAIN news' = 1 .. Len(news')
      /\ \A j \in DOMAIN news : j > d => j - d \in DOMAIN news' /\ news'[j - d] = news[j]
  BY DEF Moves, Shift, From
<1>3. \A i \in DOMAIN news' : Tells(i, "committed")' => Tells(i + d, "committed") /\ i + d \in DOMAIN news
  BY <1>1 DEF Tells
<1>4. CASE doc' # 0 /\ \E i \in DOMAIN news : /\ Tells(i, "committed") /\ news[i].n = doc
                                              /\ \A j \in DOMAIN news : j > i => ~Tells(j, "committed")
  <2>1. PICK i \in DOMAIN news : /\ Tells(i, "committed") /\ news[i].n = doc
                                 /\ \A j \in DOMAIN news : j > i => ~Tells(j, "committed")
    BY <1>4
  <2>2. i > d
    BY <1>2, <1>4, <2>1
  <2>3. i - d \in DOMAIN news' /\ Tells(i - d, "committed")' /\ news'[i - d].n = doc'
    BY <2>1, <2>2, <1>2, <1>4 DEF Tells
  <2>4. \A j \in DOMAIN news' : j > i - d => ~Tells(j, "committed")'
    <3>1. \A j \in DOMAIN news' : j > i - d => j + d > i
      BY <1>2
    <3> QED BY <3>1, <1>3, <2>1
  <2> QED BY <2>3, <2>4 DEF Told
<1>5. CASE doc' # 0 /\ shown = doc /\ \A i \in DOMAIN news : ~Tells(i, "committed")
  BY <1>3, <1>5 DEF Told
<1> QED BY <1>4, <1>5 DEF Told

LEMMA CurrentKept ==
  ASSUME Current, NEW d, NEW M, NEW e, NEW E, Moves(d, M, e, E),
         gen' = gen, shown' = shown, d = 1 => ~Tells(1, "started"),
         \A m \in M : m.is = "wanted" =>
           d = 0 /\ (m.wants /\ m.gen = gen /\ (\A j \in DOMAIN news : ~Tells(j, "started")) => m.on = shown)
  PROVE  Current'
<1>1. \A i \in DOMAIN news' : \/ i + d \in DOMAIN news /\ news'[i] = news[i + d]
                              \/ i + d > Len(news) /\ news'[i] \in M
  BY DEF Moves, Shift, From
<1>2. /\ d \in {0, 1} /\ DOMAIN news = 1 .. Len(news) /\ DOMAIN news' = 1 .. Len(news')
      /\ \A j \in DOMAIN news : j > d => j - d \in DOMAIN news' /\ news'[j - d] = news[j]
      /\ Len(news) \in Nat
  BY DEF Moves, Shift, From
<1> SUFFICES ASSUME NEW i \in DOMAIN news', Tells(i, "wanted")', news'[i].wants, news'[i].gen = gen,
                    \A j \in DOMAIN news' : j < i => ~Tells(j, "started")'
             PROVE  news'[i].on = shown
  BY DEF Current
<1>3. CASE i + d \in DOMAIN news /\ news'[i] = news[i + d]
  <2>1. \A j \in DOMAIN news : j < i + d => ~Tells(j, "started")
    <3> SUFFICES ASSUME NEW j \in DOMAIN news, j < i + d, Tells(j, "started") PROVE FALSE
      OBVIOUS
    <3>1. j > d
      BY <1>2
    <3>2. j - d \in DOMAIN news' /\ j - d < i /\ Tells(j - d, "started")'
      BY <3>1, <1>2 DEF Tells
    <3> QED BY <3>2
  <2> QED BY <1>3, <2>1 DEF Current, Tells
<1>4. CASE i + d > Len(news) /\ news'[i] \in M
  <2>1. d = 0 /\ i > Len(news)
    BY <1>2, <1>4 DEF Tells
  <2>2. \A j \in DOMAIN news : ~Tells(j, "started")
    <3> SUFFICES ASSUME NEW j \in DOMAIN news, Tells(j, "started") PROVE FALSE
      OBVIOUS
    <3>1. j \in DOMAIN news' /\ j < i /\ Tells(j, "started")'
      BY <2>1, <1>2 DEF Tells
    <3> QED BY <3>1
  <2> QED BY <1>4, <2>2 DEF Tells
<1> QED BY <1>1, <1>3, <1>4

(* Nobody is asking any more: nothing that comes is listened to.            *)
LEMMA CurrentQuiet ==
  ASSUME Quiet'
  PROVE  Current'
  BY DEF Quiet, Current

LEMMA DeafKept ==
  ASSUME Deaf, ~opened' => ~opened /\ ~wants',
         \A i \in DOMAIN news' : Tells(i, "wanted")' =>
           \/ \E j \in DOMAIN news : news'[i] = news[j]
           \/ ~opened' => ~news'[i].wants
  PROVE  Deaf'
  BY DEF Deaf, Tells



LEMMA MovesFrom ==
  ASSUME NEW d, NEW M, NEW e, NEW E, Moves(d, M, e, E)
  PROVE  /\ \A i \in DOMAIN news' : (\E j \in DOMAIN news : news'[i] = news[j]) \/ news'[i] \in M
         /\ \A i \in DOMAIN evals' : (\E j \in DOMAIN evals : evals'[i] = evals[j]) \/ evals'[i] \in E
<1>1. \A i \in DOMAIN news' : \/ i + d \in DOMAIN news /\ news'[i] = news[i + d]
                              \/ news'[i] \in M
  BY DEF Moves, Shift, From
<1>2. \A i \in DOMAIN evals' : \/ i + e \in DOMAIN evals /\ evals'[i] = evals[i + e]
                               \/ evals'[i] \in E
  BY DEF Moves, From
<1> QED BY <1>1, <1>2

LEMMA QuestionedKept ==
  ASSUME Questioned, NEW d, NEW M, NEW e, NEW E, Moves(d, M, e, E),
         hitQ # 0 => hitQ' # 0, saveQ # 0 => saveQ' # 0,
         \A x \in E : (x.op = "hit" => hitQ' # 0) /\ (x.op = "src" => saveQ' # 0),
         \A m \in M : m.is \in {"found", "failed"} =>
           \/ \E j \in DOMAIN evals : m.of = evals[j]
           \/ (m.of.op = "hit" => hitQ' # 0) /\ (m.of.op = "src" => saveQ' # 0)
  PROVE  Questioned'
<1>1. /\ \A i \in DOMAIN news' : (\E j \in DOMAIN news : news'[i] = news[j]) \/ news'[i] \in M
      /\ \A i \in DOMAIN evals' : (\E j \in DOMAIN evals : evals'[i] = evals[j]) \/ evals'[i] \in E
  BY MovesFrom
<1>2. \A i \in DOMAIN evals' : (Sends(i, "hit")' => hitQ' # 0) /\ (Sends(i, "src")' => saveQ' # 0)
  BY <1>1 DEF Questioned, Sends
<1>3. \A j \in DOMAIN evals : (evals[j].op = "hit" => hitQ' # 0) /\ (evals[j].op = "src" => saveQ' # 0)
  BY DEF Questioned, Sends
<1>4. \A m \in M : m.is \in {"found", "failed"} => (m.of.op = "hit" => hitQ' # 0) /\ (m.of.op = "src" => saveQ' # 0)
  BY <1>3
<1>5. \A i \in DOMAIN news' : Tells(i, "found")' \/ Tells(i, "failed")' =>
        (news'[i].of.op = "hit" => hitQ' # 0) /\ (news'[i].of.op = "src" => saveQ' # 0)
  BY <1>1, <1>4 DEF Questioned, Tells
<1> QED BY <1>2, <1>5 DEF Questioned

LEMMA QuestionedOver ==
  ASSUME Questioned, hitQ' = hitQ, saveQ' = saveQ,
         \A i \in DOMAIN evals' : evals'[i].op \notin {"hit", "src"},
         \A i \in DOMAIN news' : (\E j \in DOMAIN news : news'[i] = news[j]) \/ news'[i] \in FailedOf(evals)
  PROVE  Questioned'
<1>1. \A m \in FailedOf(evals) : (m.of.op = "hit" => hitQ # 0) /\ (m.of.op = "src" => saveQ # 0)
  BY DEF FailedOf, Questioned, Sends
<1>2. \A i \in DOMAIN news' : Tells(i, "found")' \/ Tells(i, "failed")' =>
        (news'[i].of.op = "hit" => hitQ' # 0) /\ (news'[i].of.op = "src" => saveQ' # 0)
  BY <1>1 DEF Questioned, Tells
<1> QED BY <1>2 DEF Questioned, Sends

LEMMA Facts ==
  ASSUME TypeOK
  PROVE  /\ Typed /\ MaxNavs \in Nat /\ MaxCrashes \in Nat /\ navs \in Nat /\ crashes \in 0 .. MaxCrashes
         /\ asking \in {0} \cup Navs /\ doc \in {0} \cup Navs /\ going \in {0} \cup Navs
         /\ held \in {0} \cup Navs /\ released \in [Navs -> 0 .. 1] /\ gen \in Nat
         /\ failsafes \in 0 .. 1
  BY BoundAssumption DEF TypeOK, TypeOK0, TypeOKLogin, TypeOKSensors, Typed, Navs

(* A step that brings no news but answers, and leaves the loads alone.      *)
LEMMA Plain ==
  ASSUME IInv, NEW d, NEW M, NEW E, Moves(d, M, 0, E),
         UNCHANGED <<alive, view, prewarm, opened, up, crashes, navs, doc, going, asking, shown, gen>>,
         \A m \in M : m.is \in {"failed", "found"},
         \A x \in E : up /\ (x.op = "probe" => x.gen <= gen),
         d = 1 => news[1].is \notin {"started", "committed"},
         Quiet => Quiet',
         wants' => wants \/ opened
  PROVE  Running' /\ Probed' /\ Told' /\ Current' /\ Deaf'
<1>1. /\ Typed /\ MaxNavs \in Nat /\ navs \in Nat /\ crashes \in Nat
      /\ Running /\ Probed /\ Told /\ Current /\ Deaf
  BY Facts DEF IInv
<1>2. Running'
  <2>1. ~up => E = {}
    OBVIOUS
  <2>2. \A m \in M : m.is # "terminated" /\ (~alive => IsResult(m))
    BY DEF IsResult
  <2> QED BY <1>1, <2>1, <2>2, RunningKept
<1>3. Probed'
  <2>1. d = 1 => ~Tells(1, "started")
    BY DEF Tells
  <2>2. /\ \A m \in M : m.is \notin {"started", "finished"}
        /\ \A m \in M : m.is # "committed"
        /\ \A m \in M : m.is = "wanted" => m.gen <= gen /\ (alive \/ m.gen # gen)
    OBVIOUS
  <2> QED BY <1>1, <2>1, <2>2, ProbedKept
<1>4. Told'
  <2>1. (d = 1 => ~Tells(1, "committed")) /\ \A m \in M : m.is # "committed"
    BY DEF Tells
  <2> QED BY <1>1, <2>1, ToldKept
<1>5. Current'
  <2>1. (d = 1 => ~Tells(1, "started")) /\ \A m \in M : m.is # "wanted"
    BY DEF Tells
  <2> QED BY <1>1, <2>1, CurrentKept
<1>6. Deaf'
  <2>1. \A i \in DOMAIN news' : (\E j \in DOMAIN news : news'[i] = news[j]) \/ news'[i] \in M
    BY MovesFrom
  <2>2. ~opened' => ~opened /\ ~wants'
    BY <1>1 DEF Deaf
  <2>3. \A i \in DOMAIN news' : Tells(i, "wanted")' =>
           \/ \E j \in DOMAIN news : news'[i] = news[j]
           \/ ~opened' => ~news'[i].wants
    BY <2>1 DEF Tells
  <2> QED BY <1>1, <2>2, <2>3, DeafKept
<1> QED BY <1>2, <1>3, <1>4, <1>5, <1>6

LEMMA PlainTurn ==
  ASSUME IInv, NEW d, NEW M, NEW E, Moves(d, M, 0, E),
         UNCHANGED <<up, navs, doc, going, asking, held, released>>,
         \A m \in M : m.is \in {"failed", "found"},
         \A x \in E : x.op \notin {"load", "use", "ignore", "snap"},
         failsafes' = 1 => recent'
  PROVE  Numbered' /\ InTurn'
<1>1. /\ Typed /\ navs \in Nat /\ Numbered /\ InTurn
      /\ held \in {0} \cup Navs /\ released \in [Navs -> 0 .. 1] /\ asking \in {0} \cup Navs
      /\ \A m \in M : m.is # "policy"
  BY Facts DEF IInv
<1>2. Numbered'
  <2>1. /\ 0 <= navs /\ asking' \in {0, asking}
        /\ \A x \in E : x.op # "load" /\ (x.op \in {"use", "ignore"} => x.n = 0)
        /\ \A n \in Navs : n # 0 => released'[n] = released[n]
        /\ held' # 0 => held' # 0 /\ (held' = held \/ (d = 1 /\ Tells(1, "policy") /\ held' = news[1].n))
    BY <1>1
  <2>2. \A i \in DOMAIN news : i > d /\ Tells(i, "policy") => news[i].n # 0
    BY <1>1, MessageParts, ElementOfSeq DEF Typed, Tells, Navs
  <2>3. \A i \in DOMAIN evals : Sends(i, "load") => evals[i].n # 0
    BY <1>1, MessageParts, ElementOfSeq DEF Typed, Sends, Navs
  <2>4. 0 \in {0} \cup Navs
    OBVIOUS
  <2> QED BY <1>1, <2>1, <2>2, <2>3, <2>4, NumberedKept
<1>3. InTurn'
  <2>1. /\ going' \in {0, going} /\ asking' \in {0, asking}
        /\ \A x \in E : x.op # "snap" /\ x.op # "use"
        /\ held' \in {0, held}
    OBVIOUS
  <2> QED BY <1>1, <2>1, InTurnKept
<1> QED BY <1>2, <1>3


LEMMA TypeKept ==
  ASSUME TypeOK, news' \in Seq(Message), evals' \in Seq(Evaluation), guard' \in BOOLEAN,
         UNCHANGED <<alive, card, shown, up, webprocess, counters, freed>>
  PROVE  TypeOK0'
  BY DEF TypeOK, TypeOK0, card, webprocess, counters

LEMMA PlainStep ==
  ASSUME IInv, NEW d, NEW M, NEW E, Moves(d, M, 0, E),
         UNCHANGED <<alive, card, shown, up, webprocess, counters, freed, gen, held, released>>,
         guard' \in BOOLEAN, failsafes' = 1 => recent', Quiet => Quiet', wants' => wants \/ opened,
         \A m \in M : m.is \in {"failed", "found"},
         \A x \in E : x.op \in {"probe", "hit", "src"} /\ up /\ (x.op = "probe" => x.gen <= gen),
         d = 1 => news[1].is \notin {"started", "committed"},
         TypeOKLogin', TypeOKSensors', TypeOKQueries', Questioned', PushedToAsker'
  PROVE  IInv'
<1>1. UNCHANGED <<view, prewarm, opened, crashes, navs, doc, going, asking, marks>>
  BY DEF card, webprocess, counters
<1>2. TypeOK'
  <2>1. TypeOK0'
    BY TypeKept DEF Moves, IInv
  <2> QED BY <2>1 DEF TypeOK
<1>3. Running' /\ Probed' /\ Told' /\ Current' /\ Deaf'
  BY <1>1, Plain
<1>4. Numbered' /\ InTurn'
  <2>1. \A x \in E : x.op \notin {"load", "use", "ignore", "snap"}
    OBVIOUS
  <2> QED BY <1>1, <2>1, PlainTurn
<1>5. AsBuilt' /\ ProbeNeverUsesFreed'
  BY <1>1 DEF IInv, AsBuilt, ViewIsTheCards, ProbeNeverUsesFreed
<1> QED BY <1>2, <1>3, <1>4, <1>5 DEF IInv

-----------------------------------------------------------------------------
(* The answers.                                                             *)
LEMMA ProbeFailedKeeps ==
  ASSUME IInv, OnProbeFailed
  PROVE  IInv'
<1>1. /\ news # <<>> /\ Msg.is = "failed" /\ news' = Rest /\ evals' = evals
      /\ UNCHANGED <<alive, card, guard, shown, up, webprocess, counters, freed, login, sensors, world, queries>>
  BY DEF OnProbeFailed, Fails, Got, Msg, KeepPage, counters
<1>2. /\ TypeOK /\ Typed /\ Questioned /\ PushedToAsker /\ Numbered
      /\ TypeOKLogin /\ TypeOKSensors /\ TypeOKQueries /\ guard \in BOOLEAN
  BY Facts DEF IInv, TypeOK, TypeOK0
<1>3. Moves(1, {}, 0, {}) /\ news[1].is = "failed"
  BY <1>1, <1>2, Pops, Rests
<1>4. /\ UNCHANGED <<held, released, recent, failsafes, probing, pushing, sock, pushFor, gen, wants, sensord>>
      /\ UNCHANGED <<hitQ, saveQ, inFlight, downloads, hitAnswers, saveAnswers, dropped>>
  BY <1>1 DEF login, sensors, world, queries
<1>5. Quiet => Quiet'
  BY <1>3, <1>4, QuietKept DEF Quiet
<1>6. TypeOKLogin' /\ TypeOKSensors' /\ TypeOKQueries' /\ PushedToAsker' /\ (failsafes' = 1 => recent')
  BY <1>1, <1>2, <1>4 DEF TypeOKLogin, TypeOKSensors, TypeOKQueries, PushedToAsker, Numbered
<1>7. Questioned'
  BY <1>2, <1>3, <1>4, QuestionedKept
<1> QED BY <1>1, <1>2, <1>3, <1>4, <1>5, <1>6, <1>7, PlainStep

(* onHitTestResult and onSaveImgSrcResult answer with the number that the   *)
(* page keeps, which is not 0: something was asked.                         *)
LEMMA HitKeeps ==
  ASSUME IInv, OnHit
  PROVE  IInv'
<1>1. /\ news # <<>> /\ Msg.is \in {"found", "failed"} /\ Msg.of.op = "hit" /\ news' = Rest /\ evals' = evals
      /\ UNCHANGED <<alive, card, guard, shown, up, webprocess, counters, freed, login, sensors, world>>
      /\ hitAnswers' \in {hitAnswers, hitAnswers \cup {hitQ}}
      /\ UNCHANGED <<hitQ, saveQ, inFlight, downloads, saveAnswers, dropped>>
  BY DEF OnHit, Answers, Fails, Got, Msg, KeepPage, counters, FoundHit
<1>2. /\ TypeOK /\ Typed /\ Questioned /\ PushedToAsker /\ Numbered
      /\ TypeOKLogin /\ TypeOKSensors /\ TypeOKQueries /\ guard \in BOOLEAN
  BY Facts DEF IInv, TypeOK, TypeOK0
<1>3. /\ Moves(1, {}, 0, {}) /\ news[1].is \in {"found", "failed"} /\ news[1].of.op = "hit"
      /\ 1 \in DOMAIN news
  BY <1>1, <1>2, Pops, Rests
<1>4. UNCHANGED <<held, released, recent, failsafes, probing, pushing, sock, pushFor, gen, wants, sensord>>
  BY <1>1 DEF login, sensors, world
<1>5. Quiet => Quiet'
  BY <1>3, <1>4, QuietKept DEF Quiet
<1>6. TypeOKLogin' /\ TypeOKSensors' /\ PushedToAsker' /\ (failsafes' = 1 => recent')
  BY <1>1, <1>2, <1>4 DEF TypeOKLogin, TypeOKSensors, PushedToAsker, Numbered
<1>7. TypeOKQueries'
  <2>1. hitQ # 0
    BY <1>2, <1>3 DEF Questioned, Tells
  <2> QED BY <1>1, <1>2, <2>1 DEF TypeOKQueries
<1>8. Questioned'
  BY <1>1, <1>2, <1>3, QuestionedKept
<1> QED BY <1>1, <1>2, <1>3, <1>4, <1>5, <1>6, <1>7, <1>8, PlainStep

LEMMA SrcKeeps ==
  ASSUME IInv, OnSrc
  PROVE  IInv'
<1>1. PICK f \in Files \cup {NoFile}, ok \in BOOLEAN :
         /\ news # <<>> /\ Msg.is \in {"found", "failed"} /\ Msg.of.op = "src" /\ news' = Rest /\ evals' = evals
         /\ UNCHANGED <<alive, card, guard, shown, up, webprocess, counters, freed, login, sensors, world>>
         /\ FoundSrc(f, ok)
  BY DEF OnSrc, Answers, Fails, Got, Msg, KeepPage, counters
<1>2. /\ TypeOK /\ Typed /\ Questioned /\ PushedToAsker /\ Numbered
      /\ TypeOKLogin /\ TypeOKSensors /\ TypeOKQueries /\ guard \in BOOLEAN
  BY Facts DEF IInv, TypeOK, TypeOK0
<1>3. /\ Moves(1, {}, 0, {}) /\ news[1].is \in {"found", "failed"} /\ news[1].of.op = "src"
      /\ 1 \in DOMAIN news
  BY <1>1, <1>2, Pops, Rests
<1>4. UNCHANGED <<held, released, recent, failsafes, probing, pushing, sock, pushFor, gen, wants, sensord>>
  BY <1>1 DEF login, sensors, world
<1>5. Quiet => Quiet'
  BY <1>3, <1>4, QuietKept DEF Quiet
<1>6. TypeOKLogin' /\ TypeOKSensors' /\ PushedToAsker' /\ (failsafes' = 1 => recent')
  BY <1>1, <1>2, <1>4 DEF TypeOKLogin, TypeOKSensors, PushedToAsker, Numbered
<1>7. saveQ \in Saves
  BY <1>2, <1>3 DEF Questioned, Tells, TypeOKQueries
<1>8. TypeOKQueries' /\ UNCHANGED <<hitQ, saveQ>>
  <2>1. UNCHANGED <<hitQ, saveQ, hitAnswers>>
    BY <1>1 DEF FoundSrc
  <2>2. inFlight' \in Files \cup {NoFile} /\ saveAnswers' \subseteq Saves /\ dropped' \subseteq Saves
    BY <1>1, <1>2, <1>7 DEF FoundSrc, TypeOKQueries
  <2>3. downloads' \subseteq [q : Saves, file : Files]
    <3>1. CASE downloads' = downloads
      BY <3>1, <1>2 DEF TypeOKQueries
    <3>2. CASE f # NoFile /\ downloads' = downloads \cup {[q |-> saveQ, file |-> f]}
      <4>1. [q |-> saveQ, file |-> f] \in [q : Saves, file : Files]
        BY <1>7, <3>2
      <4> QED BY <4>1, <3>2, <1>2 DEF TypeOKQueries
    <3> QED BY <1>1, <3>1, <3>2 DEF FoundSrc
  <2> QED BY <2>1, <2>2, <2>3, <1>2 DEF TypeOKQueries
<1>9. Questioned'
  BY <1>2, <1>3, <1>8, QuestionedKept
<1> QED BY <1>1, <1>2, <1>3, <1>4, <1>5, <1>6, <1>8, <1>9, PlainStep

(* An answer to a probe that was not cancelled comes to a page that is      *)
(* there, from the document that it shows.                                  *)
LEMMA WantedKeeps ==
  ASSUME IInv, OnWanted
  PROVE  IInv'
<1>1. /\ news # <<>> /\ Msg.is = "wanted" /\ news' = Rest /\ evals' = evals /\ WantedNews(Msg)
      /\ UNCHANGED <<alive, card, guard, shown, up, webprocess, counters, login, world, queries>>
  BY DEF OnWanted, Got, Msg, KeepPage, counters
<1>2. /\ TypeOK /\ Typed /\ Questioned /\ PushedToAsker /\ Numbered /\ Probed /\ Current /\ ~freed
      /\ TypeOKLogin /\ TypeOKSensors /\ TypeOKQueries /\ guard \in BOOLEAN /\ alive \in BOOLEAN
  BY Facts DEF IInv, TypeOK, TypeOK0, ProbeNeverUsesFreed
<1>3. /\ Moves(1, {}, 0, {}) /\ Tells(1, "wanted") /\ Msg = news[1] /\ 1 \in DOMAIN news
      /\ news[1].wants \in BOOLEAN /\ news[1].on \in {0} \cup Navs /\ news[1].is = "wanted"
  <2>1. Moves(1, {}, 0, {}) /\ Msg = news[1] /\ 1 \in DOMAIN news /\ news[1] \in Message
    BY <1>1, <1>2, Pops, Rests
  <2> QED BY <2>1, <1>1, MessageParts DEF Tells
<1>4. UNCHANGED <<held, released, recent, failsafes, wants, sensord, gen, probing>>
  BY <1>1 DEF login, sensors, world, WantedNews
<1>5. Quiet => Quiet'
  <2> SUFFICES ASSUME Quiet PROVE Quiet'
    OBVIOUS
  <2>2. news[1].gen # gen
    BY <1>3 DEF Quiet, Tells
  <2>3. UNCHANGED sensors
    BY <2>2, <1>1, <1>3 DEF WantedNews
  <2> QED BY <2>3, <1>3, QuietKept DEF Quiet, sensors
<1>6. freed' = freed
  <2>1. news[1].gen = gen => alive
    BY <1>3 DEF Tells, IInv, Probed
  <2>2. CASE news[1].gen = gen
    BY <2>1, <2>2, <1>1, <1>2, <1>3 DEF WantedNews, TypeOK, TypeOK0
  <2>3. CASE news[1].gen # gen
    BY <2>3, <1>1, <1>3 DEF WantedNews
  <2> QED BY <2>2, <2>3
<1>7. PushedToAsker'
  <2>1. CASE news[1].gen = gen /\ news[1].wants /\ ~pushing
    <3>1. \A j \in DOMAIN news : ~(j < 1)
      BY <1>2 DEF Typed
    <3>2. news[1].on = shown
      BY <2>1, <3>1, <1>2, <1>3 DEF Current
    <3> QED BY <2>1, <3>2, <1>1, <1>3 DEF WantedNews, PushedToAsker
  <2>2. CASE ~(news[1].gen = gen /\ news[1].wants /\ ~pushing)
    BY <2>2, <1>1, <1>2, <1>3 DEF WantedNews, PushedToAsker, sensors
  <2> QED BY <2>1, <2>2
<1>8. TypeOKSensors'
  BY <1>1, <1>2, <1>3, <1>4 DEF WantedNews, TypeOKSensors, sensors
<1>9. TypeOKLogin' /\ TypeOKQueries' /\ (failsafes' = 1 => recent') /\ UNCHANGED <<hitQ, saveQ, inFlight, downloads>>
  BY <1>1, <1>2, <1>4 DEF TypeOKLogin, TypeOKQueries, Numbered, queries
<1>10. Questioned'
  BY <1>2, <1>3, <1>9, QuestionedKept
<1> QED BY <1>1, <1>2, <1>3, <1>4, <1>5, <1>6, <1>7, <1>8, <1>9, <1>10, PlainStep


-----------------------------------------------------------------------------
(* What the page asks and what its timers do.                               *)

(* A step that touches neither queue nor the loads.                         *)
LEMMA IdleStep ==
  ASSUME IInv, UNCHANGED <<alive, card, shown, up, webprocess, counters, freed, held, released, evals, news>>,
         UNCHANGED <<probing, pushing, pushFor, gen, hitQ, saveQ>>,
         guard' \in BOOLEAN, failsafes' = 1 => recent', wants' => wants \/ opened,
         TypeOKLogin', TypeOKSensors', TypeOKQueries'
  PROVE  IInv'
<1>1. /\ TypeOK /\ Typed /\ Questioned /\ PushedToAsker
  BY Facts DEF IInv
<1>2. Moves(0, {}, 0, {})
  BY <1>1, Holds
<1>3. Quiet => Quiet'
  BY <1>2, QuietKept DEF Quiet
<1>4. PushedToAsker'
  BY <1>1 DEF PushedToAsker
<1>5. Questioned'
  BY <1>1, <1>2, QuestionedKept
<1> QED BY <1>2, <1>3, <1>4, <1>5, PlainStep

LEMMA HitTestKeeps ==
  ASSUME IInv, HitTest, UNCHANGED <<login, sensors, world>>
  PROVE  IInv'
<1>1. /\ TypeOK /\ Typed /\ Questioned /\ PushedToAsker /\ Numbered
      /\ TypeOKLogin /\ TypeOKSensors /\ TypeOKQueries /\ guard \in BOOLEAN
  BY Facts DEF IInv, TypeOK, TypeOK0
<1>2. /\ hitQ < MaxHits /\ hitQ' = hitQ + 1
      /\ UNCHANGED <<saveQ, inFlight, downloads, saveAnswers, dropped, alive, card, guard, shown, up, webprocess, counters, freed>>
      /\ \/ hitAnswers' = hitAnswers \cup {hitQ + 1} /\ UNCHANGED <<evals, news>>
         \/ Send(news, <<[op |-> "hit"]>>) /\ UNCHANGED hitAnswers
  BY DEF HitTest
<1>3. UNCHANGED <<held, released, recent, failsafes, probing, pushing, sock, pushFor, gen, wants, sensord>>
  BY DEF login, sensors, world
<1>4. hitQ' \in Hits /\ hitQ' # 0
  <2>1. hitQ \in Nat /\ MaxHits \in Nat
    BY <1>1, QueryAssumption DEF TypeOKQueries, Hits
  <2> QED BY <2>1, <1>2 DEF Hits
<1>5. TypeOKLogin' /\ TypeOKSensors' /\ TypeOKQueries' /\ PushedToAsker' /\ (failsafes' = 1 => recent')
  BY <1>1, <1>2, <1>3, <1>4 DEF TypeOKLogin, TypeOKSensors, TypeOKQueries, PushedToAsker, Numbered
<1> DEFINE ev == [op |-> "hit"]
           M == {m \in Message : ~up /\ m.is = "failed" /\ m.of = ev}
           E == {x \in {ev} : up}
<1>6. CASE UNCHANGED <<evals, news>>
  <2>1. Moves(0, {}, 0, {})
    BY <1>1, <1>6, Holds
  <2>2. Questioned'
    BY <2>1, <1>1, <1>2, <1>4, QuestionedKept
  <2>3. Quiet => Quiet'
    BY <2>1, <1>3, QuietKept DEF Quiet
  <2> QED BY <2>1, <2>2, <2>3, <1>1, <1>2, <1>3, <1>5, PlainStep
<1>7. CASE Send(news, <<ev>>)
  <2>1. ev \in Evaluation /\ ev.op = "hit"
    BY EvaluationKinds
  <2>2. news \in Seq(Message) /\ Shift(news, news, 0) /\ Len(news) + 0 = Len(news)
    BY <1>1, Stays DEF Typed
  <2> HIDE DEF ev
  <2>3. Moves(0, M, 0, E)
    BY <2>1, <2>2, <1>1, <1>7, Sent
  <2>4. /\ \A m \in M : m.is = "failed" /\ m.of.op = "hit"
        /\ \A x \in E : x.op = "hit" /\ up
    BY <2>1
  <2> HIDE DEF M, E
  <2>5. Questioned'
    BY <2>3, <2>4, <1>1, <1>2, <1>4, QuestionedKept
  <2>6. Quiet => Quiet'
    BY <2>3, <2>4, <1>3, QuietKept DEF Quiet
  <2> QED BY <2>3, <2>4, <2>5, <2>6, <1>1, <1>2, <1>3, <1>5, PlainStep
<1> QED BY <1>2, <1>6, <1>7

LEMMA SaveImageKeeps ==
  ASSUME IInv, SaveImage, UNCHANGED <<login, sensors, world>>
  PROVE  IInv'
<1>1. /\ TypeOK /\ Typed /\ Questioned /\ PushedToAsker /\ Numbered
      /\ TypeOKLogin /\ TypeOKSensors /\ TypeOKQueries /\ guard \in BOOLEAN
  BY Facts DEF IInv, TypeOK, TypeOK0
<1>2. /\ saveQ < MaxSaves /\ saveQ' = saveQ + 1
      /\ UNCHANGED <<hitQ, inFlight, downloads, hitAnswers, dropped, alive, card, guard, shown, up, webprocess, counters, freed>>
      /\ \/ saveAnswers' = saveAnswers \cup {saveQ + 1} /\ UNCHANGED <<evals, news>>
         \/ Send(news, <<[op |-> "src"]>>) /\ UNCHANGED saveAnswers
  BY DEF SaveImage
<1>3. UNCHANGED <<held, released, recent, failsafes, probing, pushing, sock, pushFor, gen, wants, sensord>>
  BY DEF login, sensors, world
<1>4. saveQ' \in Saves /\ saveQ' # 0
  <2>1. saveQ \in Nat /\ MaxSaves \in Nat
    BY <1>1, QueryAssumption DEF TypeOKQueries, Saves
  <2> QED BY <2>1, <1>2 DEF Saves
<1>5. TypeOKLogin' /\ TypeOKSensors' /\ TypeOKQueries' /\ PushedToAsker' /\ (failsafes' = 1 => recent')
  BY <1>1, <1>2, <1>3, <1>4 DEF TypeOKLogin, TypeOKSensors, TypeOKQueries, PushedToAsker, Numbered
<1> DEFINE ev == [op |-> "src"]
           M == {m \in Message : ~up /\ m.is = "failed" /\ m.of = ev}
           E == {x \in {ev} : up}
<1>6. CASE UNCHANGED <<evals, news>>
  <2>1. Moves(0, {}, 0, {})
    BY <1>1, <1>6, Holds
  <2>2. Questioned'
    BY <2>1, <1>1, <1>2, <1>4, QuestionedKept
  <2>3. Quiet => Quiet'
    BY <2>1, <1>3, QuietKept DEF Quiet
  <2> QED BY <2>1, <2>2, <2>3, <1>1, <1>2, <1>3, <1>5, PlainStep
<1>7. CASE Send(news, <<ev>>)
  <2>1. ev \in Evaluation /\ ev.op = "src"
    BY EvaluationKinds
  <2>2. news \in Seq(Message) /\ Shift(news, news, 0) /\ Len(news) + 0 = Len(news)
    BY <1>1, Stays DEF Typed
  <2> HIDE DEF ev
  <2>3. Moves(0, M, 0, E)
    BY <2>1, <2>2, <1>1, <1>7, Sent
  <2>4. /\ \A m \in M : m.is = "failed" /\ m.of.op = "src"
        /\ \A x \in E : x.op = "src" /\ up
    BY <2>1
  <2> HIDE DEF M, E
  <2>5. Questioned'
    BY <2>3, <2>4, <1>1, <1>2, <1>4, QuestionedKept
  <2>6. Quiet => Quiet'
    BY <2>3, <2>4, <1>3, QuietKept DEF Quiet
  <2> QED BY <2>3, <2>4, <2>5, <2>6, <1>1, <1>2, <1>3, <1>5, PlainStep
<1> QED BY <1>2, <1>6, <1>7

LEMMA DownloadKeeps ==
  ASSUME IInv, NEW dl \in downloads, DownloadDone(dl), UNCHANGED <<login, sensors, world>>
  PROVE  IInv'
<1>1. /\ TypeOK /\ Questioned /\ Numbered /\ guard \in BOOLEAN
      /\ TypeOKLogin /\ TypeOKSensors /\ TypeOKQueries
  BY DEF IInv, TypeOK, TypeOK0
<1>2. UNCHANGED <<alive, card, guard, shown, up, webprocess, evals, news, counters, freed, hitQ, saveQ, hitAnswers, dropped>>
  BY DEF DownloadDone, vars0
<1>3. UNCHANGED <<held, released, recent, failsafes, probing, pushing, sock, pushFor, gen, wants, sensord>>
  BY DEF login, sensors, world
<1>4. TypeOKLogin' /\ TypeOKSensors' /\ (failsafes' = 1 => recent')
  BY <1>1, <1>2, <1>3 DEF TypeOKLogin, TypeOKSensors, Numbered
<1>5. TypeOKQueries'
  <2>1. dl.q \in Saves
    BY <1>1 DEF TypeOKQueries
  <2> QED BY <2>1, <1>1, <1>2 DEF TypeOKQueries, DownloadDone
<1> QED BY <1>1, <1>2, <1>3, <1>4, <1>5, IdleStep

LEMMA ProbeTimerKeeps ==
  ASSUME IInv, ProbeTimer, UNCHANGED <<login, queries>>
  PROVE  IInv'
<1>1. /\ TypeOK /\ Typed /\ Questioned /\ PushedToAsker /\ Numbered /\ gen \in Nat
      /\ TypeOKLogin /\ TypeOKSensors /\ TypeOKQueries /\ guard \in BOOLEAN
  BY Facts DEF IInv, TypeOK, TypeOK0
<1> DEFINE ev == [op |-> "probe", gen |-> gen]
           M == {m \in Message : ~up /\ m.is = "failed" /\ m.of = ev}
           E == {x \in {ev} : up}
<1>2. /\ probing /\ Send(news, <<ev>>)
      /\ UNCHANGED <<sensors, world, alive, card, guard, shown, up, webprocess, counters, freed>>
  BY DEF ProbeTimer
<1>3. /\ UNCHANGED <<held, released, recent, failsafes, probing, pushing, sock, pushFor, gen, wants, sensord>>
      /\ UNCHANGED <<hitQ, saveQ, inFlight, downloads, hitAnswers, saveAnswers, dropped>>
  BY <1>2 DEF login, sensors, world, queries
<1>4. TypeOKLogin' /\ TypeOKSensors' /\ TypeOKQueries' /\ PushedToAsker' /\ (failsafes' = 1 => recent')
  BY <1>1, <1>2, <1>3 DEF TypeOKLogin, TypeOKSensors, TypeOKQueries, PushedToAsker, Numbered, Questioned
<1>5. ev \in Evaluation /\ ev.op = "probe" /\ ev.gen = gen
  BY <1>1, EvaluationKinds
<1>6. news \in Seq(Message) /\ Shift(news, news, 0) /\ Len(news) + 0 = Len(news)
  BY <1>1, Stays DEF Typed
<1> HIDE DEF ev
<1>7. Moves(0, M, 0, E)
  BY <1>5, <1>6, <1>1, <1>2, Sent
<1>8. /\ \A m \in M : m.is = "failed" /\ m.of.op = "probe"
      /\ \A x \in E : x.op = "probe" /\ up /\ x.gen <= gen
  BY <1>1, <1>5
<1> HIDE DEF M, E
<1>9. Questioned'
  BY <1>7, <1>8, <1>1, <1>3, <1>4, QuestionedKept
<1>10. Quiet => Quiet'
  BY <1>2 DEF Quiet
<1> QED BY <1>1, <1>2, <1>3, <1>4, <1>7, <1>8, <1>9, <1>10, PlainStep

LEMMA IdleKeeps ==
  ASSUME IInv,
         \/ (GuardOver \/ SiblingReloads) /\ UNCHANGED <<login, sensors, world, queries>>
         \/ DeferAgain /\ UNCHANGED <<sensors, world, queries>>
         \/ (PushTimer \/ Listen \/ SensordToggles) /\ UNCHANGED <<login, queries>>
  PROVE  IInv'
<1>1. /\ TypeOK /\ Questioned /\ Numbered /\ guard \in BOOLEAN /\ failsafes \in 0 .. 1
      /\ TypeOKLogin /\ TypeOKSensors /\ TypeOKQueries
  BY Facts DEF IInv, TypeOK, TypeOK0
<1>2. CASE (GuardOver \/ SiblingReloads) /\ UNCHANGED <<login, sensors, world, queries>>
  <2>1. /\ UNCHANGED <<alive, card, shown, up, webprocess, evals, news, counters, freed>>
        /\ UNCHANGED <<held, released, recent, failsafes, probing, pushing, sock, pushFor, gen, wants, sensord>>
        /\ UNCHANGED <<hitQ, saveQ, inFlight, downloads, hitAnswers, saveAnswers, dropped>>
        /\ guard' \in BOOLEAN
    BY <1>2 DEF GuardOver, SiblingReloads, login, sensors, world, queries
  <2>2. TypeOKLogin' /\ TypeOKSensors' /\ TypeOKQueries' /\ (failsafes' = 1 => recent')
    BY <1>1, <2>1 DEF TypeOKLogin, TypeOKSensors, TypeOKQueries, Numbered, Questioned
  <2> QED BY <2>1, <2>2, IdleStep
<1>3. CASE DeferAgain /\ UNCHANGED <<sensors, world, queries>>
  <2>1. /\ UNCHANGED <<alive, card, guard, shown, up, webprocess, evals, news, counters, freed>>
        /\ UNCHANGED <<held, released, failsafes, probing, pushing, sock, pushFor, gen, wants, sensord>>
        /\ UNCHANGED <<hitQ, saveQ, inFlight, downloads, hitAnswers, saveAnswers, dropped>>
        /\ failsafes = 0 /\ recent' = FALSE
    BY <1>3 DEF DeferAgain, vars0, sensors, world, queries
  <2>2. TypeOKLogin' /\ (failsafes' = 1 => recent')
    <3>1. failsafes' # 1 /\ failsafes' \in 0 .. 1
      BY <2>1
    <3>2. recent' \in BOOLEAN
      BY <2>1
    <3> QED BY <1>1, <2>1, <3>1, <3>2 DEF TypeOKLogin
  <2>3. TypeOKSensors' /\ TypeOKQueries'
    BY <1>1, <2>1 DEF TypeOKSensors, TypeOKQueries, Questioned
  <2> QED BY <1>1, <2>1, <2>2, <2>3, IdleStep
<1>4. CASE (PushTimer \/ Listen \/ SensordToggles) /\ UNCHANGED <<login, queries>>
  <2>1. /\ UNCHANGED <<alive, card, guard, shown, up, webprocess, evals, news, counters, freed>>
        /\ UNCHANGED <<held, released, recent, failsafes, probing, pushing, pushFor, gen>>
        /\ UNCHANGED <<hitQ, saveQ, inFlight, downloads, hitAnswers, saveAnswers, dropped>>
        /\ wants' => wants \/ opened
    BY <1>4 DEF PushTimer, Listen, SensordToggles, vars0, login, sensors, world, queries
  <2>2. TypeOKSensors'
    BY <1>1, <1>4, <2>1 DEF TypeOKSensors, PushTimer, Listen, SensordToggles, world, sensors
  <2>3. TypeOKLogin' /\ TypeOKQueries' /\ (failsafes' = 1 => recent')
    BY <1>1, <2>1 DEF TypeOKLogin, TypeOKQueries, Numbered, Questioned
  <2> QED BY <1>1, <2>1, <2>2, <2>3, IdleStep
<1> QED BY <1>2, <1>3, <1>4


-----------------------------------------------------------------------------
(* The decisions.                                                           *)
LEMMA RestMoves ==
  ASSUME Typed, NEW rest \in Seq(Message), NEW d, Shift(news, rest, d), Len(rest) + d = Len(news),
         news' = rest, evals' = evals
  PROVE  Moves(d, {}, 0, {})
<1>1. Shift(evals, evals, 0)
  BY Stays DEF Typed
<1>2. \A i \in DOMAIN rest : ~(i + d > Len(news))
  BY DEF Shift, From
<1>3. \A i \in DOMAIN evals : ~(i + 0 > Len(evals))
  BY DEF Typed
<1> QED BY <1>1, <1>2, <1>3 DEF Moves, Typed, Shift

(* A decision is sent: N was asked about, and is not undecided any longer.  *)
LEMMA Decides ==
  ASSUME IInv, NEW rest \in Seq(Message), NEW d, Shift(news, rest, d), Len(rest) + d = Len(news),
         d = 1 => news[1].is \notin {"started", "committed"},
         NEW N \in Navs, NEW op \in {"use", "ignore"}, Decide(N, op, rest),
         N <= navs, released[N] = 0, held' # 0 => held' = held /\ held' # N,
         held' \in {0, held}, recent' \in BOOLEAN, failsafes' \in 0 .. 1, failsafes' = 1 => recent',
         \A i \in DOMAIN news : i > d /\ Tells(i, "policy") => news[i].n # N,
         \A i \in DOMAIN evals : Sends(i, "load") => evals[i].n # N,
         N = asking => \A j \in DOMAIN news : j > d => ~Tells(j, "policy"),
         UNCHANGED <<alive, card, guard, shown, up, webprocess, counters, freed, sensors, world, queries>>
  PROVE  IInv'
<1>1. /\ TypeOK /\ Typed /\ Questioned /\ PushedToAsker /\ Numbered /\ InTurn /\ navs \in Nat
      /\ TypeOKLogin /\ TypeOKSensors /\ TypeOKQueries /\ guard \in BOOLEAN
      /\ released \in [Navs -> 0 .. 1] /\ held \in {0} \cup Navs /\ asking \in {0} \cup Navs
  BY Facts DEF IInv, TypeOK, TypeOK0
<1> DEFINE ev == [op |-> op, n |-> N]
           M == {m \in Message : ~up /\ m.is = "failed" /\ m.of = ev}
           E == {x \in {ev} : up}
<1>2. released' = [released EXCEPT ![N] = 1] /\ Send(rest, <<ev>>)
  BY <1>1 DEF Decide
<1>3. /\ UNCHANGED <<view, prewarm, opened, crashes, navs, doc, going, asking, marks>>
      /\ UNCHANGED <<probing, pushing, sock, pushFor, gen, wants, sensord>>
      /\ UNCHANGED <<hitQ, saveQ, inFlight, downloads, hitAnswers, saveAnswers, dropped>>
  BY DEF card, webprocess, counters, sensors, world, queries
<1>4. ev \in Evaluation /\ ev.op = op /\ ev.n = N
  BY EvaluationKinds
<1> HIDE DEF ev
<1>5. Moves(d, M, 0, E)
  BY <1>1, <1>2, <1>4, Sent
<1>6. /\ \A m \in M : m.is = "failed" /\ m.of.op = op
      /\ \A x \in E : x.op = op /\ up /\ x.n = N
  BY <1>4
<1> HIDE DEF M, E
<1>7. Quiet => Quiet'
  BY <1>5, <1>6, <1>3, QuietKept DEF Quiet
<1>8. Running' /\ Probed' /\ Told' /\ Current' /\ Deaf'
  BY <1>3, <1>5, <1>6, <1>7, Plain
<1>9. Numbered'
  <2>1. /\ N \in {0} \cup Navs /\ navs' = navs /\ asking' \in {0, asking}
        /\ \A m \in M : m.is # "policy"
        /\ \A x \in E : x.op # "load" /\ (x.op \in {"use", "ignore"} => x.n = N)
        /\ held' # 0 => held' # N /\ (held' = held \/ (d = 1 /\ Tells(1, "policy") /\ held' = news[1].n))
        /\ navs' \in {navs, navs + 1} /\ asking \in {0} \cup Navs
    BY <1>1, <1>3, <1>6
  <2>2. \A n \in Navs : n # N => released'[n] = released[n]
    BY <1>1, <1>2
  <2>3. /\ Numbered /\ Typed /\ navs \in Nat /\ released \in [Navs -> 0 .. 1] /\ held \in {0} \cup Navs
        /\ N <= navs /\ (failsafes' = 1 => recent')
    BY <1>1
  <2>4. /\ \A i \in DOMAIN news : i > d /\ Tells(i, "policy") => news[i].n # N
        /\ \A i \in DOMAIN evals : Sends(i, "load") => evals[i].n # N
    OBVIOUS
  <2> QED BY ONLY <1>5, <2>1, <2>2, <2>3, <2>4, NumberedKept
<1>10. InTurn'
  <2>1. going' \in {0, going} /\ asking' \in {0, asking} /\ doc' = doc
    BY <1>3
  <2>2. /\ \A m \in M : m.is # "policy"
        /\ \A x \in E : x.op # "snap" /\ x.n = N
    BY <1>6
  <2> QED BY <1>1, <1>5, <2>1, <2>2, InTurnKept
<1>11. TypeOK'
  <2>1. TypeOK0'
    BY <1>1, <1>5, TypeKept DEF Moves
  <2>2. TypeOKLogin'
    BY <1>1, <1>2 DEF TypeOKLogin
  <2>3. TypeOKSensors' /\ TypeOKQueries'
    BY <1>1, <1>3 DEF TypeOKSensors, TypeOKQueries
  <2> QED BY <2>1, <2>2, <2>3 DEF TypeOK
<1>12. Questioned'
  BY <1>1, <1>3, <1>5, <1>6, QuestionedKept
<1>13. PushedToAsker' /\ AsBuilt' /\ ProbeNeverUsesFreed'
  BY <1>3 DEF IInv, PushedToAsker, AsBuilt, ViewIsTheCards, ProbeNeverUsesFreed
<1> QED BY <1>8, <1>9, <1>10, <1>11, <1>12, <1>13 DEF IInv

LEMMA Releases ==
  ASSUME IInv, NEW rest \in Seq(Message), NEW d, Shift(news, rest, d), Len(rest) + d = Len(news),
         d = 1 => news[1].is \in {"captured", "failed"},
         ReleaseHeld(rest) \/ (UNCHANGED <<held, released, evals>> /\ news' = rest),
         recent' = recent, failsafes' \in 0 .. 1, failsafes' <= failsafes,
         UNCHANGED <<alive, card, guard, shown, up, webprocess, counters, freed, sensors, world, queries>>
  PROVE  IInv'
<1>1. /\ TypeOK /\ Typed /\ Questioned /\ PushedToAsker /\ Numbered /\ InTurn /\ navs \in Nat
      /\ TypeOKLogin /\ TypeOKSensors /\ TypeOKQueries /\ guard \in BOOLEAN /\ failsafes \in 0 .. 1
      /\ released \in [Navs -> 0 .. 1] /\ held \in {0} \cup Navs /\ asking \in {0} \cup Navs
  BY Facts DEF IInv, TypeOK, TypeOK0
<1>2. failsafes' = 1 => recent'
  BY <1>1 DEF Numbered
<1>3. CASE UNCHANGED <<held, released, evals>> /\ news' = rest
  <2>1. /\ UNCHANGED <<probing, pushing, sock, pushFor, gen, wants, sensord>>
        /\ UNCHANGED <<hitQ, saveQ, inFlight, downloads, hitAnswers, saveAnswers, dropped>>
    BY DEF sensors, world, queries
  <2>2. Moves(d, {}, 0, {})
    BY <1>1, <1>3, RestMoves
  <2>3. Quiet => Quiet'
    BY <2>1, <2>2, QuietKept DEF Quiet
  <2>4. TypeOKLogin' /\ TypeOKSensors' /\ TypeOKQueries' /\ PushedToAsker'
    BY <1>1, <1>3, <2>1 DEF TypeOKLogin, TypeOKSensors, TypeOKQueries, PushedToAsker, Questioned
  <2>5. Questioned'
    BY <1>1, <2>1, <2>2, <2>4, QuestionedKept
  <2> QED BY <1>1, <1>2, <1>3, <2>1, <2>2, <2>3, <2>4, <2>5, PlainStep
<1>4. CASE held # 0 /\ held' = 0 /\ Decide(held, "use", rest)
  <2>1. held \in Navs /\ held <= navs /\ released[held] = 0
    BY <1>1, <1>4 DEF Numbered
  <2>2. /\ \A i \in DOMAIN news : i > d /\ Tells(i, "policy") => news[i].n # held
        /\ \A i \in DOMAIN evals : Sends(i, "load") => evals[i].n # held
    BY <1>1 DEF Numbered
  <2>3. held = asking => \A j \in DOMAIN news : j > d => ~Tells(j, "policy")
    BY <1>1, <1>4 DEF InTurn
  <2>4. recent' \in BOOLEAN
    BY <1>1 DEF TypeOKLogin
  <2> QED BY <1>2, <1>4, <2>1, <2>2, <2>3, <2>4, Decides
<1> QED BY <1>3, <1>4 DEF ReleaseHeld

LEMMA CapturedKeeps ==
  ASSUME IInv, OnCaptured
  PROVE  IInv'
<1>1. TypeOK /\ Typed /\ failsafes \in 0 .. 1
  BY Facts DEF IInv
<1>2. /\ news # <<>> /\ Msg.is \in {"captured", "failed"} /\ CapturedNews(Rest)
      /\ UNCHANGED <<alive, card, guard, shown, up, webprocess, counters, freed, sensors, world, queries>>
  BY DEF OnCaptured, Got, Fails, Msg, KeepPage, counters
<1>3. /\ Rest \in Seq(Message) /\ Shift(news, Rest, 1) /\ Len(Rest) + 1 = Len(news)
      /\ news[1].is \in {"captured", "failed"}
  BY <1>1, <1>2, Rests
<1>4. /\ ReleaseHeld(Rest) \/ (UNCHANGED <<held, released, evals>> /\ news' = Rest)
      /\ UNCHANGED <<recent, failsafes>>
  BY <1>2 DEF CapturedNews
<1> QED BY <1>1, <1>2, <1>3, <1>4, Releases

LEMMA FailsafeKeeps ==
  ASSUME IInv, Failsafe, UNCHANGED <<sensors, world, queries>>
  PROVE  IInv'
<1>1. TypeOK /\ Typed /\ failsafes \in 0 .. 1
  BY Facts DEF IInv
<1>2. /\ failsafes > 0 /\ failsafes' = failsafes - 1 /\ UNCHANGED recent
      /\ ReleaseHeld(news) \/ (UNCHANGED <<held, released, evals>> /\ news' = news)
      /\ UNCHANGED <<alive, card, guard, shown, up, webprocess, counters, freed>>
  BY DEF Failsafe
<1>3. news \in Seq(Message) /\ Shift(news, news, 0) /\ Len(news) + 0 = Len(news)
  BY <1>1, Stays DEF Typed
<1>4. failsafes' \in 0 .. 1 /\ failsafes' <= failsafes
  BY <1>1, <1>2
<1> QED BY <1>2, <1>3, <1>4, Releases

(* onDecidePolicy: the navigation is held and its page is scraped, or it is *)
(* decided at once.                                                         *)
LEMMA PolicyKeeps ==
  ASSUME IInv, OnPolicy
  PROVE  IInv'
<1>1. /\ TypeOK /\ Typed /\ Questioned /\ PushedToAsker /\ Numbered /\ InTurn /\ navs \in Nat
      /\ TypeOKLogin /\ TypeOKSensors /\ TypeOKQueries /\ guard \in BOOLEAN /\ failsafes \in 0 .. 1
      /\ released \in [Navs -> 0 .. 1] /\ held \in {0} \cup Navs /\ asking \in {0} \cup Navs
  BY Facts DEF IInv, TypeOK, TypeOK0
<1>2. /\ news # <<>> /\ Msg.is = "policy" /\ PolicyNews(Msg, Rest)
      /\ UNCHANGED <<alive, card, guard, shown, up, webprocess, counters, freed, sensors, world, queries>>
  BY DEF OnPolicy, Got, Msg, KeepPage, counters
<1> DEFINE p == news[1]
<1>3. /\ Rest \in Seq(Message) /\ Shift(news, Rest, 1) /\ Len(Rest) + 1 = Len(news)
      /\ Msg = p /\ p \in Message /\ p.is = "policy" /\ Tells(1, "policy") /\ 1 \in DOMAIN news
  BY <1>1, <1>2, Rests DEF Tells
<1>4. p.n \in Navs /\ p.from \in {0} \cup Navs
  BY <1>3, MessageParts
<1>5. /\ p.n <= navs /\ released[p.n] = 0 /\ held # p.n
      /\ \A i \in DOMAIN news : i > 1 /\ Tells(i, "policy") => news[i].n # p.n
      /\ \A i \in DOMAIN evals : Sends(i, "load") => evals[i].n # p.n
  BY <1>1, <1>3 DEF Numbered
<1>6. p.n = asking => \A j \in DOMAIN news : j > 1 => ~Tells(j, "policy")
  BY <1>1, <1>3 DEF InTurn
<1> HIDE DEF p
<1>7. CASE /\ p.kind \in {"form", "other"} /\ held = 0 /\ ~recent
           /\ held' = p.n /\ recent' = TRUE /\ failsafes' = failsafes + 1 /\ UNCHANGED released
           /\ Send(Rest, <<[op |-> "snap", from |-> p.from]>>)
  <2> DEFINE ev == [op |-> "snap", from |-> p.from]
             M == {m \in Message : ~up /\ m.is = "failed" /\ m.of = ev}
             E == {x \in {ev} : up}
  <2>1. ev \in Evaluation /\ ev.op = "snap" /\ ev.from = p.from
    BY <1>4, EvaluationKinds
  <2>2. Send(Rest, <<ev>>)
    BY <1>7
  <2> HIDE DEF ev
  <2>3. Moves(1, M, 0, E)
    BY <1>1, <1>3, <2>1, <2>2, Sent
  <2>4. /\ \A m \in M : m.is = "failed" /\ m.of.op = "snap"
        /\ \A x \in E : x.op = "snap" /\ up /\ x.from = p.from
    BY <2>1
  <2> HIDE DEF M, E
  <2>5. /\ UNCHANGED <<view, prewarm, opened, crashes, navs, doc, going, asking, marks>>
        /\ UNCHANGED <<probing, pushing, sock, pushFor, gen, wants, sensord>>
        /\ UNCHANGED <<hitQ, saveQ, inFlight, downloads, hitAnswers, saveAnswers, dropped>>
    BY <1>2 DEF card, webprocess, counters, sensors, world, queries
  <2>6. Quiet => Quiet'
    BY <2>3, <2>4, <2>5, QuietKept DEF Quiet
  <2>7. Running' /\ Probed' /\ Told' /\ Current' /\ Deaf'
    <3>1. news[1].is \notin {"started", "committed"}
      BY <1>3 DEF p
    <3> QED BY <3>1, <1>2, <2>3, <2>4, <2>5, <2>6, Plain
  <2>8. failsafes' = 1 /\ recent'
    <3>1. failsafes = 0
      BY <1>1, <1>7 DEF Numbered
    <3> QED BY <3>1, <1>7
  <2>9. Numbered'
    <3>1. /\ 0 \in {0} \cup Navs /\ 0 <= navs /\ navs' = navs /\ asking' \in {0, asking}
          /\ \A m \in M : m.is # "policy"
          /\ \A x \in E : x.op # "load" /\ (x.op \in {"use", "ignore"} => x.n = 0)
          /\ \A n \in Navs : n # 0 => released'[n] = released[n]
      BY <1>1, <1>7, <2>4, <2>5
    <3>2. \A i \in DOMAIN news : i > 1 /\ Tells(i, "policy") => news[i].n # 0
      BY <1>1, MessageParts, ElementOfSeq DEF Typed, Tells, Navs
    <3>3. \A i \in DOMAIN evals : Sends(i, "load") => evals[i].n # 0
      BY <1>1, MessageParts, ElementOfSeq DEF Typed, Sends, Navs
    <3>4. held' # 0 => held' # 0 /\ (held' = held \/ (1 = 1 /\ Tells(1, "policy") /\ held' = news[1].n))
      BY <1>3, <1>7 DEF p
    <3> QED BY <1>1, <2>3, <2>8, <3>1, <3>2, <3>3, <3>4, NumberedKept
  <2>10. InTurn'
    <3>1. up => p.from = doc
      BY <1>1, <1>3 DEF InTurn, p
    <3>2. going = 0 /\ \A i \in DOMAIN evals : Sends(i, "use") => evals[i].n # asking
      BY <1>1, <1>3 DEF InTurn
    <3>3. asking # held' \/ \A j \in DOMAIN news : j > 1 => ~Tells(j, "policy")
      BY <1>6, <1>7
    <3>4. /\ going' \in {0, going} /\ asking' \in {0, asking} /\ doc' = doc /\ up' = up
          /\ \A m \in M : m.is # "policy"
          /\ \A x \in E : x.op # "use" /\ x.from = doc
      BY <1>2, <2>4, <2>5, <3>1
    <3> QED BY <1>1, <2>3, <3>2, <3>3, <3>4, InTurnKept
  <2>11. TypeOK'
    <3>1. TypeOK0'
      BY <1>1, <1>2, <2>3, TypeKept DEF Moves
    <3>2. TypeOKLogin'
      BY <1>1, <1>4, <1>7, <2>8 DEF TypeOKLogin
    <3>3. TypeOKSensors' /\ TypeOKQueries'
      BY <1>1, <2>5, <1>2 DEF TypeOKSensors, TypeOKQueries
    <3> QED BY <3>1, <3>2, <3>3 DEF TypeOK
  <2>12. Questioned'
    BY <1>1, <2>3, <2>4, <2>5, QuestionedKept
  <2>13. PushedToAsker' /\ AsBuilt' /\ ProbeNeverUsesFreed'
    BY <1>2, <2>5 DEF IInv, PushedToAsker, AsBuilt, ViewIsTheCards, ProbeNeverUsesFreed
  <2> QED BY <2>7, <2>9, <2>10, <2>11, <2>12, <2>13 DEF IInv
<1>8. CASE /\ Decide(p.n, IF p.kind = "handoff" THEN "ignore" ELSE "use", Rest)
           /\ UNCHANGED <<held, recent, failsafes>>
  <2> DEFINE op == IF p.kind = "handoff" THEN "ignore" ELSE "use"
  <2>1. op \in {"use", "ignore"} /\ Decide(p.n, op, Rest)
    BY <1>8
  <2> HIDE DEF op
  <2>2. /\ held' # 0 => held' = held /\ held' # p.n
        /\ held' \in {0, held} /\ recent' \in BOOLEAN /\ failsafes' \in 0 .. 1 /\ (failsafes' = 1 => recent')
    BY <1>1, <1>5, <1>8 DEF TypeOKLogin, Numbered
  <2>3. news[1].is \notin {"started", "committed"}
    BY <1>3 DEF p
  <2> QED BY <1>2, <1>3, <1>4, <1>5, <1>6, <2>1, <2>2, <2>3, Decides
<1>9. PolicyNews(p, Rest)
  BY <1>2, <1>3
<1> QED BY <1>7, <1>8, <1>9 DEF PolicyNews


-----------------------------------------------------------------------------
(* onLoadChanged.                                                           *)
LEMMA LoadChangedKeeps ==
  ASSUME IInv, OnLoadChanged
  PROVE  IInv'
<1>1. /\ TypeOK /\ Typed /\ Questioned /\ PushedToAsker /\ Numbered /\ Running /\ Probed /\ Told /\ Current /\ Deaf
      /\ TypeOKLogin /\ TypeOKSensors /\ TypeOKQueries /\ TypeOK0 /\ navs \in Nat /\ gen \in Nat
      /\ MaxNavs \in Nat /\ crashes \in Nat /\ guard \in BOOLEAN
  BY Facts DEF IInv, TypeOK, TypeOK0
<1>2. /\ news # <<>> /\ Msg.is \in {"started", "committed", "finished"} /\ news' = Rest /\ evals' = evals
      /\ Msg.is = "started" => StopSensors /\ UNCHANGED shown
      /\ Msg.is = "committed" => shown' = Msg.n /\ UNCHANGED sensors
      /\ Msg.is = "finished" => StartProbe /\ UNCHANGED shown
      /\ UNCHANGED <<alive, card, guard, up, webprocess, counters, freed, login, world, queries>>
  BY DEF OnLoadChanged, Got, Msg, KeepPage, counters
<1>3. /\ Moves(1, {}, 0, {}) /\ Msg = news[1] /\ 1 \in DOMAIN news /\ news[1] \in Message
  BY <1>1, <1>2, Pops, Rests
<1>4. /\ UNCHANGED <<view, prewarm, opened, crashes, navs, doc, going, asking, marks>>
      /\ UNCHANGED <<held, released, recent, failsafes, wants, sensord>>
      /\ UNCHANGED <<hitQ, saveQ, inFlight, downloads, hitAnswers, saveAnswers, dropped>>
  BY <1>2 DEF card, webprocess, counters, login, world, queries
<1>5. Running'
  BY <1>1, <1>2, <1>3, <1>4, RunningKept
<1>6. Numbered' /\ InTurn'
  BY <1>1, <1>2, <1>3, <1>4, PlainTurn DEF Numbered
<1>7. Deaf'
  <2>1. \A i \in DOMAIN news' : \E j \in DOMAIN news : news'[i] = news[j]
    BY <1>3, MovesFrom
  <2> QED BY <1>1, <1>4, <2>1, DeafKept DEF Deaf
<1>8. Questioned'
  BY <1>1, <1>3, <1>4, QuestionedKept
<1>9. AsBuilt' /\ ProbeNeverUsesFreed'
  BY <1>2, <1>4 DEF IInv, AsBuilt, ViewIsTheCards, ProbeNeverUsesFreed
<1>10. TypeOKLogin' /\ TypeOKQueries'
  BY <1>1, <1>4 DEF TypeOKLogin, TypeOKQueries
<1>11. CASE Msg.is = "started"
  <2>1. /\ probing' = FALSE /\ pushing' = FALSE /\ sock' = "none" /\ pushFor' = 0 /\ gen' = gen + 1 /\ shown' = shown
        /\ Tells(1, "started")
    BY <1>2, <1>3, <1>11 DEF StopSensors, Tells
  <2>2. Quiet'
    BY <1>1, <1>3, <2>1, QuietStopped
  <2>3. Probed'
    BY <1>1, <1>2, <1>3, <1>4, <2>1, <2>2, ProbedStarted
  <2>4. Told'
    <3>1. ~Tells(1, "committed")
      BY <2>1 DEF Tells
    <3> QED BY <1>1, <1>3, <1>4, <2>1, <3>1, ToldKept
  <2>5. Current' /\ PushedToAsker'
    BY <2>1, <2>2, CurrentQuiet DEF PushedToAsker
  <2>6. TypeOK'
    <3>1. TypeOK0'
      BY <1>1, <1>2, <1>3, <2>1, TypeKept DEF Moves
    <3>2. TypeOKSensors'
      <4>1. gen' \in Nat /\ {wants, sensord} \subseteq BOOLEAN
        BY <1>1, <2>1 DEF TypeOKSensors
      <4> QED BY <4>1, <1>4, <2>1 DEF TypeOKSensors
    <3> QED BY <1>10, <3>1, <3>2 DEF TypeOK
  <2> QED BY <1>5, <1>6, <1>7, <1>8, <1>9, <2>3, <2>4, <2>5, <2>6 DEF IInv
<1>12. CASE Msg.is = "committed"
  <2>1. /\ shown' = news[1].n /\ UNCHANGED <<probing, pushing, sock, gen, pushFor>>
        /\ Tells(1, "committed") /\ news[1].n \in Navs
    BY <1>2, <1>3, <1>12, MessageParts DEF Tells, sensors
  <2>2. Quiet
    <3>1. Commits(1) /\ 1 \in 1 .. Len(news) + 1 /\ \A j \in DOMAIN news : ~(j < 1)
      BY <1>1, <1>3, <2>1 DEF Commits, Typed
    <3> QED BY <1>1, <3>1 DEF Probed
  <2>3. Quiet'
    BY <1>3, <2>1, <2>2, QuietKept DEF Quiet
  <2>4. Probed'
    <3>1. ~Tells(1, "started")
      BY <2>1 DEF Tells
    <3> QED BY <1>1, <1>2, <1>3, <1>4, <2>1, <2>3, <3>1, ProbedKept
  <2>5. Told'
    <3>1. /\ \A i \in DOMAIN news' : i + 1 \in DOMAIN news /\ i + 1 > 1 /\ news'[i] = news[i + 1]
          /\ \A j \in DOMAIN news : j > 1 => j - 1 \in DOMAIN news' /\ news'[j - 1] = news[j]
          /\ DOMAIN news = 1 .. Len(news) /\ DOMAIN news' = 1 .. Len(news')
      BY <1>3 DEF Moves, Shift, From
    <3>2. \A i \in DOMAIN news' : Tells(i, "committed")' => Tells(i + 1, "committed") /\ i + 1 \in DOMAIN news
      BY <3>1 DEF Tells
    <3> SUFFICES ASSUME doc # 0
                 PROVE  \/ \E i \in DOMAIN news' : /\ Tells(i, "committed")' /\ news'[i].n = doc
                                                   /\ \A j \in DOMAIN news' : j > i => ~Tells(j, "committed")'
                        \/ shown' = doc /\ \A i \in DOMAIN news' : ~Tells(i, "committed")'
      BY <1>4 DEF Told
    <3>3. PICK i \in DOMAIN news : /\ Tells(i, "committed") /\ news[i].n = doc
                                   /\ \A j \in DOMAIN news : j > i => ~Tells(j, "committed")
      BY <1>1, <1>3, <2>1 DEF Told
    <3>4. CASE i = 1
      <4>1. \A j \in DOMAIN news' : ~Tells(j, "committed")'
        BY <3>1, <3>2, <3>3, <3>4
      <4> QED BY <2>1, <3>3, <3>4, <4>1
    <3>5. CASE i > 1
      <4>1. i - 1 \in DOMAIN news' /\ Tells(i - 1, "committed")' /\ news'[i - 1].n = doc
        BY <3>1, <3>3, <3>5 DEF Tells
      <4>2. \A j \in DOMAIN news' : j > i - 1 => ~Tells(j, "committed")'
        <5>1. \A j \in DOMAIN news' : j > i - 1 => j + 1 > i
          BY <3>1, <3>3
        <5> QED BY <5>1, <3>2, <3>3
      <4> QED BY <4>1, <4>2
    <3> QED BY <3>1, <3>4, <3>5
  <2>6. Current' /\ PushedToAsker'
    BY <2>3, CurrentQuiet DEF PushedToAsker, Quiet
  <2>7. TypeOK'
    <3>1. TypeOK0'
      <4>1. shown' \in {0} \cup Navs /\ news' \in Seq(Message) /\ evals' \in Seq(Evaluation)
        BY <1>3, <2>1 DEF Moves
      <4>2. UNCHANGED <<alive, marks, view, prewarm, opened, guard, up, doc, asking, going, loading, navs, crashes, freed>>
        BY <1>2 DEF card, webprocess, counters
      <4>3. TypeOK0
        BY <1>1
      <4> QED BY <4>1, <4>2, <4>3 DEF TypeOK0
    <3>2. TypeOKSensors'
      BY <1>1, <1>4, <2>1 DEF TypeOKSensors
    <3> QED BY <1>10, <3>1, <3>2 DEF TypeOK
  <2> QED BY <1>5, <1>6, <1>7, <1>8, <1>9, <2>4, <2>5, <2>6, <2>7 DEF IInv
<1>13. CASE Msg.is = "finished"
  <2>1. /\ probing' = TRUE /\ UNCHANGED <<pushing, sock, gen, pushFor, shown>> /\ Tells(1, "finished")
        /\ news[1].is = "finished"
    BY <1>2, <1>3, <1>13 DEF StartProbe, Tells
  <2>2. \A k \in 1 .. Len(news) + 1 : Commits(k) => 1 < k
    <3>1. 1 # Len(news) + 1 /\ ~Tells(1, "committed") /\ Len(news) \in Nat
      BY <1>1, <1>3, <2>1 DEF Tells, Typed
    <3> QED BY <3>1 DEF Commits
  <2>3. ~\E k \in 1 .. Len(news) + 1 : Commits(k) /\ \A i \in DOMAIN news : i < k => ~Tells(i, "finished")
    BY <1>3, <2>1, <2>2
  <2>4. Probed'
    <3>1. ~Tells(1, "started")
      BY <2>1 DEF Tells
    <3> QED BY <1>1, <1>2, <1>3, <1>4, <2>1, <2>3, <3>1, ProbedKept
  <2>5. Told' /\ Current'
    <3>1. ~Tells(1, "committed") /\ ~Tells(1, "started")
      BY <2>1 DEF Tells
    <3>2. Told'
      BY <1>1, <1>3, <1>4, <2>1, <3>1, ToldKept
    <3>3. Current'
      BY <1>1, <1>3, <1>4, <2>1, <3>1, CurrentKept
    <3> QED BY <3>2, <3>3
  <2>6. PushedToAsker'
    BY <1>1, <2>1 DEF PushedToAsker
  <2>7. TypeOK'
    <3>1. TypeOK0'
      BY <1>1, <1>2, <1>3, <2>1, TypeKept DEF Moves
    <3>2. TypeOKSensors'
      BY <1>1, <1>4, <2>1 DEF TypeOKSensors
    <3> QED BY <1>10, <3>1, <3>2 DEF TypeOK
  <2> QED BY <1>5, <1>6, <1>7, <1>8, <1>9, <2>4, <2>5, <2>6, <2>7 DEF IInv
<1> QED BY <1>2, <1>11, <1>12, <1>13

-----------------------------------------------------------------------------
(* A load is sent to the WebProcess, which may be a new one.                *)
LEMMA Loaded ==
  ASSUME IInv, NEW rest \in Seq(Message), NEW d, Shift(news, rest, d), Len(rest) + d = Len(news),
         news' = rest, navs' = navs + 1, navs' <= MaxNavs + crashes, up' = TRUE,
         evals' = Append(evals, [op |-> "load", n |-> navs + 1]),
         \A i \in DOMAIN rest : rest[i].is # "terminated",
         d = 1 => Tells(1, "terminated"),
         alive, view' = marks', marks' \subseteq Marks, prewarm' \in BOOLEAN, prewarm' => marks' = {},
         opened' \in BOOLEAN, opened => opened', opened' \/ prewarm', guard' \in BOOLEAN,
         UNCHANGED <<alive, shown, webprocess, crashes, freed, login, sensors, world, queries>>
  PROVE  IInv'
<1>1. /\ TypeOK /\ Typed /\ Questioned /\ PushedToAsker /\ Numbered /\ Running /\ Probed /\ Told /\ Current /\ Deaf
      /\ InTurn /\ TypeOKLogin /\ TypeOKSensors /\ TypeOKQueries /\ TypeOK0 /\ navs \in Nat /\ gen \in Nat
      /\ MaxNavs \in Nat /\ crashes \in 0 .. MaxCrashes /\ held \in {0} \cup Navs /\ asking \in Nat
      /\ MaxCrashes \in Nat
  BY Facts DEF IInv, TypeOK, Navs
<1>2. navs' \in Navs
  BY <1>1 DEF Navs
<1>3. /\ UNCHANGED <<doc, going, asking, loading, held, released, recent, failsafes, wants, sensord>>
      /\ UNCHANGED <<hitQ, saveQ, inFlight, downloads, hitAnswers, saveAnswers, dropped>>
      /\ UNCHANGED <<probing, pushing, sock, gen, pushFor>>
  BY DEF webprocess, login, sensors, world, queries
<1> DEFINE ev == [op |-> "load", n |-> navs + 1]
<1>4. ev \in Evaluation /\ ev.op = "load" /\ ev.n = navs + 1
  BY <1>2, EvaluationKinds
<1>5. Moves(d, {}, 0, {ev}) /\ \A i \in DOMAIN evals' : i + 0 <= Len(evals) + 1
  <2>1. \A i \in DOMAIN rest : ~(i + d > Len(news))
    BY DEF Shift, From
  <2>2. Shift(news, news', d) /\ news' \in Seq(Message) /\ \A i \in DOMAIN news' : ~(i + d > Len(news))
    BY <2>1
  <2>3. evals' = Append(evals, ev)
    OBVIOUS
  <2> HIDE DEF ev
  <2>4. Moves(d, {}, 0, {ev})
    BY <1>1, <1>4, <2>2, <2>3, Sends1
  <2>5. \A i \in DOMAIN evals' : i + 0 <= Len(evals) + 1
    BY <1>1, <1>4, <2>3 DEF Typed
  <2> QED BY <2>4, <2>5
<1>6. \A i \in DOMAIN news' : ~Tells(i, "terminated")'
  BY DEF Tells
<1>7. Running'
  BY <1>1, <1>6 DEF Running
<1>8. Numbered'
  BY <1>1, <1>2, <1>3, <1>5, NumberedLoad
<1> HIDE DEF ev
<1>9. InTurn'
  <2>1. CASE up
    <3>1. up' = up
      BY <1>1, <2>1
    <3>2. going' \in {0, going} /\ asking' \in {0, asking} /\ doc' = doc /\ held' \in {0, held}
      BY <1>3
    <3>3. \A x \in {ev} : x.op # "snap" /\ x.op # "use"
      BY <1>4
    <3> QED BY <1>1, <1>5, <3>1, <3>2, <3>3, InTurnKept
  <2>2. CASE ~up
    <3>1. evals = <<>>
      BY <1>1, <2>2 DEF Running
    <3>2. \A i \in DOMAIN evals' : evals'[i] = ev
      BY <1>4, <3>1, <1>5, MovesFrom
    <3>3. \A i \in DOMAIN evals' : ~Sends(i, "snap")'
      BY <3>2, <1>4 DEF Sends
    <3>4. ASSUME NEW i \in DOMAIN news', Tells(i, "policy")' PROVE FALSE
      <4>1. /\ i + d \in DOMAIN news /\ news'[i] = news[i + d] /\ i + d > d /\ d \in {0, 1}
            /\ \A j \in DOMAIN news : j > d => j - d \in DOMAIN rest /\ rest[j - d] = news[j]
            /\ DOMAIN news = 1 .. Len(news) /\ DOMAIN news' = 1 .. Len(news')
        BY <1>5 DEF Moves, Shift, From
      <4>2. PICK j \in DOMAIN news : j > i + d /\ Tells(j, "terminated")
        BY <1>1, <2>2, <3>4, <4>1 DEF InTurn, Tells
      <4>3. j > d
        BY <4>1, <4>2
      <4> QED BY <4>1, <4>2, <4>3 DEF Tells
    <3> QED BY <3>3, <3>4, InTurnClear
  <2> QED BY <2>1, <2>2
<1>10. Quiet => Quiet'
  BY <1>3, <1>4, <1>5, QuietKept DEF Quiet
<1>11. d = 1 => ~Tells(1, "started") /\ ~Tells(1, "committed")
  BY DEF Tells
<1>12. Probed'
  BY <1>1, <1>3, <1>4, <1>5, <1>10, <1>11, ProbedKept
<1>13. Told' /\ Current'
  <2>1. Told'
    BY <1>1, <1>3, <1>5, <1>11, ToldKept
  <2>2. Current'
    BY <1>1, <1>3, <1>5, <1>11, CurrentKept
  <2> QED BY <2>1, <2>2
<1>14. Deaf'
  <2>1. \A i \in DOMAIN news' : \E j \in DOMAIN news : news'[i] = news[j]
    BY <1>5, MovesFrom
  <2> QED BY <1>1, <1>3, <2>1, DeafKept DEF Deaf
<1>15. Questioned'
  BY <1>1, <1>3, <1>4, <1>5, QuestionedKept
<1>16. PushedToAsker' /\ AsBuilt' /\ ProbeNeverUsesFreed'
  BY <1>3 DEF IInv, PushedToAsker, AsBuilt, ViewIsTheCards, ProbeNeverUsesFreed
<1>17. TypeOK'
  <2>1. view' # NoView
    BY ViewAssumption
  <2>2. TypeOK0'
    BY <1>1, <1>2, <1>3, <1>5, <2>1 DEF Moves, TypeOK0
  <2>3. TypeOKLogin' /\ TypeOKSensors' /\ TypeOKQueries'
    BY <1>1, <1>3 DEF TypeOKLogin, TypeOKSensors, TypeOKQueries
  <2> QED BY <2>2, <2>3 DEF TypeOK
<1> QED BY <1>7, <1>8, <1>9, <1>12, <1>13, <1>14, <1>15, <1>16, <1>17 DEF IInv

(* onWebProcessTerminated                                                   *)
LEMMA TerminatedKeeps ==
  ASSUME IInv, OnTerminated
  PROVE  IInv'
<1>1. /\ TypeOK /\ Typed /\ Questioned /\ PushedToAsker /\ Numbered /\ Running /\ AsBuilt
      /\ TypeOKLogin /\ TypeOKSensors /\ TypeOKQueries /\ TypeOK0 /\ guard \in BOOLEAN
  BY Facts DEF IInv, TypeOK, TypeOK0
<1>2. /\ news # <<>> /\ Msg.is = "terminated" /\ TerminatedNews(Rest) /\ news' = Rest
      /\ UNCHANGED <<alive, card, webprocess, crashes, shown, freed, login, sensors, world, queries>>
  BY DEF OnTerminated, Got, Msg
<1>3. /\ Rest \in Seq(Message) /\ Shift(news, Rest, 1) /\ Len(Rest) + 1 = Len(news)
      /\ 1 \in DOMAIN news /\ news[1].is = "terminated" /\ Tells(1, "terminated")
  BY <1>1, <1>2, Rests DEF Tells
<1>4. CASE guard
  <2>1. UNCHANGED <<guard, up, evals, navs>>
    BY <1>2, <1>4 DEF TerminatedNews
  <2>2. Moves(1, {}, 0, {})
    BY <1>1, <1>2, <2>1, Pops
  <2>3. /\ UNCHANGED <<held, released, recent, failsafes, probing, pushing, sock, pushFor, gen, wants, sensord>>
        /\ UNCHANGED <<hitQ, saveQ, inFlight, downloads, hitAnswers, saveAnswers, dropped>> /\ UNCHANGED counters
    BY <1>2, <2>1 DEF login, sensors, world, queries, counters
  <2>4. Quiet => Quiet'
    BY <2>2, <2>3, QuietKept DEF Quiet
  <2>5. TypeOKLogin' /\ TypeOKSensors' /\ TypeOKQueries' /\ PushedToAsker' /\ (failsafes' = 1 => recent')
    BY <1>1, <1>2, <2>3 DEF TypeOKLogin, TypeOKSensors, TypeOKQueries, PushedToAsker, Numbered, Questioned
  <2>6. Questioned'
    BY <1>1, <2>2, <2>3, <2>5, QuestionedKept
  <2> QED BY <1>1, <1>2, <1>3, <2>1, <2>2, <2>3, <2>4, <2>5, <2>6, PlainStep
<1>5. CASE ~guard
  <2>1. guard' = TRUE /\ Load(Rest)
    BY <1>2, <1>5 DEF TerminatedNews
  <2>2. \A i \in DOMAIN Rest : Rest[i].is # "terminated"
    <3> SUFFICES ASSUME NEW i \in DOMAIN Rest, Rest[i].is = "terminated" PROVE FALSE
      OBVIOUS
    <3>1. i + 1 \in DOMAIN news /\ news[i + 1] = Rest[i] /\ i > 0
      BY <1>3 DEF Shift, From
    <3> QED BY <1>1, <1>3, <3>1 DEF Running, Tells
  <2>3. /\ navs' = navs + 1 /\ up' = TRUE /\ evals' = Append(evals, [op |-> "load", n |-> navs + 1])
    BY <2>1, <2>2 DEF Load
  <2>4. navs < MaxNavs + crashes /\ view # NoView
    BY <1>1, <1>3 DEF Running
  <2>5. navs + 1 <= MaxNavs + crashes
    BY <2>4, Facts, <1>1
  <2>6. alive
    BY <1>1, <1>3 DEF Running, IsResult
  <2>7. /\ view' = marks' /\ marks' \subseteq Marks /\ prewarm' \in BOOLEAN /\ opened' \in BOOLEAN
        /\ prewarm' => marks' = {}
        /\ opened => opened'
        /\ opened' \/ prewarm'
    BY <1>1, <1>2, <2>4 DEF AsBuilt, ViewIsTheCards, TypeOK0, card
  <2> QED BY <1>2, <1>3, <2>1, <2>2, <2>3, <2>5, <2>6, <2>7, Loaded
<1> QED BY <1>4, <1>5


(* A load into the view there is, or into a new one.                        *)
LEMMA LoadKeeps ==
  ASSUME IInv, alive, navs < MaxNavs, Load(news),
         view' = marks', view # NoView => view' = view, marks' \subseteq Marks,
         prewarm' \in BOOLEAN, prewarm' => marks' = {}, opened' = TRUE,
         UNCHANGED <<alive, guard, shown, webprocess, news, crashes, freed, login, sensors, world, queries>>
  PROVE  IInv'
<1>1. /\ TypeOK /\ Typed /\ Questioned /\ PushedToAsker /\ Numbered /\ Running /\ Probed /\ Told /\ Current
      /\ InTurn /\ TypeOKLogin /\ TypeOKSensors /\ TypeOKQueries /\ TypeOK0 /\ navs \in Nat /\ gen \in Nat
      /\ MaxNavs \in Nat /\ crashes \in 0 .. MaxCrashes /\ held \in {0} \cup Navs /\ asking \in {0} \cup Navs
      /\ MaxCrashes \in Nat /\ released \in [Navs -> 0 .. 1]
  BY Facts DEF IInv, TypeOK
<1>2. navs + 1 \in Navs /\ navs + 1 <= MaxNavs + crashes /\ navs + 1 \in Nat
  BY <1>1 DEF Navs
<1>3. /\ UNCHANGED <<held, released, recent, failsafes, wants, sensord>>
      /\ UNCHANGED <<hitQ, saveQ, inFlight, downloads, hitAnswers, saveAnswers, dropped>>
      /\ UNCHANGED <<probing, pushing, sock, gen, pushFor, doc, going, asking, loading>>
  BY DEF login, sensors, world, queries, webprocess
<1>4. TypeOKLogin' /\ TypeOKSensors' /\ TypeOKQueries' /\ guard' \in BOOLEAN
  BY <1>1, <1>3 DEF TypeOKLogin, TypeOKSensors, TypeOKQueries, TypeOK0
<1>5. news \in Seq(Message) /\ Shift(news, news, 0) /\ Len(news) + 0 = Len(news)
  BY <1>1, Stays DEF Typed
<1>6. CASE \A i \in DOMAIN news : news[i].is # "terminated"
  <2>1. /\ navs' = navs + 1 /\ up' = TRUE /\ evals' = Append(evals, [op |-> "load", n |-> navs + 1])
        /\ navs' <= MaxNavs + crashes
    BY <1>2, <1>6 DEF Load
  <2>2. opened' \in BOOLEAN /\ (opened => opened') /\ (opened' \/ prewarm')
    OBVIOUS
  <2>3. 0 = 1 => Tells(1, "terminated")
    OBVIOUS
  <2>4. news' = news
    OBVIOUS
  <2> QED BY ONLY IInv, alive, <1>4, <1>5, <1>6, <2>1, <2>2, <2>3, <2>4, Loaded,
            view' = marks', marks' \subseteq Marks, prewarm' \in BOOLEAN, prewarm' => marks' = {},
            UNCHANGED <<alive, guard, shown, webprocess, news, crashes, freed, login, sensors, world, queries>>
<1>7. CASE \E i \in DOMAIN news : news[i].is = "terminated"
  <2>1. navs' = navs + 1 /\ UNCHANGED <<up, evals>>
    BY <1>7 DEF Load
  <2>2. PICK i \in DOMAIN news : Tells(i, "terminated")
    BY <1>7 DEF Tells
  <2>3. view # NoView /\ view' = view /\ ~up
    BY <1>1, <2>2 DEF Running
  <2>4. Moves(0, {}, 0, {})
    BY <1>1, <2>1, Holds
  <2>5. Running'
    BY <1>1, <1>2, <1>3, <2>1, <2>3, <2>4, RunningKept
  <2>6. Numbered'
    <3>1. /\ 0 \in {0} \cup Navs /\ 0 <= navs /\ navs' \in {navs, navs + 1} /\ asking' \in {0, asking}
          /\ held' # 0 => held' # 0 /\ (held' = held \/ (0 = 1 /\ Tells(1, "policy") /\ held' = news[1].n))
          /\ \A n \in Navs : n # 0 => released'[n] = released[n]
          /\ (failsafes' = 1 => recent')
      BY <1>1, <1>3, <2>1 DEF Numbered
    <3>2. \A j \in DOMAIN news : j > 0 /\ Tells(j, "policy") => news[j].n # 0
      BY <1>1, MessageParts, ElementOfSeq DEF Typed, Tells, Navs
    <3>3. \A j \in DOMAIN evals : Sends(j, "load") => evals[j].n # 0
      BY <1>1, MessageParts, ElementOfSeq DEF Typed, Sends, Navs
    <3> QED BY <1>1, <2>4, <3>1, <3>2, <3>3, NumberedKept
  <2>7. InTurn'
    <3>1. going' \in {0, going} /\ asking' \in {0, asking} /\ doc' = doc /\ held' \in {0, held} /\ up' = up
      BY <1>3, <2>1
    <3> QED BY <1>1, <2>4, <3>1, InTurnKept
  <2>8. Quiet => Quiet'
    BY <1>3, <2>4, QuietKept DEF Quiet
  <2>9. Probed'
    BY <1>1, <1>3, <2>4, <2>8, ProbedKept
  <2>10. Told'
    BY <1>1, <1>3, <2>4, ToldKept
  <2>11. Current'
    BY <1>1, <1>3, <2>4, CurrentKept
  <2>12. Deaf' /\ AsBuilt' /\ ProbeNeverUsesFreed'
    BY DEF IInv, Deaf, AsBuilt, ViewIsTheCards, ProbeNeverUsesFreed
  <2>13. PushedToAsker'
    BY <1>1, <1>3 DEF PushedToAsker
  <2>14. Questioned'
    BY <1>1, <1>3, <2>4, QuestionedKept
  <2>15. TypeOK0'
    BY <1>1, <1>2, <1>3, <1>4, <2>1, <2>3 DEF TypeOK0
  <2> QED BY <1>4, <2>5, <2>6, <2>7, <2>9, <2>10, <2>11, <2>12, <2>13, <2>14, <2>15 DEF IInv, TypeOK
<1> QED BY <1>6, <1>7

(* setHTML.                                                                 *)
LEMMA SetHtmlKeeps ==
  ASSUME IInv, SetHtml, UNCHANGED <<login, sensors, world, queries>>
  PROVE  IInv'
<1>1. /\ alive /\ navs < MaxNavs /\ Load(news) /\ opened' = TRUE
      /\ view' = (IF view = NoView THEN marks ELSE view)
      /\ UNCHANGED <<alive, marks, prewarm, guard, shown, webprocess, news, crashes, freed>>
  BY DEF SetHtml
<1>2. /\ view' = marks' /\ marks' \subseteq Marks /\ prewarm' \in BOOLEAN
      /\ view # NoView => view' = view
      /\ prewarm' => marks' = {}
  BY <1>1 DEF IInv, AsBuilt, ViewIsTheCards, TypeOK, TypeOK0
<1> QED BY <1>1, <1>2, LoadKeeps

(* openUrl: into the view there is, into a new one, or into one that takes  *)
(* the place of a warm view.                                                *)
LEMMA OpenUrlKeeps ==
  ASSUME IInv, NEW m \in SUBSET Marks, OpenUrl(m), UNCHANGED <<login, sensors, world, queries>>
  PROVE  IInv'
<1>1. /\ TypeOK /\ Typed /\ Questioned /\ PushedToAsker /\ Numbered /\ Running /\ Probed /\ Told /\ Current /\ Deaf
      /\ InTurn /\ TypeOKLogin /\ TypeOKSensors /\ TypeOKQueries /\ TypeOK0 /\ navs \in Nat /\ gen \in Nat
      /\ MaxNavs \in Nat /\ crashes \in 0 .. MaxCrashes /\ held \in {0} \cup Navs /\ asking \in {0} \cup Navs
      /\ MaxCrashes \in Nat /\ AsBuilt /\ released \in [Navs -> 0 .. 1]
  BY Facts DEF IInv, TypeOK
<1>2. /\ alive /\ navs < MaxNavs /\ (m = marks \/ ~opened)
      /\ marks' = m /\ prewarm' = FALSE /\ opened' = TRUE
      /\ UNCHANGED <<alive, guard, shown, crashes, freed>>
  BY DEF OpenUrl, MarksFirst
<1>3. navs + 1 \in Navs /\ navs + 1 <= MaxNavs + crashes /\ navs + 1 \in Nat
  BY <1>1, <1>2 DEF Navs
<1>4. /\ UNCHANGED <<held, released, recent, failsafes, wants, sensord>>
      /\ UNCHANGED <<hitQ, saveQ, inFlight, downloads, hitAnswers, saveAnswers, dropped>>
      /\ UNCHANGED <<probing, pushing, sock, gen, pushFor>>
  BY DEF login, sensors, world, queries
<1>5. /\ TypeOKLogin' /\ TypeOKSensors' /\ TypeOKQueries' /\ guard' \in BOOLEAN
  BY <1>1, <1>2, <1>4 DEF TypeOKLogin, TypeOKSensors, TypeOKQueries, TypeOK0, Questioned
<1>6. CASE prewarm /\ m # {}
  <2> DEFINE ev == [op |-> "load", n |-> navs + 1]
  <2>1. /\ view' = m /\ up' = TRUE /\ navs' = navs + 1 /\ evals' = <<ev>> /\ KeepResults
        /\ doc' = 0 /\ asking' = 0 /\ going' = 0 /\ loading' = FALSE
    BY <1>6 DEF OpenUrl
  <2>2. ev \in Evaluation /\ ev.op = "load" /\ ev.n = navs + 1
    BY <1>3, EvaluationKinds
  <2>3. /\ news' \in Seq(Message)
        /\ \A i \in DOMAIN news' : /\ IsResult(news'[i])
                                   /\ \/ \E j \in DOMAIN news : news'[i] = news[j]
                                      \/ news'[i] \in FailedOf(evals)
    BY <1>1, <2>1, Kept
  <2>4. evals' \in Seq(Evaluation) /\ DOMAIN evals' = {1} /\ evals'[1].op = "load"
    <3> HIDE DEF ev
    <3> QED BY <2>1, <2>2
  <2>5. /\ \A i \in DOMAIN news' : /\ ~Tells(i, "policy")' /\ ~Tells(i, "terminated")' /\ ~Tells(i, "committed")'
        /\ \A i \in DOMAIN evals' : ~Sends(i, "snap")' /\ ~Sends(i, "probe")' /\ evals'[i].op \notin {"hit", "src"}
    BY <2>3, <2>4 DEF Tells, Sends, IsResult
  <2>6. \A i \in DOMAIN news' : Tells(i, "wanted")' => \E j \in DOMAIN news : news'[i] = news[j] /\ ~news[j].wants
    <3>1. ~opened
      BY <1>1, <1>2, <1>6 DEF AsBuilt
    <3> QED BY <2>3, <1>1, <3>1 DEF Tells, FailedOf, Deaf
  <2>7. Running'
    BY <1>2, <1>3, <2>1, <2>5 DEF Running
  <2>8. Numbered'
    <3>1. navs' \in {navs, navs + 1} /\ asking' <= navs' /\ evals' = <<[op |-> "load", n |-> navs']>> /\ navs' \in Navs
      BY <1>3, <2>1
    <3>2. held' \in {0, held} /\ \A n \in Navs : n # held \/ held' = held => released'[n] = released[n]
      BY <1>4
    <3> QED BY <1>1, <1>4, <2>1, <2>5, <3>1, <3>2, NumberedOver
  <2>9. InTurn'
    BY <2>5, InTurnClear
  <2>10. Probed'
    <3>1. gen' \in {gen, gen + 1} /\ alive' = alive
      BY <1>2, <1>4
    <3> QED BY <1>1, <2>1, <2>5, <2>6, <3>1, ProbedOver
  <2>11. Told' /\ Deaf'
    BY <1>2, <2>1 DEF Told, Deaf
  <2>12. Current'
    BY <2>6 DEF Current
  <2>13. Questioned'
    BY <1>1, <1>4, <1>5, <2>3, <2>5, QuestionedOver
  <2>14. PushedToAsker' /\ AsBuilt' /\ ProbeNeverUsesFreed'
    BY <1>2, <1>4, <2>1 DEF IInv, PushedToAsker, AsBuilt, ViewIsTheCards, ProbeNeverUsesFreed
  <2>15. TypeOK0'
    <3>1. view' # NoView /\ m \subseteq Marks
      BY <2>1, ViewAssumption
    <3> QED BY <1>1, <1>2, <1>3, <2>1, <2>3, <2>4, <3>1 DEF TypeOK0
  <2> QED BY <1>5, <2>7, <2>8, <2>9, <2>10, <2>11, <2>12, <2>13, <2>14, <2>15 DEF IInv, TypeOK
<1>7. CASE ~(prewarm /\ m # {})
  <2>1. view' = (IF view = NoView THEN m ELSE view) /\ Load(news) /\ UNCHANGED <<webprocess, news>>
    BY <1>7 DEF OpenUrl
  <2>2. /\ view' = marks' /\ m \subseteq Marks
        /\ view # NoView => view' = view
    BY <1>1, <1>2, <1>7, <2>1 DEF AsBuilt, ViewIsTheCards
  <2> QED BY <1>2, <2>1, <2>2, LoadKeeps
<1> QED BY <1>6, <1>7

(* ~BrowserPageWPE: what is still to come are answers to questions that     *)
(* have been cancelled, or that ask whether the page is there.              *)
LEMMA DestroyKeeps ==
  ASSUME IInv, Destroy
  PROVE  IInv'
<1>1. /\ TypeOK /\ Typed /\ Questioned /\ PushedToAsker /\ Numbered /\ Running /\ Probed /\ Deaf
      /\ TypeOKLogin /\ TypeOKSensors /\ TypeOKQueries /\ TypeOK0 /\ navs \in Nat /\ gen \in Nat
      /\ held \in {0} \cup Navs /\ asking \in {0} \cup Navs /\ released \in [Navs -> 0 .. 1]
      /\ failsafes \in 0 .. 1
  BY Facts DEF IInv, TypeOK
<1>2. /\ alive /\ alive' = FALSE /\ up' = FALSE /\ doc' = 0 /\ asking' = 0 /\ going' = 0 /\ loading' = FALSE
      /\ evals' = <<>> /\ KeepResults
      /\ UNCHANGED <<guard, card, shown, counters, freed, recent, failsafes, world, queries>>
      /\ probing' = FALSE /\ pushing' = FALSE /\ sock' = "none" /\ pushFor' = 0 /\ gen' = gen + 1
      /\ \/ held = 0 /\ UNCHANGED <<held, released>>
         \/ held # 0 /\ held' = 0 /\ released' = [released EXCEPT ![held] = @ + 1]
  BY DEF Destroy, DestroyView, DestroyLogin, StopSensors
<1>3. /\ UNCHANGED <<marks, view, prewarm, opened, navs, crashes, wants, sensord>>
      /\ UNCHANGED <<hitQ, saveQ, inFlight, downloads, hitAnswers, saveAnswers, dropped>>
  BY <1>2 DEF card, counters, world, queries
<1>4. /\ news' \in Seq(Message)
      /\ \A i \in DOMAIN news' : /\ IsResult(news'[i])
                                 /\ \/ \E j \in DOMAIN news : news'[i] = news[j]
                                    \/ news'[i] \in FailedOf(evals)
  BY <1>1, <1>2, Kept
<1>5. evals' \in Seq(Evaluation) /\ DOMAIN evals' = {}
  BY <1>2
<1>6. \A i \in DOMAIN news' : /\ ~Tells(i, "policy")' /\ ~Tells(i, "terminated")' /\ ~Tells(i, "committed")'
  BY <1>4 DEF Tells, IsResult
<1>7. \A i \in DOMAIN news' : Tells(i, "wanted")' => \E j \in DOMAIN news : news'[i] = news[j]
  BY <1>4 DEF Tells, FailedOf
<1>8. Running'
  BY <1>1, <1>2, <1>3, <1>4, <1>6 DEF Running, Tells, IsResult
<1>9. released' \in [Navs -> 0 .. 1] /\ \A n \in Navs : n # held \/ held' = held => released'[n] = released[n]
  <2>1. CASE held = 0 /\ UNCHANGED <<held, released>>
    BY <2>1, <1>1
  <2>2. CASE held # 0 /\ held' = 0 /\ released' = [released EXCEPT ![held] = @ + 1]
    <3>1. released[held] = 0
      BY <1>1, <2>2 DEF Numbered
    <3>2. released' = [released EXCEPT ![held] = 1]
      BY <2>2, <3>1, <1>1
    <3> QED BY <3>2, <2>2, <1>1
  <2> QED BY <2>1, <2>2, <1>2
<1>10. Numbered'
  <2>1. held' \in {0, held} /\ asking' <= navs' /\ navs' \in {navs, navs + 1}
    BY <1>1, <1>2, <1>3
  <2> QED BY <1>1, <1>2, <1>6, <1>9, <2>1, NumberedOver
<1>11. InTurn'
  BY <1>5, <1>6, InTurnClear
<1>12. Probed'
  <2>1. \A i \in DOMAIN evals' : ~Sends(i, "probe")'
    BY <1>5
  <2>2. gen' \in {gen, gen + 1} /\ ~alive' /\ gen' = gen + 1
    BY <1>2
  <2> QED BY <1>1, <1>2, <1>6, <1>7, <2>1, <2>2, ProbedOver
<1>13. Told' /\ PushedToAsker' /\ AsBuilt' /\ ProbeNeverUsesFreed'
  BY <1>2, <1>3 DEF IInv, Told, PushedToAsker, AsBuilt, ViewIsTheCards, ProbeNeverUsesFreed
<1>14. Current'
  <2>1. \A i \in DOMAIN news' : Tells(i, "wanted")' => news'[i].gen # gen'
    <3>1. \A j \in DOMAIN news : Tells(j, "wanted") => news[j].gen \in Nat /\ news[j].gen <= gen
      BY <1>1, MessageParts, ElementOfSeq DEF Typed, Tells, Probed
    <3> QED BY <1>1, <1>2, <1>7, <3>1 DEF Tells
  <2> QED BY <2>1 DEF Current
<1>15. Deaf'
  BY <1>1, <1>3, <1>7, DeafKept DEF Deaf
<1>16. Questioned'
  <2>1. \A i \in DOMAIN evals' : evals'[i].op \notin {"hit", "src"}
    BY <1>2, <1>5
  <2> QED BY <1>1, <1>3, <1>4, <2>1, QuestionedOver
<1>17. TypeOK'
  <2>1. TypeOK0'
    BY <1>1, <1>2, <1>3, <1>4, <1>5 DEF TypeOK0
  <2>2. TypeOKLogin'
    BY <1>1, <1>2, <1>9 DEF TypeOKLogin
  <2>3. TypeOKSensors'
    <3>1. gen' \in Nat /\ {wants, sensord} \subseteq BOOLEAN
      BY <1>1, <1>2 DEF TypeOKSensors
    <3> QED BY <3>1, <1>2, <1>3 DEF TypeOKSensors
  <2>4. TypeOKQueries'
    BY <1>1, <1>3 DEF TypeOKQueries
  <2> QED BY <2>1, <2>2, <2>3, <2>4 DEF TypeOK
<1> QED BY <1>8, <1>10, <1>11, <1>12, <1>13, <1>14, <1>15, <1>16, <1>17 DEF IInv


-----------------------------------------------------------------------------
(* The WebProcess.  What the page has is not touched, so that part of the   *)
(* invariant stays.                                                         *)
LEMMA WebStep ==
  ASSUME IInv, up, NEW M, NEW e, Moves(0, M, e, {}),
         UNCHANGED <<alive, card, guard, shown, up, crashes, freed, login, sensors, queries>>,
         {doc', asking', going'} \subseteq {0} \cup Navs, loading' \in BOOLEAN,
         navs' = navs \/ (navs' = navs + 1 /\ navs < MaxNavs),
         {wants', sensord'} \subseteq BOOLEAN,
         \A m \in M : m.is \notin {"terminated", "failed"},
         \A m \in M : m.is = "found" => \E j \in DOMAIN evals : m.of = evals[j]
  PROVE  TypeOK' /\ Running' /\ Questioned' /\ PushedToAsker' /\ AsBuilt' /\ ProbeNeverUsesFreed'
<1>1. /\ TypeOK /\ Typed /\ Questioned /\ PushedToAsker /\ Running /\ AsBuilt /\ alive
      /\ TypeOKLogin /\ TypeOKSensors /\ TypeOKQueries /\ TypeOK0 /\ navs \in Nat
      /\ MaxNavs \in Nat /\ crashes \in 0 .. MaxCrashes /\ MaxCrashes \in Nat
  BY Facts DEF IInv, TypeOK, Running
<1>2. /\ UNCHANGED <<marks, view, prewarm, opened, held, released, recent, failsafes>>
      /\ UNCHANGED <<hitQ, saveQ, inFlight, downloads, hitAnswers, saveAnswers, dropped>>
      /\ UNCHANGED <<probing, pushing, sock, gen, pushFor>>
  BY DEF card, login, sensors, queries
<1>3. Running'
  <2>1. crashes \in Nat /\ \A m \in M : m.is # "terminated" /\ (~alive => IsResult(m))
    BY <1>1
  <2> QED BY <1>1, <1>2, <2>1, RunningKept
<1>4. Questioned'
  BY <1>1, <1>2, QuestionedKept
<1>5. PushedToAsker' /\ AsBuilt' /\ ProbeNeverUsesFreed'
  BY <1>1, <1>2 DEF IInv, PushedToAsker, AsBuilt, ViewIsTheCards, ProbeNeverUsesFreed
<1>6. TypeOK'
  <2>1. navs' \in {0} \cup Navs
    BY <1>1 DEF TypeOK0, Navs
  <2>2. TypeOK0'
    BY <1>1, <1>2, <2>1 DEF TypeOK0, Moves
  <2>3. TypeOKLogin' /\ TypeOKSensors' /\ TypeOKQueries'
    BY <1>1, <1>2 DEF TypeOKLogin, TypeOKSensors, TypeOKQueries
  <2> QED BY <2>2, <2>3 DEF TypeOK
<1> QED BY <1>3, <1>4, <1>5, <1>6

LEMMA EvalsStay ==
  ASSUME Typed, evals' = evals
  PROVE  /\ From(evals, evals', 0) /\ evals' \in Seq(Evaluation)
         /\ \A i \in DOMAIN evals' : ~(i + 0 > Len(evals))
  BY Stays DEF Typed, Shift

(* What a new question adds to the news: that the one before has failed, if *)
(* one was under way, and the question, last.                               *)
LEMMA Asks ==
  ASSUME Typed, NEW n \in Navs, NEW kind \in {"form", "link", "handoff", "other"}, doc \in {0} \cup Navs,
         Ask(n, kind), NEW e, From(evals, evals', e), evals' \in Seq(Evaluation),
         \A i \in DOMAIN evals' : ~(i + e > Len(evals))
  PROVE  /\ Moves(0, {[is |-> "finished"], [is |-> "policy", n |-> n, kind |-> kind, from |-> doc]}, e, {})
         /\ \A i \in DOMAIN news' : i > Len(news) /\ Tells(i, "policy")' => i = Len(news')
         /\ asking' = n /\ going' = 0
<1> DEFINE p == [is |-> "policy", n |-> n, kind |-> kind, from |-> doc]
           z == [is |-> "finished"]
<1>1. p \in Message /\ z \in Message /\ z.is = "finished" /\ p.is = "policy"
  BY MessageKinds
<1>2. asking' = n /\ going' = 0 /\ (news' = news \o <<p>> \/ news' = Append(news, z) \o <<p>>)
  BY DEF Ask
<1> HIDE DEF p, z
<1>3. Shift(news, news, 0) /\ Len(news) + 0 = Len(news) /\ Len(news) \in Nat /\ DOMAIN news = 1 .. Len(news)
  BY Stays DEF Typed
<1>4. \A s \in Seq(Message) : /\ s \o <<p>> = Append(s, p) /\ Len(Append(s, p)) = Len(s) + 1
                              /\ \A i \in 1 .. Len(s) + 1 : Append(s, p)[i] = IF i <= Len(s) THEN s[i] ELSE p
                              /\ DOMAIN Append(s, p) = 1 .. Len(s) + 1 /\ Append(s, p) \in Seq(Message)
  BY <1>1
<1>5. CASE news' = news \o <<p>>
  <2>1. news' = Append(news, p)
    BY <1>4, <1>5 DEF Typed
  <2>2. Moves(0, {p}, e, {})
    BY <1>1, <2>1, Tells1
  <2>3. \A i \in DOMAIN news' : i > Len(news) => i = Len(news')
    BY <1>3, <1>4, <2>1 DEF Typed
  <2>4. Moves(0, {z, p}, e, {})
    BY <2>2 DEF Moves
  <2> QED BY <1>2, <2>3, <2>4 DEF p, z
<1>6. CASE news' = Append(news, z) \o <<p>>
  <2> DEFINE s == Append(news, z)
  <2>1. /\ s \in Seq(Message) /\ Len(s) = Len(news) + 1 /\ Shift(news, s, 0)
        /\ \A i \in 1 .. Len(news) + 1 : s[i] = IF i <= Len(news) THEN news[i] ELSE z
    BY <1>1, <1>3, AddsOne DEF Typed
  <2> HIDE DEF s
  <2>2. news' = Append(s, p)
    BY <1>4, <1>6, <2>1 DEF s
  <2>3. /\ DOMAIN news' = 1 .. Len(news) + 2 /\ Len(news') = Len(news) + 2 /\ news' \in Seq(Message)
        /\ \A i \in 1 .. Len(news) + 2 : news'[i] = IF i <= Len(news) THEN news[i]
                                                    ELSE IF i = Len(news) + 1 THEN z ELSE p
    BY <1>3, <1>4, <2>1, <2>2
  <2>4. Shift(news, news', 0)
    BY <1>3, <2>3 DEF Shift, From
  <2>5. \A i \in DOMAIN news' : i + 0 > Len(news) => news'[i] \in {z, p} /\ (i = Len(news') \/ news'[i] = z)
    BY <1>3, <2>3
  <2>6. Moves(0, {z, p}, e, {})
    BY <2>3, <2>4, <2>5 DEF Moves
  <2>7. \A i \in DOMAIN news' : i > Len(news) /\ Tells(i, "policy")' => i = Len(news')
    BY <1>1, <1>3, <2>3, <2>5 DEF Tells
  <2> QED BY <1>2, <2>6, <2>7 DEF p, z
<1> QED BY <1>2, <1>5, <1>6

(* A question that nobody has heard of keeps what is said of questions.     *)
LEMMA AskKeeps ==
  ASSUME IInv, up, NEW n \in Navs, NEW kind \in {"form", "link", "handoff", "other"},
         Ask(n, kind), NEW e, From(evals, evals', e), evals' \in Seq(Evaluation),
         \A i \in DOMAIN evals' : ~(i + e > Len(evals)),
         UNCHANGED <<alive, card, guard, shown, up, doc, loading, crashes, freed, login, sensors, world, queries>>,
         navs' = navs \/ (navs' = navs + 1 /\ navs < MaxNavs), n <= navs',
         \A i \in DOMAIN news : Tells(i, "policy") => news[i].n # n,
         \A i \in DOMAIN evals : i > e /\ (Sends(i, "load") \/ DecisionAt(i)) => evals[i].n # n,
         released[n] = 0, held # n
  PROVE  IInv'
<1>1. /\ TypeOK /\ Typed /\ Numbered /\ InTurn /\ Probed /\ Told /\ Current /\ Deaf /\ TypeOK0 /\ TypeOKSensors
      /\ navs \in Nat /\ held \in {0} \cup Navs /\ doc \in {0} \cup Navs
  BY Facts DEF IInv, TypeOK
<1>2. /\ UNCHANGED <<view, prewarm, opened, wants, sensord, held, released, recent, failsafes, probing, pushing, gen>>
  BY DEF card, login, sensors, world
<1> DEFINE M == {[is |-> "finished"], [is |-> "policy", n |-> n, kind |-> kind, from |-> doc]}
<1>3. /\ Moves(0, M, e, {})
      /\ \A i \in DOMAIN news' : i > Len(news) /\ Tells(i, "policy")' => i = Len(news')
      /\ asking' = n /\ going' = 0
  BY <1>1, Asks
<1>4. \A m \in M : m.is \in {"finished", "policy"} /\ (m.is = "policy" => m.n = n /\ m.from = doc)
  OBVIOUS
<1> HIDE DEF M
<1>5. TypeOK' /\ Running' /\ Questioned' /\ PushedToAsker' /\ AsBuilt' /\ ProbeNeverUsesFreed'
  <2>1. {doc', asking', going'} \subseteq {0} \cup Navs /\ loading' \in BOOLEAN /\ {wants', sensord'} \subseteq BOOLEAN
    BY <1>1, <1>2, <1>3 DEF TypeOK0, TypeOKSensors
  <2>2. \A m \in M : m.is \notin {"terminated", "failed", "found"}
    BY <1>4
  <2> QED BY <1>3, <2>1, <2>2, WebStep
<1>6. Numbered'
  <2>1. /\ navs' \in Nat /\ navs <= navs'
        /\ UNCHANGED <<held, recent, failsafes, released>>
        /\ \A i \in DOMAIN evals : i > e /\ Sends(i, "load") => evals[i].n # n
    BY <1>1, <1>2
  <2> QED BY <1>1, <1>3, <1>4, <2>1, NumberedAsk
<1>7. InTurn'
  <2>1. /\ doc' = doc /\ up' = up /\ held' = held
        /\ \A i \in DOMAIN evals : i > e /\ DecisionAt(i) => evals[i].n # n
    BY <1>2
  <2> QED BY <1>1, <1>3, <1>4, <2>1, InTurnAsk
<1>8. Quiet => Quiet'
  BY <1>2, <1>3, <1>4, QuietKept DEF Quiet
<1>9. Probed'
  <2>1. gen' = gen /\ alive' = alive /\ \A m \in M : m.is # "committed" /\ m.is # "wanted"
    BY <1>2, <1>4
  <2> QED BY <1>1, <1>3, <1>8, <2>1, ProbedKept
<1>10. Told' /\ Current'
  <2>1. Told'
    <3>1. \A m \in M : m.is # "committed"
      BY <1>4
    <3> QED BY <1>1, <1>3, <3>1, ToldKept
  <2>2. Current'
    <3>1. \A m \in M : m.is # "wanted"
      BY <1>4
    <3> QED BY <1>1, <1>2, <1>3, <3>1, CurrentKept
  <2> QED BY <2>1, <2>2
<1>11. Deaf'
  <2>1. \A i \in DOMAIN news' : Tells(i, "wanted")' => \E j \in DOMAIN news : news'[i] = news[j]
    BY <1>3, <1>4, MovesFrom DEF Tells
  <2> QED BY <1>1, <1>2, <2>1, DeafKept DEF Deaf
<1> QED BY <1>5, <1>6, <1>7, <1>9, <1>10, <1>11 DEF IInv

LEMMA NavigateKeeps ==
  ASSUME IInv, NEW kind \in {"form", "link", "handoff"}, Navigate(kind), UNCHANGED <<login, sensors, world, queries>>
  PROVE  IInv'
<1>1. /\ TypeOK /\ Typed /\ Numbered /\ navs \in Nat /\ MaxNavs \in Nat /\ MaxCrashes \in Nat /\ held \in {0} \cup Navs
  BY Facts DEF IInv
<1>2. /\ up /\ navs < MaxNavs /\ navs' = navs + 1 /\ Ask(navs + 1, kind) /\ evals' = evals
      /\ UNCHANGED <<alive, card, guard, shown, up, doc, loading, crashes, freed>>
  BY DEF Navigate
<1>3. navs + 1 \in Navs /\ navs + 1 > navs /\ navs + 1 <= navs'
  BY <1>1, <1>2 DEF Navs
<1>4. /\ \A i \in DOMAIN news : Tells(i, "policy") => news[i].n # navs + 1
      /\ \A i \in DOMAIN evals : i > 0 /\ (Sends(i, "load") \/ DecisionAt(i)) => evals[i].n # navs + 1
  <2>1. \A i \in DOMAIN news : Tells(i, "policy") => news[i].n <= navs
    BY <1>1 DEF Numbered
  <2>2. \A i \in DOMAIN evals : Sends(i, "load") \/ DecisionAt(i) => evals[i].n <= navs
    BY <1>1 DEF Numbered
  <2>3. ~(navs + 1 <= navs)
    BY <1>1
  <2> QED BY <2>1, <2>2, <2>3
<1>5. released[navs + 1] = 0 /\ held # navs + 1
  BY <1>1, <1>3 DEF Numbered
<1>6. /\ From(evals, evals', 0) /\ evals' \in Seq(Evaluation)
      /\ \A i \in DOMAIN evals' : ~(i + 0 > Len(evals))
  BY <1>1, <1>2, EvalsStay
<1>7. kind \in {"form", "link", "handoff", "other"}
  OBVIOUS
<1> QED BY <1>2, <1>3, <1>4, <1>5, <1>6, <1>7, AskKeeps


(* What is handled without a new document or a question.                    *)
LEMMA WebAnswers ==
  ASSUME IInv, up, NEW M, Moves(0, M, 1, {}),
         UNCHANGED <<alive, card, guard, shown, up, counters, freed, login, sensors, world, queries>>,
         UNCHANGED <<doc, going, loading>>, asking' \in {0, asking},
         \A m \in M : m.is \in {"captured", "wanted", "found"},
         \A m \in M : m.is = "found" => \E j \in DOMAIN evals : m.of = evals[j],
         \A m \in M : m.is = "wanted" =>
           /\ m.gen <= gen /\ (Quiet => m.gen # gen) /\ (~opened => ~m.wants)
           /\ m.wants /\ m.gen = gen /\ (\A j \in DOMAIN news : ~Tells(j, "started")) => m.on = shown
  PROVE  IInv'
<1>1. /\ TypeOK /\ Typed /\ Numbered /\ InTurn /\ Probed /\ Told /\ Current /\ Deaf /\ Running /\ TypeOK0 /\ TypeOKSensors
      /\ navs \in Nat /\ held \in {0} \cup Navs /\ doc \in {0} \cup Navs /\ asking \in {0} \cup Navs
      /\ going \in {0} \cup Navs /\ released \in [Navs -> 0 .. 1] /\ alive
  BY Facts DEF IInv, TypeOK, Running
<1>2. /\ UNCHANGED <<view, prewarm, opened, wants, sensord, held, released, recent, failsafes, probing, pushing, gen, navs, crashes>>
  BY DEF card, login, sensors, world, counters
<1>3. TypeOK' /\ Running' /\ Questioned' /\ PushedToAsker' /\ AsBuilt' /\ ProbeNeverUsesFreed'
  <2>1. {doc', asking', going'} \subseteq {0} \cup Navs /\ loading' \in BOOLEAN /\ {wants', sensord'} \subseteq BOOLEAN
    BY <1>1, <1>2 DEF TypeOK0, TypeOKSensors
  <2>2. \A m \in M : m.is \notin {"terminated", "failed"}
    OBVIOUS
  <2> QED BY <1>2, <2>1, <2>2, WebStep
<1>4. Numbered'
  <2>1. /\ 0 \in {0} \cup Navs /\ 0 <= navs /\ navs' \in {navs, navs + 1}
        /\ held' # 0 => held' # 0 /\ (held' = held \/ (0 = 1 /\ Tells(1, "policy") /\ held' = news[1].n))
        /\ \A n \in Navs : n # 0 => released'[n] = released[n]
        /\ (failsafes' = 1 => recent')
        /\ \A m \in M : m.is # "policy"
    BY <1>1, <1>2 DEF Numbered
  <2>2. \A j \in DOMAIN news : j > 0 /\ Tells(j, "policy") => news[j].n # 0
    BY <1>1, MessageParts, ElementOfSeq DEF Typed, Tells, Navs
  <2>3. \A j \in DOMAIN evals : Sends(j, "load") => evals[j].n # 0
    BY <1>1, MessageParts, ElementOfSeq DEF Typed, Sends, Navs
  <2> QED BY <1>1, <2>1, <2>2, <2>3, NumberedKept
<1>5. InTurn'
  <2>1. /\ going' \in {0, going} /\ doc' = doc /\ held' \in {0, held} /\ up' = up
        /\ \A m \in M : m.is # "policy"
    BY <1>2
  <2> QED BY <1>1, <2>1, InTurnKept
<1>6. Quiet => Quiet'
  BY <1>2, QuietKept DEF Quiet
<1>7. Probed'
  <2>1. /\ gen' = gen /\ alive' = alive /\ going' = going
        /\ \A m \in M : m.is \notin {"started", "finished"}
        /\ \A m \in M : m.is # "committed"
        /\ \A m \in M : m.is = "wanted" => m.gen <= gen /\ (alive \/ m.gen # gen)
    BY <1>1, <1>2
  <2> QED BY <1>1, <1>6, <2>1, ProbedKept
<1>8. Told'
  <2>1. \A m \in M : m.is # "committed"
    OBVIOUS
  <2> QED BY <1>1, <2>1, ToldKept
<1>9. Current'
  BY <1>1, <1>2, CurrentKept
<1>10. Deaf'
  <2>1. \A i \in DOMAIN news' : (\E j \in DOMAIN news : news'[i] = news[j]) \/ news'[i] \in M
    BY MovesFrom
  <2>2. \A i \in DOMAIN news' : Tells(i, "wanted")' =>
          (\E j \in DOMAIN news : news'[i] = news[j]) \/ (~opened' => ~news'[i].wants)
    BY <1>2, <2>1 DEF Tells
  <2> QED BY <1>1, <1>2, <2>2, DeafKept DEF Deaf
<1> QED BY <1>3, <1>4, <1>5, <1>7, <1>8, <1>9, <1>10 DEF IInv

(* A navigation that was allowed starts.                                    *)
LEMMA StartKeeps ==
  ASSUME IInv, up, evals # <<>>, evals' = Tail(evals), Head(evals).op = "use", Head(evals).n = asking,
         asking' = 0, going' = asking, loading' = FALSE, news' = Append(news, [is |-> "started"]),
         UNCHANGED <<alive, card, guard, shown, up, doc, counters, freed, login, sensors, world, queries>>
  PROVE  IInv'
<1>1. /\ TypeOK /\ Typed /\ Numbered /\ InTurn /\ Probed /\ Told /\ Current /\ Deaf /\ Running /\ TypeOK0 /\ TypeOKSensors
      /\ navs \in Nat /\ held \in {0} \cup Navs /\ doc \in {0} \cup Navs /\ asking \in {0} \cup Navs
      /\ going \in {0} \cup Navs /\ released \in [Navs -> 0 .. 1] /\ alive
  BY Facts DEF IInv, TypeOK, Running
<1>2. /\ UNCHANGED <<view, prewarm, opened, wants, sensord, held, released, recent, failsafes, probing, pushing, gen, navs, crashes>>
  BY DEF card, login, sensors, world, counters
<1>3. /\ From(evals, evals', 1) /\ evals' \in Seq(Evaluation)
      /\ \A i \in DOMAIN evals' : ~(i + 1 > Len(evals))
      /\ Head(evals) = evals[1] /\ 1 \in DOMAIN evals
  BY <1>1, Heads
<1> DEFINE z == [is |-> "started"]
           M == {z}
<1>4. z \in Message /\ z.is = "started"
  BY MessageKinds
<1>5. Moves(0, M, 1, {})
  <2> HIDE DEF z
  <2>1. news' = Append(news, z)
    BY DEF z
  <2> QED BY <1>1, <1>3, <1>4, <2>1, Tells1
<1>6. (Len(news) \in DOMAIN news /\ Tells(Len(news), "started"))'
  <2>1. Len(news') = Len(news) + 1 /\ news'[Len(news) + 1] = z /\ DOMAIN news' = 1 .. Len(news) + 1 /\ Len(news) \in Nat
    BY <1>1 DEF Typed
  <2> QED BY <2>1, <1>4 DEF Tells
<1>7. \A m \in M : m.is = "started"
  BY <1>4
<1> HIDE DEF z, M
<1>8. TypeOK' /\ Running' /\ Questioned' /\ PushedToAsker' /\ AsBuilt' /\ ProbeNeverUsesFreed'
  <2>1. {doc', asking', going'} \subseteq {0} \cup Navs /\ loading' \in BOOLEAN /\ {wants', sensord'} \subseteq BOOLEAN
    BY <1>1, <1>2 DEF TypeOK0, TypeOKSensors
  <2>2. \A m \in M : m.is \notin {"terminated", "failed", "found"}
    BY <1>7
  <2> QED BY <1>2, <1>5, <2>1, <2>2, WebStep DEF counters
<1>9. Numbered'
  <2>1. /\ 0 \in {0} \cup Navs /\ 0 <= navs /\ navs' \in {navs, navs + 1} /\ asking' \in {0, asking}
        /\ held' # 0 => held' # 0 /\ (held' = held \/ (0 = 1 /\ Tells(1, "policy") /\ held' = news[1].n))
        /\ \A n \in Navs : n # 0 => released'[n] = released[n]
        /\ (failsafes' = 1 => recent')
        /\ \A m \in M : m.is # "policy"
    BY <1>1, <1>2, <1>7 DEF Numbered
  <2>2. \A j \in DOMAIN news : j > 0 /\ Tells(j, "policy") => news[j].n # 0
    BY <1>1, MessageParts, ElementOfSeq DEF Typed, Tells, Navs
  <2>3. \A j \in DOMAIN evals : Sends(j, "load") => evals[j].n # 0
    BY <1>1, MessageParts, ElementOfSeq DEF Typed, Sends, Navs
  <2>4. /\ Numbered /\ Typed /\ navs \in Nat /\ asking \in {0} \cup Navs /\ released \in [Navs -> 0 .. 1]
        /\ held \in {0} \cup Navs
        /\ \A x \in {} : x.op # "load" /\ (x.op \in {"use", "ignore"} => x.n = 0)
    BY <1>1
  <2> QED BY <1>5, <2>1, <2>2, <2>3, <2>4, NumberedKept
<1>10. InTurn'
  <2>1. /\ \A j \in DOMAIN news : ~Tells(j, "policy")
        /\ \A j \in DOMAIN evals : j > 1 => ~Sends(j, "snap")
    BY <1>1, <1>3 DEF InTurn, Sends
  <2>2. \A i \in DOMAIN news' : ~Tells(i, "policy")'
    BY <1>5, <1>7, <2>1, MovesFrom DEF Tells
  <2>3. \A i \in DOMAIN evals' : ~Sends(i, "snap")'
    <3>1. \A i \in DOMAIN evals' : i + 1 \in DOMAIN evals /\ i + 1 > 1 /\ evals'[i] = evals[i + 1]
      BY <1>3 DEF From
    <3> QED BY <2>1, <3>1 DEF Sends
  <2> QED BY <2>2, <2>3, InTurnClear
<1>11. Quiet => Quiet'
  BY <1>2, <1>5, <1>7, QuietKept DEF Quiet
<1>12. Probed'
  <2>1. gen' = gen /\ alive' = alive /\ \A m \in M : m.is # "committed" /\ m.is # "wanted"
    BY <1>2, <1>7
  <2> QED BY <1>1, <1>5, <1>6, <1>11, <2>1, ProbedKept
<1>13. Told'
  <2>1. \A m \in M : m.is # "committed"
    BY <1>7
  <2> QED BY <1>1, <1>5, <2>1, ToldKept
<1>14. Current'
  <2>1. \A m \in M : m.is # "wanted"
    BY <1>7
  <2> QED BY <1>1, <1>2, <1>5, <2>1, CurrentKept
<1>15. Deaf'
  <2>1. \A i \in DOMAIN news' : Tells(i, "wanted")' => \E j \in DOMAIN news : news'[i] = news[j]
    BY <1>5, <1>7, MovesFrom DEF Tells
  <2> QED BY <1>1, <1>2, <2>1, DeafKept DEF Deaf
<1> QED BY <1>8, <1>9, <1>10, <1>12, <1>13, <1>14, <1>15 DEF IInv

(* The document that answers a probe is the one the page shows, unless the  *)
(* page will hear of a load first, or does not ask any more.                *)
LEMMA AnsweredByShown ==
  ASSUME IInv, NEW i \in DOMAIN evals, Sends(i, "probe"), evals[i].gen = gen, doc # 0,
         \A j \in DOMAIN news : ~Tells(j, "started")
  PROVE  doc = shown
<1>1. Typed /\ Probed /\ Told
  BY Facts DEF IInv
<1>2. \A k \in DOMAIN news : ~Tells(k, "committed")
  <2> SUFFICES ASSUME NEW k \in DOMAIN news, Tells(k, "committed") PROVE FALSE
    OBVIOUS
  <2>1. k \in 1 .. Len(news) + 1 /\ Commits(k)
    BY <1>1 DEF Commits, Typed
  <2>2. Quiet
    BY <1>1, <2>1 DEF Probed
  <2> QED BY <2>2 DEF Quiet
<1> QED BY <1>1, <1>2 DEF Told

LEMMA HandleKeeps ==
  ASSUME IInv, Handle(wants), UNCHANGED <<login, sensors, world, queries>>
  PROVE  IInv'
<1>1. /\ TypeOK /\ Typed /\ Numbered /\ Probed /\ Deaf /\ navs \in Nat /\ gen \in Nat
      /\ doc \in {0} \cup Navs /\ asking \in {0} \cup Navs /\ TypeOKSensors
  BY Facts DEF IInv, TypeOK
<1> DEFINE e == evals[1]
<1>2. /\ up /\ evals # <<>> /\ evals' = Tail(evals) /\ Head(evals) = e
      /\ UNCHANGED <<alive, card, guard, shown, up, counters, freed>>
  BY <1>1, Heads DEF Handle
<1>3. /\ From(evals, evals', 1) /\ evals' \in Seq(Evaluation)
      /\ \A i \in DOMAIN evals' : ~(i + 1 > Len(evals))
      /\ 1 \in DOMAIN evals /\ e \in Evaluation
  BY <1>1, <1>2, Heads
<1>4. CASE e.op = "load" /\ Ask(e.n, "other") /\ UNCHANGED <<doc, loading>>
  <2>1. Sends(1, "load") /\ e.n \in Navs
    BY <1>3, <1>4, MessageParts DEF Sends
  <2>2. /\ e.n <= navs /\ released[e.n] = 0 /\ held # e.n
        /\ \A j \in DOMAIN news : Tells(j, "policy") => news[j].n # e.n
        /\ \A j \in DOMAIN evals : j > 1 /\ (Sends(j, "load") \/ DecisionAt(j)) => evals[j].n # e.n
    BY <1>1, <1>3, <2>1 DEF Numbered
  <2>3. navs' = navs /\ UNCHANGED crashes
    BY <1>2 DEF counters
  <2> HIDE DEF e
  <2> QED BY <1>2, <1>3, <1>4, <2>1, <2>2, <2>3, AskKeeps
<1>5. CASE e.op = "use" /\ e.n = asking /\ asking' = 0 /\ UNCHANGED doc /\ going' = e.n /\ loading' = FALSE
           /\ news' = Append(news, [is |-> "started"])
  BY <1>2, <1>5, StartKeeps
<1>6. CASE asking' \in {0, asking} /\ UNCHANGED <<doc, going, loading, news>>
  <2>1. Moves(0, {}, 1, {})
    <3>1. Shift(news, news, 0) /\ \A i \in DOMAIN news : ~(i + 0 > Len(news))
      BY <1>1, Stays DEF Typed
    <3> QED BY <1>1, <1>3, <1>6, <3>1 DEF Moves, Typed
  <2> QED BY <1>2, <1>6, <2>1, WebAnswers
<1> DEFINE ca == [is |-> "captured"]
           wa == [is |-> "wanted", gen |-> e.gen, on |-> doc, wants |-> wants /\ doc # 0]
           fo == [is |-> "found", of |-> e]
<1>7. CASE e.op = "snap" /\ news' = Append(news, ca) /\ UNCHANGED webprocess
  <2>1. ca \in Message /\ ca.is = "captured"
    BY MessageKinds
  <2> HIDE DEF ca
  <2>2. Moves(0, {ca}, 1, {})
    BY <1>1, <1>3, <1>7, <2>1, Tells1
  <2>3. asking' \in {0, asking} /\ UNCHANGED <<doc, going, loading>>
    BY <1>7 DEF webprocess
  <2> QED BY <1>2, <2>1, <2>2, <2>3, WebAnswers
<1>8. CASE e.op = "probe" /\ news' = Append(news, wa) /\ UNCHANGED webprocess
  <2>1. e.gen \in Nat /\ Sends(1, "probe") /\ e.gen <= gen
    BY <1>1, <1>3, <1>8, MessageParts DEF Sends, Probed
  <2>2. (wants /\ doc # 0) \in BOOLEAN
    OBVIOUS
  <2>3. /\ wa \in Message /\ wa.is = "wanted" /\ wa.gen = e.gen /\ wa.on = doc /\ wa.wants = (wants /\ doc # 0)
    BY <1>1, <2>1, <2>2, MessageKinds
  <2> HIDE DEF wa
  <2>4. Moves(0, {wa}, 1, {})
    BY <1>1, <1>3, <1>8, <2>3, Tells1
  <2>5. asking' \in {0, asking} /\ UNCHANGED <<doc, going, loading>>
    BY <1>8 DEF webprocess
  <2>6. Quiet => wa.gen # gen
    BY <1>3, <2>1, <2>3 DEF Quiet
  <2>7. ~opened => ~wa.wants
    BY <1>1, <2>3 DEF Deaf
  <2>8. wa.wants /\ wa.gen = gen /\ (\A j \in DOMAIN news : ~Tells(j, "started")) => wa.on = shown
    BY <1>3, <2>1, <2>3, AnsweredByShown
  <2> QED BY <1>2, <2>1, <2>3, <2>4, <2>5, <2>6, <2>7, <2>8, WebAnswers
<1>9. CASE e.op \in {"hit", "src"} /\ news' = Append(news, fo) /\ UNCHANGED webprocess
  <2>1. fo \in Message /\ fo.is = "found" /\ fo.of = e
    BY <1>3, <1>9, MessageKinds DEF Answered
  <2> HIDE DEF fo
  <2>2. Moves(0, {fo}, 1, {})
    BY <1>1, <1>3, <1>9, <2>1, Tells1
  <2>3. asking' \in {0, asking} /\ UNCHANGED <<doc, going, loading>>
    BY <1>9 DEF webprocess
  <2>4. \E j \in DOMAIN evals : fo.of = evals[j]
    BY <1>3, <2>1
  <2> QED BY <1>2, <2>1, <2>2, <2>3, <2>4, WebAnswers
<1> HIDE DEF e, ca, wa, fo
<1>10. \/ e.op = "load" /\ Ask(e.n, "other") /\ UNCHANGED <<doc, loading>>
       \/ e.op = "use" /\ e.n = asking /\ asking' = 0 /\ UNCHANGED doc /\ going' = e.n /\ loading' = FALSE
          /\ news' = Append(news, [is |-> "started"])
       \/ asking' \in {0, asking} /\ UNCHANGED <<doc, going, loading, news>>
       \/ e.op = "snap" /\ news' = Append(news, ca) /\ UNCHANGED webprocess
       \/ e.op = "probe" /\ news' = Append(news, wa) /\ UNCHANGED webprocess
       \/ e.op \in {"hit", "src"} /\ news' = Append(news, fo) /\ UNCHANGED webprocess
  BY <1>2 DEF Handle, webprocess, ca, wa, fo
<1> QED BY <1>4, <1>5, <1>6, <1>7, <1>8, <1>9, <1>10


(* A load ends, or fails before it had a document.                          *)
LEMMA FinishKeeps ==
  ASSUME IInv, Finish, UNCHANGED <<login, sensors, world, queries>>
  PROVE  IInv'
<1>1. /\ TypeOK /\ Typed /\ Numbered /\ InTurn /\ Probed /\ Told /\ Current /\ Deaf /\ Running /\ TypeOK0 /\ TypeOKSensors
      /\ navs \in Nat /\ held \in {0} \cup Navs /\ doc \in {0} \cup Navs /\ asking \in {0} \cup Navs
      /\ released \in [Navs -> 0 .. 1]
  BY Facts DEF IInv, TypeOK
<1>2. /\ UNCHANGED <<alive, card, guard, shown, up, doc, asking, evals, view, prewarm, opened, wants, sensord>>
      /\ UNCHANGED <<held, released, recent, failsafes, probing, pushing, gen, navs, crashes, freed>>
      /\ up /\ going' = 0 /\ loading' = FALSE
  BY DEF Finish, card, login, sensors, world, counters
<1> DEFINE z == [is |-> "finished"]
           M == {z}
<1>3. z \in Message /\ z.is = "finished" /\ news' = Append(news, z)
  BY MessageKinds DEF Finish
<1>4. Moves(0, M, 0, {})
  <2> HIDE DEF z
  <2> QED BY <1>1, <1>2, <1>3, Tells1, EvalsStay
<1>5. \A m \in M : m.is = "finished"
  BY <1>3
<1> HIDE DEF z, M
<1>6. TypeOK' /\ Running' /\ Questioned' /\ PushedToAsker' /\ AsBuilt' /\ ProbeNeverUsesFreed'
  <2>1. {doc', asking', going'} \subseteq {0} \cup Navs /\ loading' \in BOOLEAN /\ {wants', sensord'} \subseteq BOOLEAN
    BY <1>1, <1>2 DEF TypeOK0, TypeOKSensors
  <2>2. \A m \in M : m.is \notin {"terminated", "failed", "found"}
    BY <1>5
  <2> QED BY <1>2, <1>4, <2>1, <2>2, WebStep
<1>7. Numbered'
  <2>1. /\ 0 \in {0} \cup Navs /\ 0 <= navs /\ navs' \in {navs, navs + 1} /\ asking' \in {0, asking}
        /\ held' # 0 => held' # 0 /\ (held' = held \/ (0 = 1 /\ Tells(1, "policy") /\ held' = news[1].n))
        /\ \A n \in Navs : n # 0 => released'[n] = released[n]
        /\ (failsafes' = 1 => recent')
        /\ \A m \in M : m.is # "policy"
    BY <1>1, <1>2, <1>5 DEF Numbered
  <2>2. \A j \in DOMAIN news : j > 0 /\ Tells(j, "policy") => news[j].n # 0
    BY <1>1, MessageParts, ElementOfSeq DEF Typed, Tells, Navs
  <2>3. \A j \in DOMAIN evals : Sends(j, "load") => evals[j].n # 0
    BY <1>1, MessageParts, ElementOfSeq DEF Typed, Sends, Navs
  <2>4. /\ Numbered /\ Typed /\ navs \in Nat /\ asking \in {0} \cup Navs /\ released \in [Navs -> 0 .. 1]
        /\ held \in {0} \cup Navs
        /\ \A x \in {} : x.op # "load" /\ (x.op \in {"use", "ignore"} => x.n = 0)
    BY <1>1
  <2> QED BY <1>4, <2>1, <2>2, <2>3, <2>4, NumberedKept
<1>8. InTurn'
  <2>1. /\ going' \in {0, going} /\ asking' \in {0, asking} /\ doc' = doc /\ held' \in {0, held} /\ up' = up
        /\ \A m \in M : m.is # "policy"
    BY <1>2, <1>5
  <2> QED BY <1>1, <1>4, <2>1, InTurnKept
<1>9. Quiet => Quiet'
  BY <1>2, <1>4, <1>5, QuietKept DEF Quiet
<1>10. Probed'
  <2>1. gen' = gen /\ alive' = alive /\ going' = 0 /\ \A m \in M : m.is # "committed" /\ m.is # "wanted"
    BY <1>2, <1>5
  <2> QED BY <1>1, <1>4, <1>9, <2>1, ProbedKept
<1>11. Told'
  <2>1. doc' = doc /\ shown' = shown /\ \A m \in M : m.is # "committed"
    BY <1>2, <1>5
  <2> QED BY <1>1, <1>4, <2>1, ToldKept
<1>12. Current'
  <2>1. \A m \in M : m.is # "wanted"
    BY <1>5
  <2> QED BY <1>1, <1>2, <1>4, <2>1, CurrentKept
<1>13. Deaf'
  <2>1. \A i \in DOMAIN news' : Tells(i, "wanted")' => \E j \in DOMAIN news : news'[i] = news[j]
    BY <1>4, <1>5, MovesFrom DEF Tells
  <2> QED BY <1>1, <1>2, <2>1, DeafKept DEF Deaf
<1> QED BY <1>6, <1>7, <1>8, <1>10, <1>11, <1>12, <1>13 DEF IInv

(* A document replaces the one before it; nobody waits for that one now.    *)
LEMMA CommitKeeps ==
  ASSUME IInv, Commit, wants' = FALSE, UNCHANGED <<login, sensors, sensord, queries>>
  PROVE  IInv'
<1>1. /\ TypeOK /\ Typed /\ Numbered /\ InTurn /\ Probed /\ Told /\ Current /\ Deaf /\ Running /\ TypeOK0 /\ TypeOKSensors
      /\ navs \in Nat /\ held \in {0} \cup Navs /\ asking \in {0} \cup Navs /\ going \in {0} \cup Navs
      /\ released \in [Navs -> 0 .. 1]
  BY Facts DEF IInv, TypeOK
<1>2. /\ UNCHANGED <<alive, card, guard, shown, up, asking, evals, view, prewarm, opened, sensord>>
      /\ UNCHANGED <<held, released, recent, failsafes, probing, pushing, gen, navs, crashes, freed>>
      /\ up /\ going # 0 /\ doc' = going /\ going' = 0 /\ loading' = TRUE
  BY DEF Commit, card, login, sensors, counters
<1> DEFINE z == [is |-> "committed", n |-> going]
           M == {z}
<1>3. z \in Message /\ z.is = "committed" /\ z.n = going /\ news' = Append(news, z)
  BY <1>1, <1>2, MessageKinds DEF Commit
<1>4. /\ Len(news') = Len(news) + 1 /\ DOMAIN news' = 1 .. Len(news) + 1 /\ Len(news) \in Nat
      /\ DOMAIN news = 1 .. Len(news) /\ news'[Len(news) + 1] = z
  <2> HIDE DEF z
  <2> QED BY <1>1, <1>3 DEF Typed
<1>5. Moves(0, M, 0, {})
  <2> HIDE DEF z
  <2> QED BY <1>1, <1>2, <1>3, Tells1, EvalsStay
<1>6. \A m \in M : m.is = "committed"
  BY <1>3
<1> HIDE DEF z, M
<1>7. TypeOK' /\ Running' /\ Questioned' /\ PushedToAsker' /\ AsBuilt' /\ ProbeNeverUsesFreed'
  <2>1. {doc', asking', going'} \subseteq {0} \cup Navs /\ loading' \in BOOLEAN /\ {wants', sensord'} \subseteq BOOLEAN
    BY <1>1, <1>2 DEF TypeOK0, TypeOKSensors
  <2>2. \A m \in M : m.is \notin {"terminated", "failed", "found"}
    BY <1>6
  <2> QED BY <1>2, <1>5, <2>1, <2>2, WebStep
<1>8. Numbered'
  <2>1. /\ 0 \in {0} \cup Navs /\ 0 <= navs /\ navs' \in {navs, navs + 1} /\ asking' \in {0, asking}
        /\ held' # 0 => held' # 0 /\ (held' = held \/ (0 = 1 /\ Tells(1, "policy") /\ held' = news[1].n))
        /\ \A n \in Navs : n # 0 => released'[n] = released[n]
        /\ (failsafes' = 1 => recent')
        /\ \A m \in M : m.is # "policy"
    BY <1>1, <1>2, <1>6 DEF Numbered
  <2>2. \A j \in DOMAIN news : j > 0 /\ Tells(j, "policy") => news[j].n # 0
    BY <1>1, MessageParts, ElementOfSeq DEF Typed, Tells, Navs
  <2>3. \A j \in DOMAIN evals : Sends(j, "load") => evals[j].n # 0
    BY <1>1, MessageParts, ElementOfSeq DEF Typed, Sends, Navs
  <2>4. /\ Numbered /\ Typed /\ navs \in Nat /\ asking \in {0} \cup Navs /\ released \in [Navs -> 0 .. 1]
        /\ held \in {0} \cup Navs
        /\ \A x \in {} : x.op # "load" /\ (x.op \in {"use", "ignore"} => x.n = 0)
    BY <1>1
  <2> QED BY <1>5, <2>1, <2>2, <2>3, <2>4, NumberedKept
<1>9. InTurn'
  <2>1. (\A j \in DOMAIN news : ~Tells(j, "policy")) /\ \A j \in DOMAIN evals : ~Sends(j, "snap")
    BY <1>1, <1>2 DEF InTurn
  <2>2. \A i \in DOMAIN news' : ~Tells(i, "policy")'
    BY <1>5, <1>6, <2>1, MovesFrom DEF Tells
  <2>3. \A i \in DOMAIN evals' : ~Sends(i, "snap")'
    BY <1>2, <2>1 DEF Sends
  <2> QED BY <2>2, <2>3, InTurnClear
<1>10. Quiet => Quiet'
  BY <1>2, <1>5, <1>6, QuietKept DEF Quiet
<1>11. Probed'
  <2>1. /\ gen' = gen /\ alive' = alive /\ going' = 0 /\ going # 0 /\ Len(news') + 0 <= Len(news) + 1
        /\ \A m \in M : m.is # "wanted"
    BY <1>2, <1>4, <1>6
  <2> QED BY <1>1, <1>5, <1>10, <2>1, ProbedKept
<1>12. Told'
  <2>1. /\ Len(news) + 1 \in DOMAIN news' /\ news'[Len(news) + 1].is = "committed" /\ news'[Len(news) + 1].n = doc'
        /\ \A j \in DOMAIN news' : ~(j > Len(news) + 1)
    BY <1>2, <1>3, <1>4
  <2> QED BY <2>1 DEF Told, Tells
<1>13. Current'
  <2>1. \A m \in M : m.is # "wanted"
    BY <1>6
  <2> QED BY <1>1, <1>2, <1>5, <2>1, CurrentKept
<1>14. Deaf'
  <2>1. \A i \in DOMAIN news' : Tells(i, "wanted")' => \E j \in DOMAIN news : news'[i] = news[j]
    BY <1>5, <1>6, MovesFrom DEF Tells
  <2> QED BY <1>1, <1>2, <2>1, DeafKept
<1> QED BY <1>7, <1>8, <1>9, <1>11, <1>12, <1>13, <1>14 DEF IInv


(* The WebProcess dies: what it was sent fails, and then the view is told.  *)
LEMMA CrashKeeps ==
  ASSUME IInv, Crash, wants' = FALSE, UNCHANGED <<login, sensors, sensord, queries>>
  PROVE  IInv'
<1>1. /\ TypeOK /\ Typed /\ Numbered /\ InTurn /\ Probed /\ Told /\ Current /\ Deaf /\ Running /\ TypeOK0 /\ TypeOKSensors
      /\ navs \in Nat /\ held \in {0} \cup Navs /\ asking \in {0} \cup Navs /\ going \in {0} \cup Navs
      /\ released \in [Navs -> 0 .. 1] /\ MaxNavs \in Nat /\ crashes \in 0 .. MaxCrashes /\ MaxCrashes \in Nat
      /\ Questioned /\ PushedToAsker /\ AsBuilt /\ ProbeNeverUsesFreed
      /\ TypeOKLogin /\ TypeOKQueries
  BY Facts DEF IInv, TypeOK
<1>2. /\ UNCHANGED <<alive, marks, guard, shown, view, prewarm, opened, sensord>>
      /\ UNCHANGED <<held, released, recent, failsafes, probing, pushing, sock, gen, pushFor, navs, freed>>
      /\ UNCHANGED <<hitQ, saveQ, inFlight, downloads, hitAnswers, saveAnswers, dropped>>
      /\ up /\ ~up' /\ up' = FALSE /\ doc' = 0 /\ asking' = 0 /\ going' = 0 /\ loading' = FALSE
      /\ evals' = <<>> /\ crashes < MaxCrashes /\ crashes' = crashes + 1
  BY DEF Crash, card, login, sensors, queries
<1> DEFINE t == [is |-> "terminated"]
           M == FailedOf(evals) \cup {t}
<1>3. t \in Message /\ t.is = "terminated"
  BY MessageKinds
<1>4. PICK f \in Unanswered(evals) : news' = (news \o Failed(evals, f)) \o <<t>>
  BY DEF Crash
<1> DEFINE F == Failed(evals, f)
           U == F \o <<t>>
<1>5. F \in Seq(Message) /\ \A j \in DOMAIN F : F[j] \in FailedOf(evals)
  BY <1>1, FailedSeq DEF Typed
<1> HIDE DEF t, F
<1>6. <<t>> \in Seq(Message) /\ Len(<<t>>) = 1 /\ <<t>>[1] = t
  BY <1>3
<1>7. /\ U \in Seq(Message) /\ Len(U) = Len(F) + 1 /\ Len(F) \in Nat
      /\ \A j \in 1 .. Len(F) : U[j] = F[j]
      /\ U[Len(F) + 1] = t
  <2>1. /\ U \in Seq(Message) /\ Len(U) = Len(F) + Len(<<t>>)
        /\ \A i \in 1 .. Len(F) + Len(<<t>>) : U[i] = IF i <= Len(F) THEN F[i] ELSE <<t>>[i - Len(F)]
    BY <1>5, <1>6, ConcatProperties
  <2>2. Len(F) \in Nat
    BY <1>5
  <2>3. Len(F) + 1 \in 1 .. Len(F) + 1 /\ ~(Len(F) + 1 <= Len(F)) /\ (Len(F) + 1) - Len(F) = 1
    BY <2>2
  <2> QED BY <1>6, <2>1, <2>2, <2>3
<1>8. news' = news \o U
  BY <1>1, <1>4, <1>5, <1>6, ConcatAssociative DEF Typed, F
<1> HIDE DEF U
<1>9. /\ Shift(news, news', 0) /\ news' \in Seq(Message)
      /\ \A i \in DOMAIN news' : i + 0 > Len(news) =>
           \E j \in DOMAIN U : i + 0 = Len(news) + j /\ news'[i] = U[j]
  <2>1. Shift(news, news, 0) /\ Len(news) + 0 = Len(news) /\ news \in Seq(Message)
    BY <1>1, Stays DEF Typed
  <2>2. \A u \in Seq(Message) :
          /\ Shift(news, news \o u, 0) /\ news \o u \in Seq(Message)
          /\ \A i \in DOMAIN (news \o u) : i + 0 > Len(news) =>
               \E j \in DOMAIN u : i + 0 = Len(news) + j /\ (news \o u)[i] = u[j]
    BY <2>1, Adds
  <2> QED BY <1>7, <1>8, <2>2
<1>10. DOMAIN U = 1 .. Len(F) + 1 /\ DOMAIN F = 1 .. Len(F)
  BY <1>5, <1>7
<1>11. ASSUME NEW j \in DOMAIN U
       PROVE  U[j] \in M /\ (U[j].is = "terminated" => j = Len(F) + 1)
  <2>1. CASE j <= Len(F)
    <3>1. U[j] = F[j] /\ F[j] \in FailedOf(evals)
      BY <1>5, <1>7, <1>10, <2>1
    <3> QED BY <3>1 DEF FailedOf
  <2>2. CASE j = Len(F) + 1
    BY <1>7, <2>2
  <2> QED BY <1>7, <1>10, <2>1, <2>2
<1>12. /\ Len(news) \in Nat /\ Len(news') = Len(news) + Len(F) + 1 /\ DOMAIN news' = 1 .. Len(news')
       /\ news'[Len(news')] = t
  <2>1. /\ Len(news) \in Nat /\ Len(news \o U) = Len(news) + Len(U)
        /\ \A i \in 1 .. Len(news) + Len(U) : (news \o U)[i] = IF i <= Len(news) THEN news[i] ELSE U[i - Len(news)]
    BY <1>1, <1>7, ConcatProperties DEF Typed
  <2>2. /\ Len(news) + (Len(F) + 1) \in 1 .. Len(news) + Len(U) /\ ~(Len(news) + (Len(F) + 1) <= Len(news))
        /\ (Len(news) + (Len(F) + 1)) - Len(news) = Len(F) + 1
        /\ Len(news) + Len(U) = Len(news) + Len(F) + 1
        /\ Len(news) + (Len(F) + 1) = Len(news) + Len(F) + 1
    BY <1>7, <2>1
  <2>3. (news \o U)[Len(news) + (Len(F) + 1)] = t
    BY <1>7, <2>1, <2>2
  <2>4. DOMAIN news' = 1 .. Len(news')
    BY <1>9
  <2> QED BY <1>8, <2>1, <2>2, <2>3, <2>4
<1>13. Moves(0, M, 0, {})
  <2>1. From(evals, evals', 0) /\ evals' \in Seq(Evaluation) /\ DOMAIN evals' = {}
    BY <1>1, <1>2 DEF From, Typed
  <2>2. \A i \in DOMAIN news' : i + 0 > Len(news) => news'[i] \in M
    BY <1>9, <1>11
  <2> QED BY <1>9, <2>1, <2>2 DEF Moves
<1>14. \A m \in M : m.is \in {"failed", "terminated"}
  BY <1>3 DEF FailedOf
<1>15. Running'
  <2>1. alive' /\ ~up' /\ view' # NoView /\ evals' = <<>> /\ doc' = 0 /\ asking' = 0 /\ going' = 0
    BY <1>1, <1>2 DEF Running, TypeOK0
  <2>2. ASSUME NEW i \in DOMAIN news', Tells(i, "terminated")'
        PROVE  i = Len(news')
    <3>1. ~(i <= Len(news))
      <4> SUFFICES ASSUME i <= Len(news) PROVE FALSE
        OBVIOUS
      <4>1. i + 0 = i
        BY <1>12
      <4>2. i \in DOMAIN news /\ news'[i] = news[i]
        BY <1>9, <4>1 DEF Shift, From
      <4> QED BY <1>1, <1>2, <2>2, <4>2 DEF Running, Tells
    <3>2. PICK j \in DOMAIN U : i + 0 = Len(news) + j /\ news'[i] = U[j]
      BY <1>9, <1>12, <3>1
    <3>3. j = Len(F) + 1
      BY <1>11, <2>2, <3>2 DEF Tells
    <3> QED BY <1>7, <1>12, <3>2, <3>3
  <2>3. navs' < MaxNavs + crashes' /\ crashes' > 0 /\ navs' <= MaxNavs + crashes'
    BY <1>1, <1>2 DEF Running
  <2>4. \A i \in DOMAIN news' : Tells(i, "terminated")' =>
          \A j \in DOMAIN news' : Tells(j, "terminated")' => j = i
    BY <2>2
  <2> QED BY <2>1, <2>3, <2>4 DEF Running
<1>16. Numbered'
  <2>1. /\ 0 \in {0} \cup Navs /\ 0 <= navs /\ navs' \in {navs, navs + 1} /\ asking' \in {0, asking}
        /\ held' # 0 => held' # 0 /\ (held' = held \/ (0 = 1 /\ Tells(1, "policy") /\ held' = news[1].n))
        /\ \A n \in Navs : n # 0 => released'[n] = released[n]
        /\ (failsafes' = 1 => recent')
        /\ \A m \in M : m.is # "policy"
    BY <1>1, <1>2, <1>14 DEF Numbered
  <2>2. \A j \in DOMAIN news : j > 0 /\ Tells(j, "policy") => news[j].n # 0
    BY <1>1, MessageParts, ElementOfSeq DEF Typed, Tells, Navs
  <2>3. \A j \in DOMAIN evals : Sends(j, "load") => evals[j].n # 0
    BY <1>1, MessageParts, ElementOfSeq DEF Typed, Sends, Navs
  <2>4. /\ Numbered /\ Typed /\ navs \in Nat /\ asking \in {0} \cup Navs /\ released \in [Navs -> 0 .. 1]
        /\ held \in {0} \cup Navs
        /\ \A x \in {} : x.op # "load" /\ (x.op \in {"use", "ignore"} => x.n = 0)
    BY <1>1
  <2> HIDE DEF M
  <2> QED BY <1>13, <2>1, <2>2, <2>3, <2>4, NumberedKept
<1>17. InTurn'
  <2>1. (Len(news) \in DOMAIN news /\ Tells(Len(news), "terminated"))'
    BY <1>3, <1>12 DEF Tells
  <2>2. \A m \in M : m.is # "policy"
    BY <1>14
  <2> QED BY <1>1, <1>2, <1>13, <2>1, <2>2, InTurnCrash
<1>18. Quiet => Quiet'
  BY <1>2, <1>13, <1>14, QuietKept DEF Quiet
<1>19. Probed'
  <2>1. gen' = gen /\ alive' = alive /\ going' = 0 /\ \A m \in M : m.is # "committed" /\ m.is # "wanted"
    BY <1>2, <1>14
  <2> QED BY <1>1, <1>13, <1>18, <2>1, ProbedKept
<1>20. Told'
  BY <1>2 DEF Told
<1>21. Current'
  <2>1. \A m \in M : m.is # "wanted"
    BY <1>14
  <2> QED BY <1>1, <1>2, <1>13, <2>1, CurrentKept
<1>22. Deaf'
  <2>1. \A i \in DOMAIN news' : Tells(i, "wanted")' => \E j \in DOMAIN news : news'[i] = news[j]
    BY <1>13, <1>14, MovesFrom DEF Tells
  <2> QED BY <1>1, <1>2, <2>1, DeafKept
<1>23. Questioned'
  <2>1. \A m \in M : m.is \in {"found", "failed"} => \E j \in DOMAIN evals : m.of = evals[j]
    BY <1>3 DEF FailedOf
  <2> QED BY <1>1, <1>2, <1>13, <2>1, QuestionedKept
<1>24. PushedToAsker' /\ AsBuilt' /\ ProbeNeverUsesFreed'
  BY <1>1, <1>2 DEF PushedToAsker, AsBuilt, ViewIsTheCards, ProbeNeverUsesFreed
<1>25. TypeOK'
  <2>1. crashes' \in 0 .. MaxCrashes
    BY <1>1, <1>2
  <2>2. TypeOK0'
    BY <1>1, <1>2, <1>13, <2>1 DEF TypeOK0, Moves
  <2>3. TypeOKLogin' /\ TypeOKSensors' /\ TypeOKQueries'
    BY <1>1, <1>2 DEF TypeOKLogin, TypeOKSensors, TypeOKQueries
  <2> QED BY <2>2, <2>3 DEF TypeOK
<1> QED BY <1>15, <1>16, <1>17, <1>19, <1>20, <1>21, <1>22, <1>23, <1>24, <1>25 DEF IInv

-----------------------------------------------------------------------------
(* A card starts with no question open, and every step keeps the answers    *)
(* those of the documents that were asked.                                  *)
LEMMA Starts == Init => IInv
<1> SUFFICES ASSUME Init PROVE IInv
  OBVIOUS
<1>1. /\ alive /\ marks = {} /\ opened = FALSE /\ guard = FALSE /\ freed = FALSE /\ news = <<>> /\ DOMAIN news = {} /\ Len(news) = 0
      /\ doc = 0 /\ asking = 0 /\ going = 0 /\ loading = FALSE /\ crashes = 0 /\ shown = 0
      /\ held = 0 /\ recent = FALSE /\ failsafes = 0 /\ released = [n \in Navs |-> 0]
      /\ probing = FALSE /\ pushing = FALSE /\ sock = "none" /\ gen = 0 /\ pushFor = 0 /\ wants = FALSE /\ sensord = TRUE
      /\ hitQ = 0 /\ saveQ = 0 /\ inFlight = NoFile /\ downloads = {} /\ hitAnswers = {} /\ saveAnswers = {} /\ dropped = {}
      /\ MaxNavs \in Nat /\ MaxCrashes \in Nat
  BY BoundAssumption DEF Init, Init0, InitLogin, InitSensors, InitQueries
<1>2. \/ prewarm = FALSE /\ view = NoView /\ up = FALSE /\ evals = <<>> /\ navs = 0
      \/ prewarm = TRUE /\ view = {} /\ up = TRUE /\ navs = 1 /\ evals = <<[op |-> "load", n |-> 1]>>
  BY DEF Init, Init0
<1>3. \A i \in DOMAIN evals : i = 1 /\ evals[i] = [op |-> "load", n |-> 1] /\ navs = 1
  BY <1>2
<1>4. \A i \in DOMAIN evals : evals[i].op = "load" /\ evals[i].n = 1 /\ i = 1 /\ navs = 1
  BY <1>3
<1>5. navs \in {0, 1} /\ navs <= MaxNavs + crashes /\ navs \in {0} \cup Navs /\ (navs = 1 => 1 \in Navs)
  BY <1>1, <1>2, BoundAssumption DEF Navs
<1>6. TypeOK
  <2>1. evals \in Seq(Evaluation)
    <3>1. CASE evals = <<>>
      BY <3>1
    <3>2. CASE evals = <<[op |-> "load", n |-> 1]>> /\ navs = 1
      <4>1. [op |-> "load", n |-> 1] \in Evaluation
        BY <1>5, <3>2, EvaluationKinds
      <4> QED BY <3>2, <4>1
    <3> QED BY <1>2, <3>1, <3>2
  <2>2. marks \subseteq Marks /\ (view = NoView \/ view \subseteq marks) /\ (up => view # NoView)
    BY <1>1, <1>2, ViewAssumption
  <2>3. /\ {alive, prewarm, opened, guard, up, loading, freed} \subseteq BOOLEAN
        /\ {doc, asking, going, shown} \subseteq {0} \cup Navs
        /\ crashes \in 0 .. MaxCrashes /\ news \in Seq(Message)
    <3>1. {alive, prewarm, opened, guard, up, loading, freed} \subseteq BOOLEAN
      <4>1. alive \in BOOLEAN /\ opened \in BOOLEAN /\ guard \in BOOLEAN /\ loading \in BOOLEAN /\ freed \in BOOLEAN
        BY <1>1
      <4>2. prewarm \in BOOLEAN /\ up \in BOOLEAN
        BY <1>2
      <4> QED BY <4>1, <4>2
    <3>2. {doc, asking, going, shown} \subseteq {0} \cup Navs
      BY <1>1
    <3>3. crashes \in 0 .. MaxCrashes
      BY <1>1
    <3>4. news \in Seq(Message)
      BY <1>1
    <3> QED BY <3>1, <3>2, <3>3, <3>4
  <2>4. TypeOK0
    BY <1>5, <2>1, <2>2, <2>3 DEF TypeOK0
  <2>5. TypeOKLogin
    <3>1. held \in {0} \cup Navs /\ failsafes \in 0 .. 1 /\ released \in [Navs -> 0 .. 1]
      BY <1>1
    <3>2. recent \in BOOLEAN
      BY <1>1
    <3> QED BY <3>1, <3>2 DEF TypeOKLogin
  <2>6. TypeOKSensors
    <3>1. probing \in BOOLEAN /\ pushing \in BOOLEAN /\ wants \in BOOLEAN /\ sensord \in BOOLEAN
      BY <1>1
    <3>2. sock \in {"none", "up", "dropped"} /\ gen \in Nat /\ pushFor \in {0} \cup Navs
      BY <1>1
    <3> QED BY <1>1, <3>1, <3>2 DEF TypeOKSensors
  <2>7. TypeOKQueries
    BY <1>1 DEF TypeOKQueries
  <2> QED BY <2>4, <2>5, <2>6, <2>7 DEF TypeOK
<1>7. Running
  BY <1>1, <1>2, <1>5 DEF Running, Tells
<1>8. Numbered
  <2>1. \A n \in Navs : released[n] = 0
    BY <1>1
  <2> QED BY <1>1, <1>4, <1>5, <2>1 DEF Numbered, Tells, Sends, DecisionAt
<1>9. InTurn
  BY <1>1, <1>4 DEF InTurn, Tells, Sends
<1>10. Probed
  BY <1>1, <1>4 DEF Probed, Commits, Tells, Sends
<1>11. Told /\ Current /\ Deaf
  BY <1>1 DEF Told, Current, Deaf, Tells
<1>12. Questioned
  BY <1>1, <1>4 DEF Questioned, Tells, Sends
<1>13. PushedToAsker /\ AsBuilt /\ ProbeNeverUsesFreed
  BY <1>1, <1>2 DEF PushedToAsker, AsBuilt, ViewIsTheCards, ProbeNeverUsesFreed
<1> QED BY <1>6, <1>7, <1>8, <1>9, <1>10, <1>11, <1>12, <1>13 DEF IInv

LEMMA Stutters == ASSUME IInv, UNCHANGED vars PROVE IInv'
<1>1. /\ UNCHANGED <<alive, card, shown, up, webprocess, counters, freed, held, released, evals, news>>
      /\ UNCHANGED <<probing, pushing, pushFor, gen, hitQ, saveQ, guard, recent, failsafes, wants>>
      /\ UNCHANGED <<login, sensors, world, queries>>
  BY DEF vars, vars0, login, sensors, world, queries
<1>2. /\ guard' \in BOOLEAN /\ (failsafes' = 1 => recent') /\ (wants' => wants \/ opened)
  BY <1>1 DEF IInv, TypeOK, TypeOK0, Numbered
<1>3. TypeOKLogin' /\ TypeOKSensors' /\ TypeOKQueries'
  BY <1>1 DEF IInv, TypeOK, TypeOKLogin, TypeOKSensors, TypeOKQueries, Questioned,
     login, sensors, world, queries
<1> QED BY <1>1, <1>2, <1>3, IdleStep

LEMMA Steps == ASSUME IInv, [Next]_vars PROVE IInv'
<1>1. CASE MainLoop
  BY <1>1, PolicyKeeps, CapturedKeeps, LoadChangedKeeps, TerminatedKeeps, WantedKeeps, ProbeFailedKeeps,
     HitKeeps, SrcKeeps DEF MainLoop
<1>2. CASE Loads
  <2>1. CASE \E m \in SUBSET Marks : OpenUrl(m)
    BY <1>2, <2>1, OpenUrlKeeps DEF Loads
  <2>2. CASE GuardOver \/ SiblingReloads
    BY <1>2, <2>2, IdleKeeps DEF Loads
  <2>3. CASE Finish
    BY <1>2, <2>3, FinishKeeps DEF Loads
  <2>4. CASE \E kind \in {"form", "link", "handoff"} : Navigate(kind)
    BY <1>2, <2>4, NavigateKeeps DEF Loads
  <2>5. CASE Handle(wants)
    BY <1>2, <2>5, HandleKeeps DEF Loads
  <2>6. CASE SetHtml
    BY <1>2, <2>6, SetHtmlKeeps DEF Loads
  <2> QED BY <1>2, <2>1, <2>2, <2>3, <2>4, <2>5, <2>6 DEF Loads
<1>3. CASE Replaces
  BY <1>3, CommitKeeps, CrashKeeps DEF Replaces
<1>4. CASE Timers
  <2>1. CASE Failsafe /\ UNCHANGED <<sensors, world, queries>>
    BY <2>1, FailsafeKeeps
  <2>2. CASE DeferAgain /\ UNCHANGED <<sensors, world, queries>>
    BY <2>2, IdleKeeps
  <2>3. CASE ProbeTimer /\ UNCHANGED <<login, queries>>
    BY <2>3, ProbeTimerKeeps
  <2>4. CASE PushTimer /\ UNCHANGED <<login, queries>>
    BY <2>4, IdleKeeps
  <2> QED BY <1>4, <2>1, <2>2, <2>3, <2>4 DEF Timers
<1>5. CASE World
  BY <1>5, IdleKeeps DEF World
<1>6. CASE Questions
  BY <1>6, HitTestKeeps, SaveImageKeeps, DownloadKeeps DEF Questions
<1>7. CASE Destroy
  BY <1>7, DestroyKeeps
<1>8. CASE UNCHANGED vars
  BY <1>8, Stutters
<1> QED BY <1>1, <1>2, <1>3, <1>4, <1>5, <1>6, <1>7, <1>8 DEF Next

(* Every state a card, its WebProcess and the answers between them reach is *)
(* one the invariant describes.                                             *)
THEOREM Invariance == Spec => []IInv
BY Starts, Steps, PTL DEF Spec

(* Every state of the card is well typed; in particular a navigation that   *)
(* onDecidePolicy held is let go of at most once, by releaseLoginDecision,  *)
(* whichever of the capture and the failsafe comes first.                   *)
THEOREM TypeCorrect == Spec => []TypeOK
<1>1. IInv => TypeOK
  BY DEF IInv
<1> QED BY <1>1, Invariance, PTL

(* A card never shows its page in a view that was built without the markers *)
(* its first URL carries (openUrl drops a warm view that lacks them),       *)
(* whatever crashed or was answered late in between.                        *)
THEOREM ViewAlwaysTheCards == Spec => []ViewIsTheCards
<1>1. IInv => ViewIsTheCards
  BY DEF IInv, AsBuilt
<1> QED BY <1>1, Invariance, PTL

(* onSensorProbe, which looks at no live set, never touches a page that was *)
(* destroyed while its answer was on the way: the cancellation reaches it   *)
(* first, however the page's end, the WebProcess's death and the answer     *)
(* race.                                                                    *)
THEOREM FreedPageUnprobed == Spec => []ProbeNeverUsesFreed
<1>1. IInv => ProbeNeverUsesFreed
  BY DEF IInv
<1> QED BY <1>1, Invariance, PTL

(* The sensors are pushed to the document that asked for them, never to one *)
(* that replaced it while the answer of the probe was on its way            *)
(* (stopSensors at the start of every load).                                *)
THEOREM PushGoesToAsker == Spec => []PushedToAsker
<1>1. IInv => PushedToAsker
  BY DEF IInv
<1> QED BY <1>1, Invariance, PTL

(* The capture that a held navigation waits for (onDecidePolicy) runs in    *)
(* the document that submits, never in the one it goes to.                  *)
THEOREM CaptureReadsSubmitter == Spec => []ScrapesSubmitter
<1>1. IInv => ScrapesSubmitter
  <2> SUFFICES ASSUME IInv, evals # <<>>, Head(evals).op = "snap"
               PROVE  Head(evals).from = doc
    BY DEF ScrapesSubmitter
  <2>1. Typed /\ InTurn
    BY Facts DEF IInv
  <2>2. Head(evals) = evals[1] /\ 1 \in DOMAIN evals
    BY <2>1, Heads
  <2> QED BY <2>1, <2>2 DEF InTurn, Sends
<1> QED BY <1>1, Invariance, PTL
=============================================================================
