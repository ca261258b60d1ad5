-------------------------- MODULE PageBuffersProofs --------------------------
(***************************************************************************)
(* The keys of the double buffer are kept apart by where they are: owned   *)
(* by the page, on their way to the adapter, on screen, or on their way    *)
(* back.  The invariant says where each attach's keys can be, and in what  *)
(* order the pictures in them were painted.                                *)
(***************************************************************************)
EXTENDS PageBuffers, TLAPS, SequenceTheorems, FiniteSetTheorems

Is(i, op) == toServer[i].op = op
Return(k) == [op |-> "return", key |-> k]

(* The attach a pending call brings the keys of.                           *)
Num(i) == toServer[i].keys[0][1]

(* Keys come from the attaches made so far, and the page and the adapter   *)
(* name the same two.                                                      *)
Named ==
  /\ \A b \in Bufs : /\ off[b][1] <= attaches
                     /\ off[b] # NoKey => off[b][2] = b
                     /\ own[b] => off[b] # NoKey
  /\ known = {} \/ known = {attaches} \X Bufs
  /\ shown # NoKey => shown \in known
  /\ \A i \in DOMAIN toAdapter : toAdapter[i][1] <= attaches
  /\ \A i \in DOMAIN toServer : /\ Is(i, "return") => toServer[i].key[1] <= attaches
                                /\ Is(i, "attach") => /\ Num(i) \in 1 .. attaches
                                                      /\ \A b \in Bufs : toServer[i].keys[b] = <<Num(i), b>>
  /\ ~alive => toServer = <<>> /\ \A b \in Bufs : off[b] = NoKey

(* The keys of an attach the page has not heard of are nowhere yet.        *)
Fresh ==
  \A i \in DOMAIN toServer : Is(i, "attach") =>
    /\ \A b \in Bufs : off[b][1] # Num(i)
    /\ shown[1] # Num(i)
    /\ \A j \in DOMAIN toAdapter : toAdapter[j][1] # Num(i)
    /\ \A j \in DOMAIN toServer : /\ Is(j, "return") => toServer[j].key[1] # Num(i)
                                  /\ Is(j, "attach") /\ j # i => Num(j) # Num(i)

(* No key is in two places.                                                *)
Apart ==
  /\ \A i, j \in DOMAIN toAdapter : i # j => toAdapter[i] # toAdapter[j]
  /\ \A i, j \in DOMAIN toServer :
       Is(i, "return") /\ Is(j, "return") /\ i # j => toServer[i].key # toServer[j].key
  /\ \A i \in DOMAIN toAdapter : toAdapter[i] # shown
  /\ \A i \in DOMAIN toServer : Is(i, "return") =>
       /\ toServer[i].key # shown
       /\ \A j \in DOMAIN toAdapter : toServer[i].key # toAdapter[j]
  /\ \A b \in Bufs : own[b] =>
       /\ off[b] # shown
       /\ \A i \in DOMAIN toAdapter : toAdapter[i] # off[b]
       /\ \A i \in DOMAIN toServer : Is(i, "return") => toServer[i].key # off[b]

(* A key both sides use is somewhere.                                      *)
Somewhere ==
  \A b \in Bufs : Attached /\ off[b] \in known =>
    \/ own[b]
    \/ shown = off[b]
    \/ \E i \in DOMAIN toAdapter : toAdapter[i] = off[b]
    \/ \E i \in DOMAIN toServer : Is(i, "return") /\ toServer[i].key = off[b]

(* What is on its way was painted after what is on screen, in the order of *)
(* the queue.                                                              *)
Stamped ==
  /\ \A k \in Keys : pix[k].stamp <= painted
  /\ \A i, j \in DOMAIN toAdapter : i < j => pix[toAdapter[i]].stamp < pix[toAdapter[j]].stamp
  /\ shown # NoKey =>
       \A i \in DOMAIN toAdapter : pix[shown].stamp < pix[toAdapter[i]].stamp

IInv == TypeOK /\ Named /\ Fresh /\ Apart /\ Somewhere /\ Stamped
-----------------------------------------------------------------------------
keys == <<alive, off, own, painted, pix, adapter, toAdapter, toServer>>

(* Taking the head of a queue moves the rest up by one.                     *)
LEMMA Taken ==
  ASSUME NEW S, NEW q \in Seq(S), q # <<>>
  PROVE  /\ Head(q) \in S
         /\ 1 \in DOMAIN q
         /\ Head(q) = q[1]
         /\ Tail(q) \in Seq(S)
         /\ \A i \in DOMAIN Tail(q) : i + 1 \in DOMAIN q /\ i + 1 # 1 /\ Tail(q)[i] = q[i + 1]
         /\ \A i \in DOMAIN q : i = 1 \/ \E j \in DOMAIN Tail(q) : i = j + 1
<1>1. /\ Len(q) \in Nat \ {0}
      /\ DOMAIN q = 1 .. Len(q)
      /\ Tail(q) \in Seq(S)
      /\ Len(Tail(q)) = Len(q) - 1
      /\ DOMAIN Tail(q) = 1 .. Len(Tail(q))
  OBVIOUS
<1>2. Head(q) = q[1] /\ q[1] \in S
  BY <1>1
<1>3. \A i \in DOMAIN Tail(q) : i + 1 \in DOMAIN q /\ i + 1 # 1 /\ Tail(q)[i] = q[i + 1]
  BY <1>1
<1>4. ASSUME NEW i \in DOMAIN q, i # 1
      PROVE  \E j \in DOMAIN Tail(q) : i = j + 1
  <2>1. i - 1 \in DOMAIN Tail(q) /\ i = (i - 1) + 1
    BY <1>1, <1>4
  <2> QED BY <2>1
<1> QED BY <1>1, <1>2, <1>3, <1>4

(* Appending leaves the rest of a queue where it was.                       *)
LEMMA Queued ==
  ASSUME NEW S, NEW q \in Seq(S), NEW x \in S
  PROVE  /\ Append(q, x) \in Seq(S)
         /\ DOMAIN q \subseteq DOMAIN Append(q, x)
         /\ \A i \in DOMAIN q : Append(q, x)[i] = q[i] /\ i < Len(q) + 1
         /\ Len(q) + 1 \in DOMAIN Append(q, x)
         /\ Append(q, x)[Len(q) + 1] = x
         /\ \A i \in DOMAIN Append(q, x) : i \in DOMAIN q \/ i = Len(q) + 1
  OBVIOUS

(* A key is not NoKey, and names its attach and its buffer.                 *)
LEMMA KeyParts ==
  /\ NoKey \notin Keys
  /\ NoKey[1] = 0
  /\ \A k \in Keys : k = <<k[1], k[2]>> /\ k[1] \in 1 .. MaxAttaches /\ k[2] \in Bufs
  BY BoundAssumption DEF NoKey, Keys, Bufs

(* Nothing is anywhere before the first attach.                             *)
LEMMA Initially == Init => IInv
<1> SUFFICES ASSUME Init
             PROVE  IInv
  OBVIOUS
<1>1. TypeOK
  <2>1. 0 \in Pages /\ 0 \in 0 .. MaxPaints /\ 0 \in 0 .. MaxAttaches /\ "load" \in Ways
    BY BoundAssumption DEF Pages, Ways
  <2>2. pix \in [Keys -> Picture]
    BY <2>1 DEF Init, Picture
  <2>3. off \in [Bufs -> Keys \cup {NoKey}] /\ own \in [Bufs -> BOOLEAN]
    BY DEF Init
  <2>4. gen \in [page : Pages, way : Ways]
    BY <2>1 DEF Init
  <2>5. /\ commits \in Seq([page : Pages, way : Ways]) /\ frames \in Seq([of : Pages, fits : BOOLEAN])
        /\ toAdapter \in Seq(Keys) /\ toServer \in Seq(Call)
    BY DEF Init
  <2>6. /\ alive \in BOOLEAN /\ byHistory \in BOOLEAN /\ web \in Pages /\ goBack \in BOOLEAN
        /\ painted \in 0 .. MaxPaints /\ attaches \in 0 .. MaxAttaches
        /\ shown \in Keys \cup {NoKey} /\ known \subseteq Keys
    BY <2>1 DEF Init
  <2> QED BY <2>2, <2>3, <2>4, <2>5, <2>6 DEF TypeOK
<1>2. Named /\ Fresh /\ Apart
  BY DEF Init, Named, Fresh, Apart, Bufs, NoKey, Keys
<1>3. Somewhere /\ Stamped
  BY DEF Init, Somewhere, Stamped
<1> QED BY <1>1, <1>2, <1>3 DEF IInv

(* A step that moves no key.                                                *)
LEMMA Elsewhere == IInv /\ TypeOK' /\ UNCHANGED keys => IInv'
  BY DEF IInv, Named, Fresh, Apart, Somewhere, Stamped, Is, Num, Attached, keys, adapter

(* The page paints a buffer it owns and sends it off.                       *)
LEMMA Painting ==
  ASSUME IInv, NEW b \in Bufs, NEW p \in Pages, own[b], PaintAndFlush(b, p),
         UNCHANGED <<alive, off, adapter, toServer>>
  PROVE  /\ Named' /\ Fresh' /\ Apart' /\ Somewhere' /\ Stamped'
         /\ painted' \in 0 .. MaxPaints /\ pix' \in [Keys -> Picture]
         /\ own' \in [Bufs -> BOOLEAN] /\ toAdapter' \in Seq(Keys)
<1>0. /\ off \in [Bufs -> Keys \cup {NoKey}] /\ own \in [Bufs -> BOOLEAN]
      /\ toAdapter \in Seq(Keys) /\ painted \in 0 .. MaxPaints /\ pix \in [Keys -> Picture]
      /\ shown \in Keys \cup {NoKey}
      /\ Named /\ Fresh /\ Apart /\ Somewhere /\ Stamped
      /\ alive' = alive /\ off' = off /\ toServer' = toServer
      /\ shown' = shown /\ known' = known /\ attaches' = attaches
  BY DEF IInv, TypeOK, adapter
<1>1. off[b] \in Keys
  BY <1>0 DEF Named
<1>2. painted' \in 0 .. MaxPaints /\ pix' \in [Keys -> Picture]
  <2>1. painted \in Nat /\ painted + 1 \in 0 .. MaxPaints /\ painted' = painted + 1
    BY <1>0, BoundAssumption DEF PaintAndFlush
  <2> QED BY <2>1, <1>0, <1>1 DEF PaintAndFlush, Picture
<1>3. own' \in [Bufs -> BOOLEAN] /\ toAdapter' \in Seq(Keys)
  <2>1. Append(toAdapter, off[b]) \in Seq(Keys)
    BY <1>0, <1>1
  <2> QED BY <2>1, <1>0 DEF PaintAndFlush
<1>4. pix'[off[b]].stamp = painted + 1 /\ \A k \in Keys : k # off[b] => pix'[k] = pix[k]
  BY <1>0, <1>1 DEF PaintAndFlush
<1>5. \A c \in Bufs : own'[c] => own[c] /\ (Attached => c # b)
  BY <1>0 DEF PaintAndFlush
<1>6. CASE Attached
  <2> DEFINE n == Len(toAdapter) + 1
  <2>1. /\ toAdapter' = Append(toAdapter, off[b])
        /\ \A c \in Bufs : c # b => own'[c] = own[c]
    BY <1>0, <1>6 DEF PaintAndFlush
  <2>2. /\ \A i \in DOMAIN toAdapter : i \in DOMAIN toAdapter' /\ toAdapter'[i] = toAdapter[i] /\ i < n
        /\ n \in DOMAIN toAdapter' /\ toAdapter'[n] = off[b]
        /\ \A i \in DOMAIN toAdapter' : i \in DOMAIN toAdapter \/ i = n
    BY <2>1, <1>0, <1>1, Queued
  <2>3. Named'
    BY <1>0, <2>2, <1>1, <1>5 DEF Named, Is, Num
  <2>4. Fresh'
    <3>1. \A j \in DOMAIN toAdapter' : toAdapter'[j] = off[b] \/ \E i \in DOMAIN toAdapter : toAdapter'[j] = toAdapter[i]
      BY <2>2
    <3> QED BY <1>0, <3>1 DEF Fresh, Is, Num
  <2>5. \A c \in Bufs : own'[c] => off[c] # off[b]
    BY <1>0, <1>5, <1>6 DEF Named, Attached
  <2>6. Apart'
    <3>1. \A i, j \in DOMAIN toAdapter' : i # j => toAdapter'[i] # toAdapter'[j]
      BY <1>0, <2>2 DEF Apart
    <3>2. \A j \in DOMAIN toAdapter' : toAdapter'[j] = off[b] \/ \E i \in DOMAIN toAdapter : toAdapter'[j] = toAdapter[i]
      BY <2>2
    <3>3. \A c \in Bufs : own'[c] =>
            /\ off[c] # shown
            /\ \A i \in DOMAIN toAdapter' : toAdapter'[i] # off[c]
            /\ \A i \in DOMAIN toServer : Is(i, "return") => toServer[i].key # off[c]
      BY <1>0, <3>2, <2>5, <1>5 DEF Apart
    <3>4. off[b] # shown /\ \A i \in DOMAIN toServer : Is(i, "return") => toServer[i].key # off[b]
      BY <1>0 DEF Apart
    <3> QED BY <1>0, <3>1, <3>2, <3>3, <3>4 DEF Apart, Is
  <2>7. Somewhere'
    <3> SUFFICES ASSUME NEW c \in Bufs, off[c] \in known, Attached
                 PROVE  \/ own'[c] \/ shown = off[c]
                        \/ \E i \in DOMAIN toAdapter' : toAdapter'[i] = off[c]
                        \/ \E i \in DOMAIN toServer : Is(i, "return") /\ toServer[i].key = off[c]
      BY <1>0 DEF Somewhere, Attached, Is
    <3>1. CASE c = b
      BY <3>1, <2>2
    <3>2. CASE c # b
      BY <3>2, <1>0, <2>1, <2>2 DEF Somewhere
    <3> QED BY <3>1, <3>2
  <2>8. Stamped'
    <3>1. \A k \in Keys : pix'[k].stamp <= painted'
      BY <1>0, <1>4, <1>2 DEF Stamped, PaintAndFlush, Picture
    <3>2. \A i \in DOMAIN toAdapter : /\ toAdapter[i] \in Keys
                                      /\ pix'[toAdapter[i]] = pix[toAdapter[i]]
                                      /\ pix[toAdapter[i]].stamp < painted + 1
      BY <1>0, <1>4 DEF Stamped, Apart, Picture
    <3>3. shown # NoKey => pix'[shown] = pix[shown] /\ pix[shown].stamp < painted + 1
      BY <1>0, <1>4 DEF Stamped, Apart, Picture
    <3>4. ASSUME NEW i \in DOMAIN toAdapter', NEW j \in DOMAIN toAdapter', i < j
          PROVE  i \in DOMAIN toAdapter /\ (j \in DOMAIN toAdapter \/ j = n)
      <4>1. n \in Nat /\ i \in Nat /\ j \in Nat
        BY <1>0, <1>3
      <4> QED BY <4>1, <2>2, <3>4
    <3>5. \A i, j \in DOMAIN toAdapter' : i < j => pix'[toAdapter'[i]].stamp < pix'[toAdapter'[j]].stamp
      BY <1>0, <3>2, <3>4, <2>2, <1>4 DEF Stamped
    <3>6. shown # NoKey => \A i \in DOMAIN toAdapter' : pix'[shown].stamp < pix'[toAdapter'[i]].stamp
      BY <1>0, <3>2, <3>3, <2>2, <1>4 DEF Stamped
    <3> QED BY <1>0, <3>1, <3>2, <3>3, <3>5, <3>6 DEF Stamped
  <2> QED BY <2>3, <2>4, <2>6, <2>7, <2>8, <1>2, <1>3
<1>7. CASE ~Attached
  <2>1. toAdapter' = toAdapter /\ own' = own
    BY <1>0, <1>7 DEF PaintAndFlush
  <2>2. Named' /\ Fresh' /\ Apart' /\ Somewhere'
    BY <1>0, <2>1, <1>7 DEF Named, Fresh, Apart, Somewhere, Is, Num, Attached
  <2>3. \A k \in Keys : pix'[k].stamp <= painted'
    BY <1>0, <1>4, <1>2 DEF Stamped, PaintAndFlush, Picture
  <2>4. Stamped'
    BY <1>0, <2>1, <2>3, <1>4 DEF Stamped, Apart
  <2> QED BY <2>1, <2>2, <2>4, <1>2, <1>3
<1> QED BY <1>6, <1>7

(* What a call carries.                                                     *)
LEMMA CallParts ==
  /\ \A c \in Call : /\ c.op = "attach" => c.keys \in [Bufs -> Keys]
                     /\ c.op = "return" => c.key \in Keys
  /\ \A k \in Keys : Return(k) \in Call /\ Return(k).op = "return" /\ Return(k).key = k
  BY DEF Call, Return

(* The page takes a call of the adapter's.                                  *)
LEMMA CallTaken ==
  ASSUME TypeOK, NEW op, Called(op)
  PROVE  /\ toServer' \in Seq(Call)
         /\ 1 \in DOMAIN toServer /\ Head(toServer) = toServer[1] /\ Is(1, op)
         /\ \A i \in DOMAIN toServer' : i + 1 \in DOMAIN toServer /\ i + 1 # 1 /\ toServer'[i] = toServer[i + 1]
         /\ \A i, j \in DOMAIN toServer' : i # j => i + 1 # j + 1
         /\ \A i \in DOMAIN toServer : i = 1 \/ \E j \in DOMAIN toServer' : i = j + 1
<1>1. toServer \in Seq(Call) /\ toServer # <<>> /\ toServer' = Tail(toServer) /\ Head(toServer).op = op
  BY DEF TypeOK, Called
<1>2. toServer' \in Seq(Call)
  BY <1>1, Taken
<1>3. \A i \in DOMAIN toServer' : i \in Int
  BY <1>2
<1> QED BY <1>1, <1>2, <1>3, Taken DEF Is

(* The page gets the two keys of the next attach, or one, or none.          *)
LEMMA Attaching ==
  ASSUME IInv, AttachToBuffer
  PROVE  IInv'
<1>0. TypeOK /\ Named /\ Fresh /\ Apart /\ Somewhere /\ Stamped
  BY DEF IInv
<1>1. /\ Called("attach") /\ alive
      /\ alive' = alive /\ byHistory' = byHistory /\ gen' = gen /\ web' = web /\ goBack' = goBack
      /\ commits' = commits /\ frames' = frames /\ painted' = painted /\ pix' = pix
      /\ shown' = shown /\ known' = known /\ attaches' = attaches /\ toAdapter' = toAdapter
  BY DEF AttachToBuffer, webkit, adapter
<1>2. PICK got \in [Bufs -> BOOLEAN] :
        /\ off' = [b \in Bufs |-> IF got[b] THEN Head(toServer).keys[b] ELSE NoKey]
        /\ own' = got
  BY DEF AttachToBuffer
<1>3. /\ toServer' \in Seq(Call)
      /\ 1 \in DOMAIN toServer /\ Head(toServer) = toServer[1] /\ Is(1, "attach")
      /\ \A i \in DOMAIN toServer' : i + 1 \in DOMAIN toServer /\ i + 1 # 1 /\ toServer'[i] = toServer[i + 1]
      /\ \A i, j \in DOMAIN toServer' : i # j => i + 1 # j + 1
  BY <1>0, <1>1, CallTaken
<1> DEFINE n == Num(1)
<1>4. /\ n \in 1 .. attaches /\ n \in 1 .. MaxAttaches
      /\ \A b \in Bufs : Head(toServer).keys[b] = <<n, b>> /\ <<n, b>> \in Keys
  <2>1. n \in 1 .. attaches /\ \A b \in Bufs : Head(toServer).keys[b] = <<n, b>>
    BY <1>0, <1>3 DEF Named
  <2>2. n \in 1 .. MaxAttaches
    BY <2>1, <1>0, BoundAssumption DEF TypeOK
  <2> QED BY <2>1, <2>2 DEF Keys
<1>5. \A b \in Bufs : /\ own'[b] = got[b]
                      /\ got[b] => off'[b] = <<n, b>> /\ off'[b][1] = n /\ off'[b][2] = b /\ off'[b] # NoKey
                      /\ ~got[b] => off'[b] = NoKey /\ off'[b][1] = 0
  <2>1. \A b \in Bufs : /\ own'[b] = got[b]
                        /\ off'[b] = IF got[b] THEN <<n, b>> ELSE NoKey
    BY <1>2, <1>4
  <2>2. n # 0 /\ NoKey[1] = 0
    BY <1>4 DEF NoKey
  <2>3. \A b \in Bufs : <<n, b>>[1] = n /\ <<n, b>>[2] = b
    OBVIOUS
  <2>4. \A b \in Bufs : <<n, b>> # NoKey
    BY <2>2, <2>3
  <2>5. ASSUME NEW b \in Bufs
        PROVE  /\ got[b] => off'[b] = <<n, b>> /\ off'[b][1] = n /\ off'[b][2] = b /\ off'[b] # NoKey
               /\ ~got[b] => off'[b] = NoKey /\ off'[b][1] = 0
    <3>1. <<n, b>>[1] = n /\ <<n, b>>[2] = b /\ <<n, b>> # NoKey
      BY ONLY <2>3, <2>4, b \in Bufs
    <3>2. CASE got[b]
      <4>1. off'[b] = <<n, b>>
        BY ONLY <2>1, <3>2, b \in Bufs
      <4> QED BY ONLY <3>1, <3>2, <4>1
    <3>3. CASE ~got[b]
      <4>1. off'[b] = NoKey
        BY ONLY <2>1, <3>3, b \in Bufs
      <4> QED BY ONLY <2>2, <3>3, <4>1
    <3> QED BY ONLY <3>2, <3>3
  <2> QED BY ONLY <2>1, <2>5
<1>6. TypeOK'
  <2>1. off' \in [Bufs -> Keys \cup {NoKey}] /\ own' \in [Bufs -> BOOLEAN]
    BY <1>2, <1>4
  <2> QED BY <2>1, <1>0, <1>1, <1>3 DEF TypeOK
<1>7. Named'
  <2>1. \A b \in Bufs : /\ off'[b][1] <= attaches'
                        /\ off'[b] # NoKey => off'[b][2] = b
                        /\ own'[b] => off'[b] # NoKey
    BY <1>0, <1>1, <1>4, <1>5 DEF TypeOK
  <2> QED BY <2>1, <1>0, <1>1, <1>3 DEF Named, Is, Num
<1>8. Fresh'
  <2>1. \A i \in DOMAIN toServer' : Is(i, "attach")' => Num(i)' # n /\ Num(i)' \in 1 .. attaches
    BY <1>0, <1>3 DEF Fresh, Named, Is, Num
  <2>2. \A i \in DOMAIN toServer' : Is(i, "attach")' => \A b \in Bufs : off'[b][1] # Num(i)'
    BY <2>1, <1>5
  <2> QED BY <2>2, <1>0, <1>1, <1>3 DEF Fresh, Is, Num
<1>9. Apart'
  <2>1. \A b \in Bufs : own'[b] =>
          /\ off'[b] # shown
          /\ \A i \in DOMAIN toAdapter : toAdapter[i] # off'[b]
          /\ \A i \in DOMAIN toServer' : Is(i, "return")' => toServer'[i].key # off'[b]
    BY <1>0, <1>3, <1>5 DEF Fresh, Is
  <2> QED BY <2>1, <1>0, <1>1, <1>3 DEF Apart, Is
<1>10. Somewhere'
  BY <1>5 DEF Somewhere, Attached
<1>11. Stamped'
  BY <1>0, <1>1 DEF Stamped
<1> QED BY <1>6, <1>7, <1>8, <1>9, <1>10, <1>11 DEF IInv

(* A key comes back to the page.                                            *)
LEMMA Returning ==
  ASSUME IInv, BufferReturned
  PROVE  IInv'
<1>0. TypeOK /\ Named /\ Fresh /\ Apart /\ Somewhere /\ Stamped
  BY DEF IInv
<1>1. /\ Called("return") /\ alive
      /\ alive' = alive /\ off' = off /\ byHistory' = byHistory /\ gen' = gen /\ web' = web /\ goBack' = goBack
      /\ commits' = commits /\ frames' = frames /\ painted' = painted /\ pix' = pix
      /\ shown' = shown /\ known' = known /\ attaches' = attaches /\ toAdapter' = toAdapter
      /\ own' = [b \in Bufs |-> own[b] \/ off[b] = Head(toServer).key]
  BY DEF BufferReturned, webkit, adapter
<1>2. /\ toServer' \in Seq(Call)
      /\ 1 \in DOMAIN toServer /\ Head(toServer) = toServer[1] /\ Is(1, "return")
      /\ \A i \in DOMAIN toServer' : i + 1 \in DOMAIN toServer /\ i + 1 # 1 /\ toServer'[i] = toServer[i + 1]
      /\ \A i, j \in DOMAIN toServer' : i # j => i + 1 # j + 1
      /\ \A i \in DOMAIN toServer : i = 1 \/ \E j \in DOMAIN toServer' : i = j + 1
  BY <1>0, <1>1, CallTaken
<1> DEFINE k == toServer[1].key
<1>3. k \in Keys /\ k # NoKey
  <2>1. toServer[1] \in Call /\ toServer[1].op = "return"
    BY <1>0, <1>2 DEF TypeOK, Is
  <2> QED BY <2>1, CallParts, KeyParts
<1>4. \A b \in Bufs : own'[b] <=> own[b] \/ off[b] = k
  BY <1>1, <1>2
<1>5. TypeOK'
  <2>1. own' \in [Bufs -> BOOLEAN]
    BY <1>0, <1>1 DEF TypeOK
  <2> QED BY <2>1, <1>0, <1>1, <1>2 DEF TypeOK
<1>6. Named'
  BY <1>0, <1>1, <1>2, <1>3, <1>4 DEF Named, Is, Num
<1>7. Fresh'
  BY <1>0, <1>1, <1>2 DEF Fresh, Is, Num
<1>8. Apart'
  <2>1. k # shown /\ \A i \in DOMAIN toAdapter : toAdapter[i] # k
    BY <1>0, <1>2 DEF Apart
  <2>2. \A i \in DOMAIN toServer' : Is(i, "return")' => toServer'[i].key # k
    BY <1>0, <1>2 DEF Apart, Is
  <2>3. \A b \in Bufs : own'[b] =>
          /\ off[b] # shown
          /\ \A i \in DOMAIN toAdapter : toAdapter[i] # off[b]
          /\ \A i \in DOMAIN toServer' : Is(i, "return")' => toServer'[i].key # off[b]
    BY <2>1, <2>2, <1>0, <1>2, <1>4 DEF Apart, Is
  <2> QED BY <2>3, <1>0, <1>1, <1>2 DEF Apart, Is
<1>9. Somewhere'
  <2> SUFFICES ASSUME NEW b \in Bufs, off[b] \in known, Attached, ~own'[b], shown # off[b],
                      ~\E i \in DOMAIN toAdapter : toAdapter[i] = off[b]
               PROVE  \E i \in DOMAIN toServer' : Is(i, "return")' /\ toServer'[i].key = off[b]
    BY <1>1 DEF Somewhere, Attached
  <2>1. off[b] # k /\ ~own[b]
    BY <1>4
  <2>2. PICK i \in DOMAIN toServer : Is(i, "return") /\ toServer[i].key = off[b]
    BY <2>1, <1>0 DEF Somewhere
  <2>3. i # 1
    BY <2>1, <2>2
  <2> QED BY <2>2, <2>3, <1>2 DEF Is
<1>10. Stamped'
  BY <1>0, <1>1 DEF Stamped
<1> QED BY <1>5, <1>6, <1>7, <1>8, <1>9, <1>10 DEF IInv

(* The page gives both keys up, when the adapter freezes it.                *)
LEMMA Freezing ==
  ASSUME IInv, Freeze
  PROVE  IInv'
<1>0. TypeOK /\ Named /\ Fresh /\ Apart /\ Somewhere /\ Stamped
  BY DEF IInv
<1>1. /\ Called("freeze") /\ alive
      /\ alive' = alive /\ byHistory' = byHistory /\ gen' = gen /\ web' = web /\ goBack' = goBack
      /\ commits' = commits /\ frames' = frames /\ painted' = painted /\ pix' = pix
      /\ shown' = shown /\ known' = known /\ attaches' = attaches /\ toAdapter' = toAdapter
      /\ off' = [b \in Bufs |-> NoKey] /\ own' = [b \in Bufs |-> FALSE]
  BY DEF Freeze, webkit, adapter
<1>2. /\ toServer' \in Seq(Call)
      /\ \A i \in DOMAIN toServer' : i + 1 \in DOMAIN toServer /\ i + 1 # 1 /\ toServer'[i] = toServer[i + 1]
      /\ \A i, j \in DOMAIN toServer' : i # j => i + 1 # j + 1
  BY <1>0, <1>1, CallTaken
<1>3. \A b \in Bufs : off'[b] = NoKey /\ ~own'[b] /\ NoKey[1] = 0
  BY <1>1, KeyParts
<1>4. TypeOK'
  BY <1>0, <1>1, <1>2 DEF TypeOK
<1>5. Named'
  <2>1. 0 <= attaches
    BY <1>0 DEF TypeOK
  <2> QED BY <2>1, <1>0, <1>1, <1>2, <1>3 DEF Named, Is, Num
<1>6. Fresh'
  <2>1. \A i \in DOMAIN toServer' : Is(i, "attach")' => Num(i)' # 0
    BY <1>0, <1>2 DEF Named, Is, Num
  <2> QED BY <2>1, <1>0, <1>1, <1>2, <1>3 DEF Fresh, Is, Num
<1>7. Apart'
  BY <1>0, <1>1, <1>2, <1>3 DEF Apart, Is
<1>8. Somewhere'
  BY <1>3 DEF Somewhere, Attached, Bufs
<1>9. Stamped'
  BY <1>0, <1>1 DEF Stamped
<1> QED BY <1>4, <1>5, <1>6, <1>7, <1>8, <1>9 DEF IInv

(* The page goes, and what was on its way to it.                            *)
LEMMA Destroying ==
  ASSUME IInv, Destroy
  PROVE  IInv'
<1>0. TypeOK /\ Named /\ Fresh /\ Apart /\ Somewhere /\ Stamped
  BY DEF IInv
<1>1. /\ alive' = FALSE
      /\ byHistory' = byHistory /\ gen' = gen /\ web' = web /\ goBack' = goBack
      /\ commits' = <<>> /\ frames' = frames /\ painted' = painted /\ pix' = pix
      /\ shown' = shown /\ known' = known /\ attaches' = attaches /\ toAdapter' = toAdapter
      /\ toServer' = <<>>
      /\ off' = [b \in Bufs |-> NoKey] /\ own' = [b \in Bufs |-> FALSE]
  BY DEF Destroy, adapter
<1>2. \A b \in Bufs : off'[b] = NoKey /\ ~own'[b] /\ NoKey[1] = 0
  BY <1>1, KeyParts
<1>3. TypeOK'
  <2>1. off' \in [Bufs -> Keys \cup {NoKey}] /\ own' \in [Bufs -> BOOLEAN]
    BY <1>1
  <2>2. commits' \in Seq([page : Pages, way : Ways]) /\ toServer' \in Seq(Call)
    BY <1>1
  <2> QED BY <2>1, <2>2, <1>0, <1>1 DEF TypeOK
<1>4. Named'
  <2>1. 0 <= attaches
    BY <1>0 DEF TypeOK
  <2> QED BY <2>1, <1>0, <1>1, <1>2 DEF Named, Is, Num
<1>5. Fresh' /\ Apart'
  BY <1>0, <1>1, <1>2 DEF Fresh, Apart, Is, Num
<1>6. Somewhere'
  BY <1>2 DEF Somewhere, Attached, Bufs
<1>7. Stamped'
  BY <1>0, <1>1 DEF Stamped
<1> QED BY <1>3, <1>4, <1>5, <1>6, <1>7 DEF IInv

(* The adapter makes a call: a page that is gone gets none.                 *)
LEMMA Sent ==
  ASSUME TypeOK, NEW c \in Call, Send(c)
  PROVE  /\ toServer' \in Seq(Call)
         /\ ~alive => toServer' = toServer
         /\ \A i \in DOMAIN toServer : i \in DOMAIN toServer' /\ toServer'[i] = toServer[i]
         /\ \A i \in DOMAIN toServer' : i \in DOMAIN toServer \/ (alive /\ i = Len(toServer) + 1 /\ toServer'[i] = c)
         /\ alive => \E i \in DOMAIN toServer' : toServer'[i] = c
<1>0. toServer \in Seq(Call)
  BY DEF TypeOK
<1>1. CASE ~alive
  BY <1>0, <1>1 DEF Send
<1>2. CASE alive
  <2>1. toServer' = Append(toServer, c)
    BY <1>2 DEF Send
  <2> QED BY <1>0, <1>2, <2>1, Queued
<1> QED BY <1>1, <1>2

(* The adapter attaches two new keys.                                       *)
LEMMA AttachSent ==
  ASSUME IInv, Attach
  PROVE  IInv'
<1>0. TypeOK /\ Named /\ Fresh /\ Apart /\ Somewhere /\ Stamped
  BY DEF IInv
<1> DEFINE n == attaches + 1
           c == [op |-> "attach", keys |-> [b \in Bufs |-> <<n, b>>]]
<1>1. /\ known = {} /\ attaches < MaxAttaches /\ attaches' = n /\ known' = {n} \X Bufs /\ Send(c)
      /\ alive' = alive /\ off' = off /\ own' = own /\ byHistory' = byHistory /\ gen' = gen
      /\ web' = web /\ goBack' = goBack /\ commits' = commits /\ frames' = frames
      /\ painted' = painted /\ pix' = pix /\ shown' = shown /\ toAdapter' = toAdapter
  BY DEF Attach, page, webkit
<1>2. n \in 1 .. MaxAttaches /\ attaches \in Nat
  BY <1>0, <1>1, BoundAssumption DEF TypeOK
<1>3. /\ c \in Call /\ c.op = "attach" /\ c.op # "return"
      /\ c.keys[0][1] = n /\ \A b \in Bufs : c.keys[b] = <<n, b>>
  <2>1. \A b \in Bufs : <<n, b>> \in Keys
    BY <1>2 DEF Keys
  <2>2. c.keys = [b \in Bufs |-> <<n, b>>] /\ c.op = "attach"
    OBVIOUS
  <2>3. c \in [op : {"attach"}, keys : [Bufs -> Keys]]
    BY <2>1
  <2> QED BY <2>2, <2>3 DEF Call, Bufs
<1>4. /\ toServer' \in Seq(Call)
      /\ ~alive => toServer' = toServer
      /\ \A i \in DOMAIN toServer : i \in DOMAIN toServer' /\ toServer'[i] = toServer[i]
      /\ \A i \in DOMAIN toServer' : i \in DOMAIN toServer \/ (alive /\ i = Len(toServer) + 1 /\ toServer'[i] = c)
  BY <1>0, <1>1, <1>3, Sent
<1>5. TypeOK'
  <2>1. {n} \X Bufs \subseteq Keys
    BY <1>2 DEF Keys
  <2>2. attaches' \in 0 .. MaxAttaches
    BY <1>1, <1>2
  <2> QED BY <2>1, <2>2, <1>0, <1>1, <1>4 DEF TypeOK
<1>6. shown = NoKey /\ shown[1] = 0 /\ n # 0
  BY <1>0, <1>1, <1>2, KeyParts DEF Named
<1>7. \A x : x <= attaches /\ x \in Nat => x <= n /\ x # n
  BY <1>2
<1>8. /\ \A b \in Bufs : off[b][1] \in Nat
      /\ \A i \in DOMAIN toAdapter : toAdapter[i][1] \in Nat
      /\ \A i \in DOMAIN toServer : Is(i, "return") => toServer[i].key[1] \in Nat
  <2>1. \A k \in Keys \cup {NoKey} : k[1] \in Nat
    BY KeyParts
  <2>2. \A i \in DOMAIN toServer : Is(i, "return") => toServer[i].key \in Keys
    BY <1>0, CallParts DEF TypeOK, Is
  <2> QED BY <2>1, <2>2, <1>0 DEF TypeOK
<1>9. Named'
  <2>1. \A i \in DOMAIN toServer' : /\ Is(i, "return")' => toServer'[i].key[1] <= n
                                    /\ Is(i, "attach")' => /\ Num(i)' \in 1 .. n
                                                           /\ \A b \in Bufs : toServer'[i].keys[b] = <<Num(i)', b>>
    <3> SUFFICES ASSUME NEW i \in DOMAIN toServer'
                 PROVE  /\ Is(i, "return")' => toServer'[i].key[1] <= n
                        /\ Is(i, "attach")' => /\ Num(i)' \in 1 .. n
                                               /\ \A b \in Bufs : toServer'[i].keys[b] = <<Num(i)', b>>
      OBVIOUS
    <3>1. CASE i \in DOMAIN toServer
      <4>1. toServer'[i] = toServer[i]
        BY <3>1, <1>4
      <4>2. Is(i, "return") => toServer[i].key[1] <= n
        BY <3>1, <1>0, <1>7, <1>8 DEF Named
      <4>3. Is(i, "attach") => Num(i) \in 1 .. n /\ \A b \in Bufs : toServer[i].keys[b] = <<Num(i), b>>
        BY <3>1, <1>0, <1>2 DEF Named
      <4> QED BY <4>1, <4>2, <4>3 DEF Is, Num
    <3>2. CASE toServer'[i] = c
      <4> HIDE DEF c
      <4>1. toServer'[i].op # "return" /\ toServer'[i].keys[0][1] = n
        BY <3>2, <1>3
      <4>2. \A b \in Bufs : toServer'[i].keys[b] = <<n, b>>
        BY <3>2, <1>3
      <4>3. n \in 1 .. n
        BY <1>2
      <4> QED BY <4>1, <4>2, <4>3 DEF Is, Num
    <3> QED BY <3>1, <3>2, <1>4
  <2> QED BY <2>1, <1>0, <1>1, <1>4, <1>6, <1>7, <1>8 DEF Named, Is, Num
<1>10. Fresh'
  <2>1. /\ \A b \in Bufs : off[b][1] # n
        /\ \A i \in DOMAIN toAdapter : toAdapter[i][1] # n
        /\ \A i \in DOMAIN toServer : Is(i, "return") => toServer[i].key[1] # n
        /\ \A i \in DOMAIN toServer : Is(i, "attach") => Num(i) # n
    BY <1>0, <1>2, <1>7, <1>8 DEF Named
  <2> SUFFICES ASSUME NEW i \in DOMAIN toServer', Is(i, "attach")'
               PROVE  /\ \A b \in Bufs : off[b][1] # Num(i)'
                      /\ shown[1] # Num(i)'
                      /\ \A j \in DOMAIN toAdapter : toAdapter[j][1] # Num(i)'
                      /\ \A j \in DOMAIN toServer' : /\ Is(j, "return")' => toServer'[j].key[1] # Num(i)'
                                                     /\ Is(j, "attach")' /\ j # i => Num(j)' # Num(i)'
    BY <1>1 DEF Fresh, Is, Num
  <2>2. \A j \in DOMAIN toServer' :
          \/ j \in DOMAIN toServer /\ toServer'[j] = toServer[j]
          \/ j = Len(toServer) + 1 /\ toServer'[j] = c
    BY <1>4
  <2>3. CASE i \in DOMAIN toServer /\ toServer'[i] = toServer[i]
    BY <2>1, <2>2, <2>3, <1>0, <1>3 DEF Fresh, Is, Num
  <2>4. CASE i = Len(toServer) + 1 /\ toServer'[i] = c
    BY <2>1, <2>2, <2>4, <1>3, <1>6 DEF Is, Num
  <2> QED BY <2>2, <2>3, <2>4
<1>11. Apart'
  BY <1>0, <1>1, <1>3, <1>4 DEF Apart, Is
<1>12. Somewhere'
  <2>1. \A b \in Bufs : off'[b] \notin known'
    BY <1>0, <1>1, <1>7, <1>8 DEF Named
  <2> QED BY <2>1 DEF Somewhere
<1>13. Stamped'
  BY <1>0, <1>1 DEF Stamped
<1> QED BY <1>5, <1>9, <1>10, <1>11, <1>12, <1>13 DEF IInv

(* The adapter takes a painted key: one it has attached goes on screen and  *)
(* the one before goes back; one it has not is dropped.                     *)
LEMMA Showing ==
  ASSUME IInv, Show
  PROVE  IInv'
<1>0. TypeOK /\ Named /\ Fresh /\ Apart /\ Somewhere /\ Stamped
  BY DEF IInv
<1> DEFINE k == toAdapter[1]
<1>1. /\ alive' = alive /\ off' = off /\ own' = own /\ byHistory' = byHistory /\ gen' = gen
      /\ web' = web /\ goBack' = goBack /\ commits' = commits /\ frames' = frames
      /\ painted' = painted /\ pix' = pix /\ known' = known /\ attaches' = attaches
  BY DEF Show, page, webkit
<1>2. /\ toAdapter' \in Seq(Keys) /\ k \in Keys /\ 1 \in DOMAIN toAdapter
      /\ \A i \in DOMAIN toAdapter' : i + 1 \in DOMAIN toAdapter /\ i + 1 # 1 /\ toAdapter'[i] = toAdapter[i + 1]
      /\ \A i \in DOMAIN toAdapter : i = 1 \/ \E j \in DOMAIN toAdapter' : i = j + 1
      /\ Head(toAdapter) = k
  <2>1. toAdapter \in Seq(Keys) /\ toAdapter # <<>> /\ toAdapter' = Tail(toAdapter)
    BY <1>0 DEF TypeOK, Show
  <2> QED BY <2>1, Taken
<1>3. \A i \in DOMAIN toAdapter' : i \in Int /\ i >= 1
  BY <1>2
<1>4. \A i, j \in DOMAIN toAdapter' : /\ i # j => i + 1 # j + 1
                                      /\ i < j => i + 1 < j + 1
  BY <1>3
<1>5. \A i \in DOMAIN toAdapter' : toAdapter'[i] # k /\ pix[k].stamp < pix[toAdapter'[i]].stamp
  <2>1. \A i \in DOMAIN toAdapter' : 1 < i + 1
    BY <1>3
  <2> QED BY <2>1, <1>0, <1>2 DEF Apart, Stamped
<1>6. k # NoKey
  BY <1>2, KeyParts
<1>7. ASSUME k \notin known, toServer' = toServer PROVE IInv'
  <2>1. shown' = shown /\ toServer' = toServer
    BY <1>2, <1>7 DEF Show
  <2>2. TypeOK'
    BY <1>0, <1>1, <1>2, <2>1 DEF TypeOK
  <2>3. Named' /\ Fresh'
    BY <1>0, <1>1, <1>2, <2>1 DEF Named, Fresh, Is, Num
  <2>4. Apart'
    BY <1>0, <1>1, <1>2, <1>4, <2>1 DEF Apart, Is
  <2>5. Somewhere'
    <3> SUFFICES ASSUME NEW b \in Bufs, off[b] \in known, Attached, ~own[b], shown # off[b],
                        ~\E i \in DOMAIN toServer : Is(i, "return") /\ toServer[i].key = off[b]
                 PROVE  \E i \in DOMAIN toAdapter' : toAdapter'[i] = off[b]
      BY <1>1, <2>1 DEF Somewhere, Attached, Is
    <3>1. PICK i \in DOMAIN toAdapter : toAdapter[i] = off[b]
      BY <1>0 DEF Somewhere
    <3> QED BY <3>1, <1>2, <1>7
  <2>6. Stamped'
    BY <1>0, <1>1, <1>2, <1>4, <2>1 DEF Stamped
  <2> QED BY <2>2, <2>3, <2>4, <2>5, <2>6 DEF IInv
<1>8. CASE k \in known
  <2> DEFINE c == Return(shown)
  <2>1. shown' = k /\ k # shown
    BY <1>2, <1>8, <1>0 DEF Show, Apart
  <2>2. /\ toServer' \in Seq(Call)
        /\ ~alive => toServer' = toServer
        /\ \A i \in DOMAIN toServer : i \in DOMAIN toServer' /\ toServer'[i] = toServer[i]
        /\ \A i \in DOMAIN toServer' :
             \/ i \in DOMAIN toServer /\ toServer'[i] = toServer[i]
             \/ i = Len(toServer) + 1 /\ toServer'[i] = c /\ shown # NoKey
        /\ alive /\ shown # NoKey => \E i \in DOMAIN toServer' : toServer'[i] = c
    <3>1. CASE shown = NoKey
      <4>1. toServer' = toServer
        BY <3>1, <1>2, <1>8 DEF Show
      <4> QED BY <4>1, <3>1, <1>0 DEF TypeOK
    <3>2. CASE shown # NoKey
      <4>1. Send(c)
        BY <3>2, <1>2, <1>8 DEF Show, Return
      <4>2. c \in Call
        BY <3>2, <1>0, CallParts DEF TypeOK
      <4> HIDE DEF c
      <4> QED BY <4>1, <4>2, <1>0, <3>2, Sent
    <3> QED BY <3>1, <3>2
  <2>3. c.op = "return" /\ c.op # "attach" /\ c.key = shown
    BY DEF Return
  <2> HIDE DEF c
  <2>4. TypeOK'
    BY <1>0, <1>1, <1>2, <2>1, <2>2 DEF TypeOK
  <2>5. shown # NoKey => shown \in Keys /\ shown[1] <= attaches
    <3>1. \A x \in Bufs : <<attaches, x>>[1] = attaches
      OBVIOUS
    <3>2. shown # NoKey => shown \in Keys /\ shown \in {attaches} \X Bufs
      BY <1>0 DEF Named, TypeOK
    <3> QED BY <3>1, <3>2, <1>0 DEF TypeOK
  <2>6. Named'
    <3>1. \A i \in DOMAIN toServer' : /\ Is(i, "return")' => toServer'[i].key[1] <= attaches
                                      /\ Is(i, "attach")' => /\ Num(i)' \in 1 .. attaches
                                                             /\ \A b \in Bufs : toServer'[i].keys[b] = <<Num(i)', b>>
      BY <1>0, <2>2, <2>3, <2>5 DEF Named, Is, Num
    <3> QED BY <3>1, <1>0, <1>1, <1>2, <1>8, <2>1, <2>2 DEF Named, Is, Num
  <2>7. Fresh'
    <3> SUFFICES ASSUME NEW i \in DOMAIN toServer', Is(i, "attach")'
                 PROVE  /\ \A b \in Bufs : off[b][1] # Num(i)'
                        /\ k[1] # Num(i)'
                        /\ \A j \in DOMAIN toAdapter' : toAdapter'[j][1] # Num(i)'
                        /\ \A j \in DOMAIN toServer' : /\ Is(j, "return")' => toServer'[j].key[1] # Num(i)'
                                                       /\ Is(j, "attach")' /\ j # i => Num(j)' # Num(i)'
      BY <1>1, <2>1 DEF Fresh, Is, Num
    <3>1. i \in DOMAIN toServer /\ toServer'[i] = toServer[i] /\ Is(i, "attach")
      BY <2>2, <2>3 DEF Is
    <3>2. shown[1] # Num(i) /\ Num(i)' = Num(i)
      BY <3>1, <1>0 DEF Fresh, Num
    <3> QED BY <3>1, <3>2, <1>0, <1>2, <2>2, <2>3 DEF Fresh, Is, Num
  <2>8. Apart'
    <3>1. shown # NoKey =>
            /\ \A i \in DOMAIN toServer : Is(i, "return") => toServer[i].key # shown
            /\ \A i \in DOMAIN toAdapter' : toAdapter'[i] # shown
            /\ \A b \in Bufs : own[b] => off[b] # shown
      BY <1>0, <1>2 DEF Apart
    <3>2. \A i, j \in DOMAIN toServer' :
            Is(i, "return")' /\ Is(j, "return")' /\ i # j => toServer'[i].key # toServer'[j].key
      BY <3>1, <1>0, <2>2, <2>3 DEF Apart, Is
    <3>3. \A i \in DOMAIN toServer' : Is(i, "return")' =>
            /\ toServer'[i].key # k
            /\ \A j \in DOMAIN toAdapter' : toServer'[i].key # toAdapter'[j]
            /\ \A b \in Bufs : own[b] => toServer'[i].key # off[b]
      BY <3>1, <1>0, <1>2, <2>1, <2>2, <2>3 DEF Apart, Is
    <3>4. \A b \in Bufs : own[b] => off[b] # k /\ \A i \in DOMAIN toAdapter' : toAdapter'[i] # off[b]
      BY <1>0, <1>2 DEF Apart
    <3>5. \A i, j \in DOMAIN toAdapter' : i # j => toAdapter'[i] # toAdapter'[j]
      BY <1>0, <1>2, <1>4 DEF Apart
    <3> QED BY <3>2, <3>3, <3>4, <3>5, <1>1, <1>5, <2>1 DEF Apart, Is
  <2>9. Somewhere'
    <3> SUFFICES ASSUME NEW b \in Bufs, off[b] \in known, Attached, ~own[b], k # off[b],
                        ~\E i \in DOMAIN toAdapter' : toAdapter'[i] = off[b]
                 PROVE  \E i \in DOMAIN toServer' : Is(i, "return")' /\ toServer'[i].key = off[b]
      BY <1>1, <2>1 DEF Somewhere, Attached
    <3>1. \A i \in DOMAIN toAdapter : toAdapter[i] # off[b]
      BY <1>2
    <3>2. CASE shown = off[b]
      <4>1. alive /\ shown # NoKey
        BY <3>2, <1>0 DEF Named, Attached
      <4> QED BY <4>1, <3>2, <2>2, <2>3 DEF Is
    <3>3. CASE shown # off[b]
      BY <3>1, <3>3, <1>0, <2>2 DEF Somewhere, Is
    <3> QED BY <3>2, <3>3
  <2>10. Stamped'
    BY <1>0, <1>1, <1>2, <1>4, <1>5, <2>1 DEF Stamped
  <2> QED BY <2>4, <2>6, <2>7, <2>8, <2>9, <2>10 DEF IInv
<1>9. ASSUME k \notin known, Send(Return(k)) PROVE IInv'
  <2> DEFINE c == Return(k)
  <2>1. shown' = shown
    BY <1>2, <1>9 DEF Show
  <2>2. /\ toServer' \in Seq(Call)
        /\ ~alive => toServer' = toServer
        /\ \A i \in DOMAIN toServer : i \in DOMAIN toServer' /\ toServer'[i] = toServer[i]
        /\ \A i \in DOMAIN toServer' :
             \/ i \in DOMAIN toServer /\ toServer'[i] = toServer[i]
             \/ i = Len(toServer) + 1 /\ toServer'[i] = c
        /\ alive => \E i \in DOMAIN toServer' : toServer'[i] = c
    <3>1. Send(c)
      BY <1>9
    <3>2. c \in Call
      BY <1>2, CallParts
    <3> HIDE DEF c
    <3> QED BY <3>1, <3>2, <1>0, Sent
  <2>3. c.op = "return" /\ c.op # "attach" /\ c.key = k
    BY DEF Return
  <2> HIDE DEF c
  <2>4. TypeOK'
    BY <1>0, <1>1, <1>2, <2>1, <2>2 DEF TypeOK
  <2>5. k[1] <= attaches
    BY <1>0, <1>2 DEF Named
  <2>6. Named'
    <3>1. \A i \in DOMAIN toServer' : /\ Is(i, "return")' => toServer'[i].key[1] <= attaches
                                      /\ Is(i, "attach")' => /\ Num(i)' \in 1 .. attaches
                                                             /\ \A b \in Bufs : toServer'[i].keys[b] = <<Num(i)', b>>
      BY <1>0, <2>2, <2>3, <2>5 DEF Named, Is, Num
    <3> QED BY <3>1, <1>0, <1>1, <1>2, <2>1, <2>2 DEF Named, Is, Num
  <2>7. Fresh'
    <3> SUFFICES ASSUME NEW i \in DOMAIN toServer', Is(i, "attach")'
                 PROVE  /\ \A b \in Bufs : off[b][1] # Num(i)'
                        /\ shown[1] # Num(i)'
                        /\ \A j \in DOMAIN toAdapter' : toAdapter'[j][1] # Num(i)'
                        /\ \A j \in DOMAIN toServer' : /\ Is(j, "return")' => toServer'[j].key[1] # Num(i)'
                                                       /\ Is(j, "attach")' /\ j # i => Num(j)' # Num(i)'
      BY <1>1, <2>1 DEF Fresh, Is, Num
    <3>1. i \in DOMAIN toServer /\ toServer'[i] = toServer[i] /\ Is(i, "attach")
      BY <2>2, <2>3 DEF Is
    <3>2. k[1] # Num(i) /\ Num(i)' = Num(i)
      BY <3>1, <1>0, <1>2 DEF Fresh, Num
    <3> QED BY <3>1, <3>2, <1>0, <1>2, <2>2, <2>3 DEF Fresh, Is, Num
  <2>8. Apart'
    <3>1. /\ \A i \in DOMAIN toServer : Is(i, "return") => toServer[i].key # k
          /\ k # shown
          /\ \A b \in Bufs : own[b] => off[b] # k
      BY <1>0, <1>2 DEF Apart
    <3>2. \A i, j \in DOMAIN toServer' :
            Is(i, "return")' /\ Is(j, "return")' /\ i # j => toServer'[i].key # toServer'[j].key
      BY <3>1, <1>0, <2>2, <2>3 DEF Apart, Is
    <3>3. \A i \in DOMAIN toServer' : Is(i, "return")' =>
            /\ toServer'[i].key # shown
            /\ \A j \in DOMAIN toAdapter' : toServer'[i].key # toAdapter'[j]
            /\ \A b \in Bufs : own[b] => toServer'[i].key # off[b]
      BY <3>1, <1>0, <1>2, <1>5, <2>2, <2>3 DEF Apart, Is
    <3>4. /\ \A b \in Bufs : own[b] => off[b] # shown /\ \A i \in DOMAIN toAdapter' : toAdapter'[i] # off[b]
          /\ \A i \in DOMAIN toAdapter' : toAdapter'[i] # shown
      BY <1>0, <1>2 DEF Apart
    <3>5. \A i, j \in DOMAIN toAdapter' : i # j => toAdapter'[i] # toAdapter'[j]
      BY <1>0, <1>2, <1>4 DEF Apart
    <3> QED BY <3>2, <3>3, <3>4, <3>5, <1>1, <2>1 DEF Apart, Is
  <2>9. Somewhere'
    <3> SUFFICES ASSUME NEW b \in Bufs, off[b] \in known, Attached, ~own[b], shown # off[b],
                        ~\E i \in DOMAIN toAdapter' : toAdapter'[i] = off[b]
                 PROVE  \E i \in DOMAIN toServer' : Is(i, "return")' /\ toServer'[i].key = off[b]
      BY <1>1, <2>1 DEF Somewhere, Attached
    <3>1. \A i \in DOMAIN toAdapter : toAdapter[i] # off[b]
      BY <1>2, <1>9
    <3> QED BY <3>1, <1>0, <2>2 DEF Somewhere, Is
  <2>10. Stamped'
    BY <1>0, <1>1, <1>2, <1>4, <2>1 DEF Stamped
  <2> QED BY <2>4, <2>6, <2>7, <2>8, <2>9, <2>10 DEF IInv
<1>10. k \in known \/ (k \notin known /\ (toServer' = toServer \/ Send(Return(k))))
  BY <1>2 DEF Show, Return
<1> QED BY <1>7, <1>8, <1>9, <1>10

(* The adapter gives both keys up.                                          *)
LEMMA GoingBack ==
  ASSUME IInv, Background
  PROVE  IInv'
<1>0. TypeOK /\ Named /\ Fresh /\ Apart /\ Somewhere /\ Stamped
  BY DEF IInv
<1> DEFINE c == [op |-> "freeze"]
<1>1. /\ alive' = alive /\ off' = off /\ own' = own /\ byHistory' = byHistory /\ gen' = gen
      /\ web' = web /\ goBack' = goBack /\ commits' = commits /\ frames' = frames
      /\ painted' = painted /\ pix' = pix /\ attaches' = attaches /\ toAdapter' = toAdapter
      /\ known' = {} /\ shown' = NoKey /\ Send(c)
  BY DEF Background, page, webkit
<1>2. c \in Call /\ c.op # "attach" /\ c.op # "return"
  BY DEF Call
<1> HIDE DEF c
<1>3. /\ toServer' \in Seq(Call)
      /\ ~alive => toServer' = toServer
      /\ \A i \in DOMAIN toServer' : \/ i \in DOMAIN toServer /\ toServer'[i] = toServer[i]
                                     \/ ~Is(i, "attach")' /\ ~Is(i, "return")'
  BY <1>0, <1>1, <1>2, Sent DEF Is
<1>4. TypeOK'
  BY <1>0, <1>1, <1>3 DEF TypeOK
<1>5. Named'
  BY <1>0, <1>1, <1>3 DEF Named, Is, Num
<1>6. Fresh'
  <2>1. \A i \in DOMAIN toServer' : Is(i, "attach")' => Num(i)' # NoKey[1]
    BY <1>0, <1>3, KeyParts DEF Named, Is, Num
  <2> QED BY <2>1, <1>0, <1>1, <1>3 DEF Fresh, Is, Num
<1>7. Apart'
  <2>1. /\ \A i \in DOMAIN toAdapter : toAdapter[i] # NoKey
        /\ \A i \in DOMAIN toServer : Is(i, "return") => toServer[i].key # NoKey
        /\ \A b \in Bufs : own[b] => off[b] # NoKey
    BY <1>0, KeyParts, CallParts DEF TypeOK, Named, Is
  <2> QED BY <2>1, <1>0, <1>1, <1>3 DEF Apart, Is
<1>8. Somewhere'
  BY <1>1 DEF Somewhere
<1>9. Stamped'
  BY <1>0, <1>1 DEF Stamped
<1> QED BY <1>4, <1>5, <1>6, <1>7, <1>8, <1>9 DEF IInv

(* The signal of a commit, delivered.                                       *)
LEMMA CommitTaken ==
  ASSUME TypeOK, Committed
  PROVE  /\ commits' \in Seq([page : Pages, way : Ways]) /\ gen' \in [page : Pages, way : Ways]
         /\ Head(commits).page \in Pages /\ byHistory' \in BOOLEAN
<1>1. commits \in Seq([page : Pages, way : Ways]) /\ commits # <<>>
  BY DEF TypeOK, Committed
<1>2. Head(commits) \in [page : Pages, way : Ways] /\ Tail(commits) \in Seq([page : Pages, way : Ways])
  BY <1>1, Taken
<1> QED BY <1>2 DEF Committed

(* The page takes a frame.                                                  *)
LEMMA FrameTaken ==
  ASSUME TypeOK, frames # <<>>
  PROVE  Head(frames) \in [of : Pages, fits : BOOLEAN] /\ Tail(frames) \in Seq([of : Pages, fits : BOOLEAN])
  BY Taken DEF TypeOK

(* The stuttering step and every action keep the inductive invariant.       *)
LEMMA Inductive == IInv /\ [Next]_vars => IInv'
<1> SUFFICES ASSUME IInv, [Next]_vars
             PROVE  IInv'
  OBVIOUS
<1>0. TypeOK
  BY DEF IInv
<1>1. CASE OnFrameDrop
  <2>1. TypeOK'
    BY <1>0, <1>1, FrameTaken DEF OnFrameDrop, TypeOK, page, adapter
  <2>2. UNCHANGED keys
    BY <1>1 DEF OnFrameDrop, keys, page
  <2> QED BY <2>1, <2>2, Elsewhere
<1>2. CASE OnFramePaint
  <2>1. Head(frames).of \in Pages /\ frames' \in Seq([of : Pages, fits : BOOLEAN])
    BY <1>0, <1>2, FrameTaken DEF OnFramePaint
  <2>2. PICK b \in Bufs : own[b] /\ PaintAndFlush(b, Head(frames).of)
    BY <1>2 DEF OnFramePaint, Free
  <2>3. /\ UNCHANGED <<alive, off, adapter, toServer>>
        /\ byHistory' = byHistory /\ gen' = gen /\ web' = web /\ goBack' = goBack /\ commits' = commits
        /\ alive' = alive /\ off' = off /\ toServer' = toServer
        /\ shown' = shown /\ known' = known /\ attaches' = attaches
    BY <1>2 DEF OnFramePaint, adapter
  <2>4. /\ Named' /\ Fresh' /\ Apart' /\ Somewhere' /\ Stamped'
        /\ painted' \in 0 .. MaxPaints /\ pix' \in [Keys -> Picture]
        /\ own' \in [Bufs -> BOOLEAN] /\ toAdapter' \in Seq(Keys)
    BY <2>1, <2>2, <2>3, Painting
  <2>5. TypeOK'
    BY <1>0, <2>1, <2>3, <2>4 DEF TypeOK
  <2> QED BY <2>4, <2>5 DEF IInv
<1>3. CASE CommitHistory
  <2>1. Committed /\ UNCHANGED <<own, painted, pix, toAdapter>>
    BY <1>3 DEF CommitHistory
  <2>2. TypeOK'
    BY <1>0, <2>1, CommitTaken DEF Committed, TypeOK, adapter
  <2>3. UNCHANGED keys
    BY <2>1 DEF Committed, keys
  <2> QED BY <2>2, <2>3, Elsewhere
<1>4. CASE CommitBlank
  <2>1. Committed
    BY <1>4 DEF CommitBlank
  <2>2. PICK b \in Bufs : own[b] /\ PaintAndFlush(b, Head(commits).page)
    BY <1>4 DEF CommitBlank, Free
  <2>3. /\ UNCHANGED <<alive, off, adapter, toServer>>
        /\ web' = web /\ goBack' = goBack /\ frames' = frames
        /\ alive' = alive /\ off' = off /\ toServer' = toServer
        /\ shown' = shown /\ known' = known /\ attaches' = attaches
    BY <2>1 DEF Committed, adapter
  <2>4. /\ commits' \in Seq([page : Pages, way : Ways]) /\ gen' \in [page : Pages, way : Ways]
        /\ Head(commits).page \in Pages /\ byHistory' \in BOOLEAN
    BY <1>0, <2>1, CommitTaken
  <2>5. /\ Named' /\ Fresh' /\ Apart' /\ Somewhere' /\ Stamped'
        /\ painted' \in 0 .. MaxPaints /\ pix' \in [Keys -> Picture]
        /\ own' \in [Bufs -> BOOLEAN] /\ toAdapter' \in Seq(Keys)
    BY <2>2, <2>3, <2>4, Painting
  <2>6. TypeOK'
    BY <1>0, <2>3, <2>4, <2>5 DEF TypeOK
  <2> QED BY <2>5, <2>6 DEF IInv
<1>5. CASE CommitHeld
  <2>1. Committed /\ UNCHANGED <<own, painted, pix, toAdapter>>
    BY <1>5 DEF CommitHeld
  <2>2. TypeOK'
    BY <1>0, <2>1, CommitTaken DEF Committed, TypeOK, adapter
  <2>3. UNCHANGED keys
    BY <2>1 DEF Committed, keys
  <2> QED BY <2>2, <2>3, Elsewhere
<1>6. CASE PageBackward
  <2>1. TypeOK'
    BY <1>0, <1>6 DEF PageBackward, TypeOK, adapter
  <2>2. UNCHANGED keys
    BY <1>6 DEF PageBackward, keys
  <2> QED BY <2>1, <2>2, Elsewhere
<1>7. CASE AttachToBuffer
  BY <1>7, Attaching
<1>8. CASE BufferReturned
  BY <1>8, Returning
<1>9. CASE Freeze
  BY <1>9, Freezing
<1>10. CASE SetWindowSize
  <2>1. frames' \in Seq([of : Pages, fits : BOOLEAN])
    <3>1. frames \in Seq([of : Pages, fits : BOOLEAN])
      BY <1>0 DEF TypeOK
    <3>2. \A i \in 1 .. Len(frames) : [frames[i] EXCEPT !.fits = FALSE] \in [of : Pages, fits : BOOLEAN]
      <4>1. \A f \in [of : Pages, fits : BOOLEAN] : [f EXCEPT !.fits = FALSE] \in [of : Pages, fits : BOOLEAN]
        OBVIOUS
      <4>2. \A i \in 1 .. Len(frames) : frames[i] \in [of : Pages, fits : BOOLEAN]
        BY <3>1, ElementOfSeq
      <4> QED BY <4>1, <4>2
    <3>3. frames' = [i \in 1 .. Len(frames) |-> [frames[i] EXCEPT !.fits = FALSE]]
      BY <1>10, <3>1 DEF SetWindowSize
    <3> QED BY <3>1, <3>2, <3>3
  <2>2. TypeOK'
    BY <1>0, <1>10, <2>1 DEF SetWindowSize, TypeOK, page, adapter
  <2>3. UNCHANGED keys
    BY <1>10 DEF SetWindowSize, keys, page
  <2> QED BY <2>2, <2>3, Elsewhere
<1>11. CASE Destroy
  BY <1>11, Destroying
<1>12. ASSUME NEW way \in Ways, Navigate(way)
       PROVE  IInv'
  <2>1. web + 1 \in Pages /\ web' = web + 1
    BY <1>0, <1>12, BoundAssumption DEF Navigate, TypeOK, Pages
  <2>2. commits' \in Seq([page : Pages, way : Ways])
    <3>1. /\ commits \in Seq([page : Pages, way : Ways])
          /\ [page |-> web + 1, way |-> way] \in [page : Pages, way : Ways]
      BY <2>1, <1>0 DEF TypeOK
    <3>2. Append(commits, [page |-> web + 1, way |-> way]) \in Seq([page : Pages, way : Ways])
      BY <3>1, Queued
    <3> QED BY <3>1, <3>2, <1>12 DEF Navigate
  <2>3. goBack' \in BOOLEAN
    BY <1>12 DEF Navigate
  <2>4. TypeOK'
    BY <1>0, <1>12, <2>1, <2>2, <2>3 DEF Navigate, TypeOK, page, adapter
  <2>5. UNCHANGED keys
    BY <1>12 DEF Navigate, keys, page
  <2> QED BY <2>4, <2>5, Elsewhere
<1>13. CASE Render
  <2>1. frames' \in Seq([of : Pages, fits : BOOLEAN])
    BY <1>0, <1>13 DEF Render, TypeOK
  <2>2. TypeOK'
    BY <1>0, <1>13, <2>1 DEF Render, TypeOK, page, adapter
  <2>3. UNCHANGED keys
    BY <1>13 DEF Render, keys, page
  <2> QED BY <2>2, <2>3, Elsewhere
<1>14. CASE Attach
  BY <1>14, AttachSent
<1>15. CASE Show
  BY <1>15, Showing
<1>16. CASE Background
  BY <1>16, GoingBack
<1>17. CASE UNCHANGED vars
  <2>1. TypeOK'
    BY <1>0, <1>17 DEF vars, page, webkit, adapter, TypeOK
  <2>2. UNCHANGED keys
    BY <1>17 DEF vars, page, keys
  <2> QED BY <2>1, <2>2, Elsewhere
<1> QED
  BY <1>1, <1>2, <1>3, <1>4, <1>5, <1>6, <1>7, <1>8, <1>9, <1>10, <1>11, <1>12, <1>13, <1>14,
     <1>15, <1>16, <1>17 DEF Next

(* Every state the buffers reach is one the invariant describes.            *)
THEOREM Invariance == Spec => []IInv
  BY Initially, Inductive, PTL DEF Spec

(* Every state the page, its connection and the adapter reach is well       *)
(* typed: a message names a key of an attach, an owned buffer has one.      *)
THEOREM TypeCorrect == Spec => []TypeOK
<1>1. IInv => TypeOK
  BY DEF IInv
<1> QED BY <1>1, Invariance, PTL
-----------------------------------------------------------------------------
(* A set no two members of which differ has one member or none.             *)
LEMMA OneOrNone ==
  ASSUME NEW T, \A i, j \in T : i = j
  PROVE  Cardinality(T) = IF T = {} THEN 0 ELSE 1
<1>1. CASE T = {}
  BY <1>1, FS_EmptySet
<1>2. CASE T # {}
  <2>1. PICK i \in T : TRUE
    BY <1>2
  <2>2. T = {i}
    BY <2>1
  <2> QED BY <1>2, <2>2, FS_Singleton
<1> QED BY <1>1, <1>2

(* Each attached buffer is in exactly one place, whatever the page and the  *)
(* adapter have done and however their calls crossed: none is lost or held  *)
(* twice (bufferReturned, flushBuffer, thaw, freeze).                       *)
THEOREM BuffersInOnePlace == Spec => []OnePlace
<1>1. ASSUME IInv
      PROVE  OnePlace
  <2> SUFFICES ASSUME NEW b \in Bufs, Attached, off[b] \in known
               PROVE  Cardinality({i \in DOMAIN toAdapter : toAdapter[i] = off[b]})
                        + Backlog(off[b])
                        + (IF own[b] THEN 1 ELSE 0)
                        + (IF shown = off[b] THEN 1 ELSE 0) = 1
    BY DEF OnePlace
  <2> DEFINE Coming == {i \in DOMAIN toAdapter : toAdapter[i] = off[b]}
             Going  == {i \in DOMAIN toServer : toServer[i] = Return(off[b])}
  <2>0. TypeOK /\ Apart /\ Somewhere
    BY <1>1 DEF IInv
  <2>1. Cardinality(Coming) = IF Coming = {} THEN 0 ELSE 1
    <3>1. \A i, j \in Coming : i = j
      BY <2>0 DEF Apart
    <3> QED BY <3>1, OneOrNone
  <2>2. \A i \in DOMAIN toServer : toServer[i] = Return(off[b]) <=> Is(i, "return") /\ toServer[i].key = off[b]
    <3>1. \A c \in Call : c.op = "return" => c = Return(c.key)
      BY DEF Call, Return
    <3> QED BY <3>1, <2>0 DEF Return, Is, TypeOK
  <2>3. Backlog(off[b]) = IF Going = {} THEN 0 ELSE 1
    <3>1. \A i, j \in Going : i = j
      BY <2>0, <2>2 DEF Apart
    <3>2. Cardinality(Going) = IF Going = {} THEN 0 ELSE 1
      BY <3>1, OneOrNone
    <3> QED BY <3>2 DEF Backlog, Return
  <2>4. own[b] \/ shown = off[b] \/ Coming # {} \/ Going # {}
    BY <2>0, <2>2 DEF Somewhere
  <2>5. /\ own[b] => shown # off[b] /\ Coming = {} /\ Going = {}
        /\ shown = off[b] => Coming = {} /\ Going = {}
        /\ Coming = {} \/ Going = {}
    BY <2>0, <2>2 DEF Apart
  <2> QED BY <2>1, <2>3, <2>4, <2>5
<1> QED BY <1>1, Invariance, PTL

(* What is on screen is never painted over: a frame or a blank goes into a  *)
(* buffer the page owns (onFrame, clearToWhite).                            *)
THEOREM ScreenNotPaintedOver == Spec => NeverPaintedOver
<1> DEFINE A == shown # NoKey /\ shown' = shown => pix'[shown] = pix[shown]
<1>1. IInv /\ [Next]_vars => [A]_vars
  <2> SUFFICES ASSUME IInv, Next, shown # NoKey, shown' = shown
               PROVE  pix'[shown] = pix[shown]
    BY DEF vars
  <2>0. TypeOK /\ Apart
    BY DEF IInv
  <2>1. ASSUME NEW b \in Bufs, NEW p, Free(b), PaintAndFlush(b, p)
        PROVE  pix'[shown] = pix[shown]
    <3>1. off[b] # shown
      BY <2>0, <2>1 DEF Free, Apart
    <3> QED BY <2>0, <2>1, <3>1 DEF PaintAndFlush, TypeOK
  <2>2. CASE pix' = pix
    BY <2>2
  <2>3. pix' = pix \/ OnFramePaint \/ CommitBlank
    BY DEF Next, OnFrameDrop, CommitHistory, CommitHeld, PageBackward, AttachToBuffer, BufferReturned,
           Freeze, SetWindowSize, Destroy, Navigate, Render, Attach, Show, Background
  <2> QED BY <2>1, <2>2, <2>3 DEF OnFramePaint, CommitBlank
<1>2. Spec => [][A]_vars
  BY <1>1, Invariance, PTL DEF Spec
<1> QED BY <1>2 DEF NeverPaintedOver

(* The screen never goes back to an earlier picture: keys reach the adapter *)
(* in the order their pictures were painted.                                *)
THEOREM ScreenNeverBackwards == Spec => NeverBackwards
<1> DEFINE A == shown # NoKey /\ shown' \notin {NoKey, shown} => pix[shown'].stamp > pix[shown].stamp
<1>1. IInv /\ [Next]_vars => [A]_vars
  <2> SUFFICES ASSUME IInv, Next, shown # NoKey, shown' \notin {NoKey, shown}
               PROVE  pix[shown'].stamp > pix[shown].stamp
    BY DEF vars
  <2>0. TypeOK /\ Stamped
    BY DEF IInv
  <2>1. Show
    BY DEF Next, OnFrameDrop, OnFramePaint, CommitHistory, CommitBlank, CommitHeld, Committed, PageBackward,
           AttachToBuffer, BufferReturned, Freeze, SetWindowSize, Destroy, Navigate, Render, Attach, Background,
           adapter
  <2>2. 1 \in DOMAIN toAdapter /\ shown' = toAdapter[1]
    <3>1. toAdapter \in Seq(Keys) /\ toAdapter # <<>>
      BY <2>0, <2>1 DEF TypeOK, Show
    <3>2. 1 \in DOMAIN toAdapter /\ Head(toAdapter) = toAdapter[1]
      BY <3>1, Taken
    <3> QED BY <2>1, <3>2 DEF Show
  <2>3. pix[shown].stamp < pix[toAdapter[1]].stamp /\ toAdapter[1] \in Keys /\ shown \in Keys
    BY <2>0, <2>2 DEF Stamped, TypeOK
  <2>4. \A k \in Keys : pix[k].stamp \in Int
    BY <2>0 DEF TypeOK, Picture
  <2> QED BY <2>2, <2>3, <2>4
<1>2. Spec => [][A]_vars
  BY <1>1, Invariance, PTL DEF Spec
<1> QED BY <1>2 DEF NeverBackwards
=============================================================================
