------------------------ MODULE OutputDeliveryProofs ------------------------
(***************************************************************************)
(* The delivery of a stream is exact for every byte limit, number of       *)
(* leases and text of whole characters.                                    *)
(***************************************************************************)
EXTENDS OutputDelivery, SequenceTheorems, TLAPS

Pieces == [channel : Channels, offset : Nat, bytes : Nat \ {0}]
Sizes == [Channels -> Nat]

End(p) == p.offset + p.bytes
Absent(q, c) == \A i \in 1..Len(q) : q[i].channel # c

(* At most two pieces, and of two the first one is reasoning.              *)
Ordered(q) ==
    /\ Len(q) <= 2
    /\ Len(q) = 2 => q[1].channel = "reasoning" /\ q[2].channel = "content"

(* The last character ends where the text ends, pending ranges reach to    *)
(* the end of the text, and there is no content before the switch to it.   *)
GoodText(size, ends, q, content) ==
    /\ Ordered(q)
    /\ \A c \in Channels : \A e \in ends[c] : e <= size[c]
    /\ \A c \in Channels : size[c] > 0 => size[c] \in ends[c]
    /\ \A i \in 1..Len(q) : End(q[i]) = size[q[i].channel]
    /\ ~content => size["content"] = 0

(* Of each channel, what was heard, what is in the batch and what is       *)
(* pending follow one another up to the end of the text; content is in the *)
(* batch only if no reasoning is pending any more.                         *)
Linked(size, ends, q, b, h) ==
    /\ Ordered(b)
    /\ \A j \in 1..Len(b) :
        /\ b[j].offset = h[b[j].channel]
        /\ End(b[j]) \in ends[b[j].channel]
        /\ b[j].channel = "content" => Absent(q, "reasoning")
        /\ Absent(q, b[j].channel) => End(b[j]) = size[b[j].channel]
    /\ \A i \in 1..Len(q) :
        /\ \A j \in 1..Len(b) : b[j].channel = q[i].channel => End(b[j]) = q[i].offset
        /\ Absent(b, q[i].channel) => q[i].offset = h[q[i].channel]
    /\ \A c \in Channels : Absent(q, c) /\ Absent(b, c) => h[c] = size[c]

-----------------------------------------------------------------------------
(* Pending ranges r are those of q after n bytes of channel c: the last    *)
(* one is longer, or there is one more.                                    *)
Grows(size, q, c, n, r) ==
    \/ /\ Len(q) > 0 /\ q[Len(q)].channel = c
       /\ r = [q EXCEPT ![Len(q)] = Piece(c, q[Len(q)].offset, q[Len(q)].bytes + n)]
    \/ /\ ~(Len(q) > 0 /\ q[Len(q)].channel = c)
       /\ r = Append(q, Piece(c, size[c], n))

Grown(size, q, c, n, r) ==
    /\ Ordered(r) /\ ~Absent(r, c)
    /\ \A x \in Channels \ {c} : Absent(r, x) <=> Absent(q, x)
    /\ \A i \in 1..Len(r) :
        /\ i <= Len(q) => r[i].channel = q[i].channel /\ r[i].offset = q[i].offset
        /\ r[i].channel # c => i <= Len(q) /\ r[i] = q[i]
        /\ r[i].channel = c => End(r[i]) = size[c] + n
        /\ i > Len(q) => r[i].offset = size[c] /\ r[i].channel = c /\ Absent(q, c)

(* Pending ranges grow by n bytes of channel c: the last one reaches to    *)
(* the new end of the text, or a new one begins at the old end.            *)
LEMMA QueueGrows ==
  ASSUME NEW size \in Sizes, NEW ends \in [Channels -> SUBSET Nat], NEW q \in Seq(Pieces),
         NEW content \in BOOLEAN, GoodText(size, ends, q, content),
         NEW c \in Channels, NEW n \in Nat \ {0}, c = "reasoning" => ~content,
         NEW r \in Seq(Pieces), Grows(size, q, c, n, r)
  PROVE  Grown(size, q, c, n, r)
  <1>0. PICK m \in Nat : m = Len(q)
    OBVIOUS
  <1>1. m <= 2 /\ (m = 2 => q[1].channel = "reasoning" /\ q[2].channel = "content")
    BY <1>0 DEF GoodText, Ordered
  <1>2. \A i \in 1..m : q[i] \in Pieces /\ End(q[i]) = size[q[i].channel]
    BY <1>0 DEF GoodText
  <1>3. \A i \in 1..m : q[i].channel = "content" => content
    <2> SUFFICES ASSUME NEW i \in 1..m, q[i].channel = "content", ~content PROVE FALSE
      OBVIOUS
    <2>1. End(q[i]) = 0
      BY <1>2 DEF GoodText
    <2> QED BY <1>2, <2>1 DEF End, Pieces
  <1>4. CASE m > 0 /\ q[m].channel = c
    <2> DEFINE p == Piece(c, q[m].offset, q[m].bytes + n)
    <2>1. p.channel = c /\ p.offset = q[m].offset /\ End(p) = End(q[m]) + n
      <3>1. q[m] \in Pieces
        BY <1>2, <1>4
      <3>2. q[m].offset \in Nat /\ q[m].bytes \in Nat
        BY <3>1 DEF Pieces
      <3> QED BY <3>2 DEF Piece, End
    <2>2. r = [q EXCEPT ![m] = p]
      BY <1>0, <1>4 DEF Grows
    <2> HIDE DEF p
    <2>3. Len(r) = m /\ r[m] = p /\ \A i \in 1..(m - 1) : r[i] = q[i]
      BY <1>0, <1>4, <2>2
    <2>4. \A i \in 1..(m - 1) : q[i].channel # c
      BY <1>1, <1>4
    <2>5. End(p) = size[c] + n
      BY <1>2, <1>4, <2>1
    <2> QED BY <1>0, <1>1, <1>4, <2>1, <2>3, <2>4, <2>5 DEF Ordered, Absent, Grown
  <1>5. CASE ~(m > 0 /\ q[m].channel = c)
    <2> DEFINE p == Piece(c, size[c], n)
    <2>1. p.channel = c /\ p.offset = size[c] /\ End(p) = size[c] + n
      BY DEF Piece, End
    <2>2. r = Append(q, p)
      BY <1>0, <1>5 DEF Grows
    <2> HIDE DEF p
    <2>3. Len(r) = m + 1 /\ r[m + 1] = p /\ \A i \in 1..m : r[i] = q[i]
      BY <1>0, <2>2
    <2>4. m <= 1 /\ (m = 1 => q[1].channel = "reasoning" /\ c = "content")
      <3>1. m # 0 => q[m].channel # c /\ q[m].channel \in Channels
        BY <1>2, <1>5 DEF Pieces
      <3>2. m # 0 => q[m].channel # "content"
        BY <1>3, <3>1 DEF Channels
      <3> QED BY <1>1, <3>1, <3>2 DEF Channels
    <2>5. Absent(q, c)
      BY <1>0, <2>4 DEF Absent
    <2> QED BY <1>0, <2>1, <2>3, <2>4, <2>5 DEF Ordered, Absent, Grown
  <1> QED BY <1>4, <1>5

(* The text after n bytes of channel c whose characters end at e.          *)
Longer(size, ends, c, n, e, longer, more) ==
    /\ n \in e
    /\ longer = [size EXCEPT ![c] = @ + n]
    /\ more = [ends EXCEPT ![c] = @ \cup {size[c] + x : x \in e}]

(* A delta keeps the text well formed and linked to what the client has.   *)
LEMMA TextGrows ==
  ASSUME NEW size \in Sizes, NEW ends \in [Channels -> SUBSET Nat], NEW q \in Seq(Pieces),
         NEW content \in BOOLEAN, GoodText(size, ends, q, content),
         NEW b \in Seq(Pieces), NEW h \in Sizes, Linked(size, ends, q, b, h),
         NEW c \in Channels, NEW n \in Nat \ {0}, c = "reasoning" => ~content,
         NEW e \in SUBSET (1..n), NEW r \in Seq(Pieces), Grows(size, q, c, n, r),
         NEW longer \in Sizes, NEW more \in [Channels -> SUBSET Nat],
         Longer(size, ends, c, n, e, longer, more)
  PROVE  /\ GoodText(longer, more, r, content \/ c = "content")
         /\ Linked(longer, more, r, b, h)
  <1>0. Grown(size, q, c, n, r)
    BY QueueGrows, Zenon
  <1>1. /\ Ordered(r) /\ ~Absent(r, c)
        /\ \A x \in Channels \ {c} : Absent(r, x) <=> Absent(q, x)
    BY <1>0 DEF Grown
  <1>2. \A i \in 1..Len(r) :
        /\ i <= Len(q) => r[i].channel = q[i].channel /\ r[i].offset = q[i].offset
        /\ r[i].channel # c => i <= Len(q) /\ r[i] = q[i]
        /\ r[i].channel = c => End(r[i]) = size[c] + n
        /\ i > Len(q) => r[i].offset = size[c] /\ r[i].channel = c /\ Absent(q, c)
    BY <1>0 DEF Grown
  <1>3. /\ longer[c] = size[c] + n /\ \A x \in Channels \ {c} : longer[x] = size[x]
        /\ \A x \in Channels \ {c} : more[x] = ends[x]
        /\ more[c] = ends[c] \cup {size[c] + x : x \in e}
    BY DEF Sizes, Longer
  <1>4. \A x \in Channels : ends[x] \subseteq more[x]
    BY <1>3
  <1>5. \A x \in Channels : \A y \in more[x] : y <= longer[x]
    <2> SUFFICES ASSUME NEW x \in Channels, NEW y \in more[x] PROVE y <= longer[x]
      OBVIOUS
    <2>1. CASE x = c
      <3>1. CASE y \in ends[c]
        BY <1>3, <2>1, <3>1 DEF GoodText, Sizes
      <3>2. CASE y \in {size[c] + z : z \in e}
        BY <1>3, <2>1, <3>2 DEF Sizes
      <3> QED BY <1>3, <2>1, <3>1, <3>2
    <2>2. CASE x # c
      BY <1>3, <2>2 DEF GoodText
    <2> QED BY <2>1, <2>2
  <1>6. \A x \in Channels : longer[x] > 0 => longer[x] \in more[x]
    BY <1>3 DEF GoodText, Sizes, Longer
  <1>7. \A i \in 1..Len(r) : End(r[i]) = longer[r[i].channel]
    <2> SUFFICES ASSUME NEW i \in 1..Len(r) PROVE End(r[i]) = longer[r[i].channel]
      OBVIOUS
    <2>1. CASE r[i].channel = c
      BY <1>2, <1>3, <2>1
    <2>2. CASE r[i].channel # c
      <3>1. i \in 1..Len(q) /\ r[i] = q[i]
        BY <1>2, <2>2
      <3>2. q[i] \in Pieces /\ End(q[i]) = size[q[i].channel]
        BY <3>1 DEF GoodText
      <3>3. q[i].channel \in Channels \ {c}
        BY <2>2, <3>1, <3>2 DEF Pieces
      <3> QED BY <1>3, <3>1, <3>2, <3>3
    <2> QED BY <2>1, <2>2
  <1>8. ~(content \/ c = "content") => longer["content"] = 0
    BY <1>3 DEF GoodText, Channels
  <1>9. GoodText(longer, more, r, content \/ c = "content")
    BY <1>1, <1>5, <1>6, <1>7, <1>8 DEF GoodText
  <1>10. ASSUME NEW j \in 1..Len(b)
         PROVE  /\ b[j].offset = h[b[j].channel]
                /\ End(b[j]) \in more[b[j].channel]
                /\ b[j].channel = "content" => Absent(r, "reasoning")
                /\ Absent(r, b[j].channel) => End(b[j]) = longer[b[j].channel]
    <2>0. b[j] \in Pieces
      OBVIOUS
    <2>1. b[j].channel \in Channels /\ b[j].offset \in Nat /\ b[j].bytes \in Nat \ {0}
      BY <2>0 DEF Pieces
    <2>2. b[j].offset = h[b[j].channel] /\ End(b[j]) \in ends[b[j].channel]
      BY DEF Linked
    <2>3. End(b[j]) \in more[b[j].channel]
      BY <1>4, <2>1, <2>2
    <2>4. ASSUME b[j].channel = "content" PROVE Absent(r, "reasoning")
      <3>1. content
        <4>1. End(b[j]) > 0
          BY <2>1 DEF End
        <4>2. End(b[j]) <= size["content"]
          BY <2>1, <2>2, <2>4 DEF GoodText
        <4> QED BY <4>1, <4>2, <2>1 DEF GoodText, End
      <3>2. c # "reasoning"
        BY <3>1
      <3>3. Absent(q, "reasoning")
        BY <2>4 DEF Linked
      <3> QED BY <1>1, <3>2, <3>3 DEF Channels
    <2>5. ASSUME Absent(r, b[j].channel) PROVE End(b[j]) = longer[b[j].channel]
      <3>1. b[j].channel # c
        BY <1>1, <2>5
      <3>2. Absent(q, b[j].channel)
        BY <1>1, <2>1, <2>5, <3>1
      <3> QED BY <1>3, <2>1, <3>1, <3>2 DEF Linked
    <2> QED BY <2>2, <2>3, <2>4, <2>5
  <1>11. ASSUME NEW i \in 1..Len(r)
         PROVE  /\ \A j \in 1..Len(b) : b[j].channel = r[i].channel => End(b[j]) = r[i].offset
                /\ Absent(b, r[i].channel) => r[i].offset = h[r[i].channel]
    <2>1. CASE i <= Len(q)
      BY <1>2, <2>1 DEF Linked
    <2>2. CASE i > Len(q)
      <3>1. r[i].offset = size[c] /\ r[i].channel = c /\ Absent(q, c)
        BY <1>2, <2>2
      <3>2. Absent(b, c) => h[c] = size[c]
        BY <3>1 DEF Linked
      <3>3. \A j \in 1..Len(b) : b[j].channel = c => End(b[j]) = size[c]
        BY <3>1 DEF Linked
      <3> QED BY <3>1, <3>2, <3>3
    <2> QED BY <2>1, <2>2
  <1>12. ASSUME NEW x \in Channels, Absent(r, x), Absent(b, x) PROVE h[x] = longer[x]
    <2>1. x # c
      BY <1>1, <1>12
    <2> QED BY <1>1, <1>3, <1>12, <2>1 DEF Linked
  <1>13. Linked(longer, more, r, b, h)
    <2>1. Ordered(b)
      BY DEF Linked
    <2> QED BY <1>10, <1>11, <1>12, <2>1 DEF Linked
  <1> QED BY <1>9, <1>13

-----------------------------------------------------------------------------
(* poll took the pieces b off the front of q and left r: the pieces are    *)
(* whole ranges, but for the last one, which may be a part that ends with  *)
(* a whole character.                                                      *)
Split(ends, q, b, r) ==
    \/ b = <<>> /\ r = q
    \/ \E k \in 1..Len(q) : \E n \in Nat \ {0} :
        /\ Len(b) = k /\ \A i \in 1..(k - 1) : b[i] = q[i]
        /\ b[k] = Piece(q[k].channel, q[k].offset, n)
        /\ \/ /\ n = q[k].bytes
              /\ Len(r) = Len(q) - k
              /\ \A i \in 1..Len(r) : r[i] = q[k + i]
           \/ /\ n < q[k].bytes /\ q[k].offset + n \in ends[q[k].channel]
              /\ Len(r) = Len(q) - k + 1
              /\ r[1] = Piece(q[k].channel, q[k].offset + n, q[k].bytes - n)
              /\ \A i \in 2..Len(r) : r[i] = q[k + i - 1]

(* poll keeps the text well formed, and what it took follows what was     *)
(* heard.                                                                  *)
LEMMA SplitKeeps ==
  ASSUME NEW size \in Sizes, NEW ends \in [Channels -> SUBSET Nat], NEW q \in Seq(Pieces),
         NEW content \in BOOLEAN, GoodText(size, ends, q, content),
         NEW h \in Sizes, Linked(size, ends, q, <<>>, h),
         NEW b \in Seq(Pieces), NEW r \in Seq(Pieces), Split(ends, q, b, r)
  PROVE  GoodText(size, ends, r, content) /\ Linked(size, ends, r, b, h)
  <1>1. CASE b = <<>> /\ r = q
    BY <1>1
  <1>2. ASSUME NEW k \in 1..Len(q), NEW n \in Nat \ {0},
               Len(b) = k, \A i \in 1..(k - 1) : b[i] = q[i],
               b[k] = Piece(q[k].channel, q[k].offset, n),
               \/ /\ n = q[k].bytes
                  /\ Len(r) = Len(q) - k
                  /\ \A i \in 1..Len(r) : r[i] = q[k + i]
               \/ /\ n < q[k].bytes /\ q[k].offset + n \in ends[q[k].channel]
                  /\ Len(r) = Len(q) - k + 1
                  /\ r[1] = Piece(q[k].channel, q[k].offset + n, q[k].bytes - n)
                  /\ \A i \in 2..Len(r) : r[i] = q[k + i - 1]
        PROVE  GoodText(size, ends, r, content) /\ Linked(size, ends, r, b, h)
    <2>1. PICK m \in Nat : m = Len(q)
      OBVIOUS
    <2>2. m \in 1..2 /\ k \in 1..m /\ (m = 2 => q[1].channel = "reasoning" /\ q[2].channel = "content")
      <3>1. Ordered(q)
        BY DEF GoodText
      <3> QED BY <2>1, <3>1 DEF Ordered
    <2>3. \A i \in 1..m : /\ q[i].channel \in Channels /\ q[i].offset \in Nat /\ q[i].bytes \in Nat \ {0}
                           /\ End(q[i]) = size[q[i].channel] /\ q[i].offset = h[q[i].channel]
                           /\ size[q[i].channel] \in ends[q[i].channel]
      <3> SUFFICES ASSUME NEW i \in 1..m
                   PROVE  /\ q[i].channel \in Channels /\ q[i].offset \in Nat /\ q[i].bytes \in Nat \ {0}
                          /\ End(q[i]) = size[q[i].channel] /\ q[i].offset = h[q[i].channel]
                          /\ size[q[i].channel] \in ends[q[i].channel]
        OBVIOUS
      <3>1. q[i] \in Pieces
        BY <2>1
      <3>2. q[i].channel \in Channels /\ q[i].offset \in Nat /\ q[i].bytes \in Nat \ {0}
        BY <3>1, SMTT(30) DEF Pieces
      <3>3. End(q[i]) = size[q[i].channel]
        BY <2>1 DEF GoodText
      <3>4. q[i].offset = h[q[i].channel]
        BY <2>1 DEF Linked, Absent
      <3>5. size[q[i].channel] > 0
        BY <3>2, <3>3 DEF End
      <3> QED BY <3>2, <3>3, <3>4, <3>5 DEF GoodText
    <2>4. \A c \in Channels : Absent(q, c) => h[c] = size[c]
      BY DEF Linked, Absent
    <2>5. b[k].channel = q[k].channel /\ b[k].offset = q[k].offset /\ b[k].bytes = n
          /\ End(b[k]) = q[k].offset + n
      BY <1>2 DEF Piece, End
    <2>6. CASE n = q[k].bytes /\ Len(r) = Len(q) - k /\ \A i \in 1..Len(r) : r[i] = q[k + i]
      <3>1. \A j \in 1..k : /\ b[j].channel = q[j].channel /\ b[j].offset = q[j].offset
                             /\ End(b[j]) = size[b[j].channel]
        <4> SUFFICES ASSUME NEW j \in 1..k
                     PROVE  /\ b[j].channel = q[j].channel /\ b[j].offset = q[j].offset
                            /\ End(b[j]) = size[b[j].channel]
          OBVIOUS
        <4>1. CASE j = k
          <5>1. End(b[k]) = q[k].offset + q[k].bytes
            BY <2>5, <2>6, Zenon
          <5>2. End(q[k]) = size[q[k].channel]
            BY <2>2, <2>3, Zenon
          <5>3. End(q[k]) = q[k].offset + q[k].bytes
            BY Zenon DEF End
          <5> QED BY <2>5, <4>1, <5>1, <5>2, <5>3, Zenon
        <4>2. CASE j # k
          <5>1. b[j] = q[j]
            BY <1>2, <4>2
          <5>2. j \in 1..m
            BY <2>2
          <5>3. End(q[j]) = size[q[j].channel]
            BY <2>3, <5>2, Zenon
          <5> QED BY <5>1, <5>3, Zenon
        <4> QED BY <4>1, <4>2
      <3>2. Len(b) = k /\ Len(r) = m - k /\ \A i \in 1..(m - k) : r[i] = q[k + i]
        BY <1>2, <2>1, <2>6
      <3>20. \/ m = 1 /\ k = 1 /\ Len(b) = 1 /\ Len(r) = 0
             \/ m = 2 /\ k = 1 /\ Len(b) = 1 /\ Len(r) = 1 /\ r[1] = q[2]
             \/ m = 2 /\ k = 2 /\ Len(b) = 2 /\ Len(r) = 0
        <4>1. (m = 1 /\ k = 1) \/ (m = 2 /\ k = 1) \/ (m = 2 /\ k = 2)
          BY <2>2
        <4>2. m = 2 /\ k = 1 => r[1] = q[2]
          BY <3>2
        <4> QED BY <3>2, <4>1, <4>2
      <3>3. Ordered(r) /\ Ordered(b)
        BY <2>2, <3>1, <3>2, <3>20 DEF Ordered
      <3>4. \A i \in 1..Len(r) : End(r[i]) = size[r[i].channel]
        <4>1. m = 2 => End(q[2]) = size[q[2].channel]
          BY <2>3
        <4> QED BY <3>20, <4>1
      <3>5. GoodText(size, ends, r, content)
        BY <3>3, <3>4 DEF GoodText
      <3>6. \A j \in 1..Len(b) :
                /\ b[j].offset = h[b[j].channel] /\ End(b[j]) \in ends[b[j].channel]
                /\ Absent(r, b[j].channel) => End(b[j]) = size[b[j].channel]
        BY <2>2, <2>3, <3>1, <3>2, <3>20 DEF Absent
      <3>7. \A j \in 1..Len(b) : b[j].channel = "content" => Absent(r, "reasoning")
        BY <2>2, <3>1, <3>2, <3>20 DEF Absent
      <3>8. \A i \in 1..Len(r) :
                /\ \A j \in 1..Len(b) : b[j].channel = r[i].channel => End(b[j]) = r[i].offset
                /\ Absent(b, r[i].channel) => r[i].offset = h[r[i].channel]
        BY <2>2, <2>3, <3>1, <3>2, <3>20 DEF Absent
      <3>9. \A c \in Channels : Absent(r, c) /\ Absent(b, c) => h[c] = size[c]
        <4> SUFFICES ASSUME NEW c \in Channels, Absent(r, c), Absent(b, c) PROVE Absent(q, c)
          BY <2>4
        <4> QED BY <2>1, <2>2, <3>1, <3>2, <3>20 DEF Absent
      <3> QED BY <3>3, <3>5, <3>6, <3>7, <3>8, <3>9 DEF Linked
    <2>7. CASE /\ n < q[k].bytes /\ q[k].offset + n \in ends[q[k].channel]
               /\ Len(r) = Len(q) - k + 1
               /\ r[1] = Piece(q[k].channel, q[k].offset + n, q[k].bytes - n)
               /\ \A i \in 2..Len(r) : r[i] = q[k + i - 1]
      <3>1. \A j \in 1..k : /\ b[j].channel = q[j].channel /\ b[j].offset = q[j].offset
                             /\ End(b[j]) \in ends[b[j].channel]
                             /\ (j < k => End(b[j]) = size[b[j].channel])
        <4> SUFFICES ASSUME NEW j \in 1..k
                     PROVE  /\ b[j].channel = q[j].channel /\ b[j].offset = q[j].offset
                            /\ End(b[j]) \in ends[b[j].channel]
                            /\ j < k => End(b[j]) = size[b[j].channel]
          OBVIOUS
        <4>1. CASE j = k
          BY <2>2, <2>5, <2>7, <4>1
        <4>2. CASE j # k
          <5>1. j \in 1..(k - 1) /\ j \in 1..m
            BY <2>2, <4>2
          <5>2. b[j] = q[j]
            BY <1>2, <5>1, Zenon
          <5> QED BY <2>3, <5>1, <5>2, Zenon
        <4> QED BY <4>1, <4>2
      <3>2. /\ Len(b) = k /\ Len(r) = m - k + 1 /\ \A i \in 2..(m - k + 1) : r[i] = q[k + i - 1]
            /\ r[1].channel = q[k].channel /\ r[1].offset = End(b[k]) /\ End(r[1]) = size[q[k].channel]
        <4>1. Len(b) = k /\ Len(r) = m - k + 1 /\ \A i \in 2..(m - k + 1) : r[i] = q[k + i - 1]
          <5>1. Len(b) = k /\ Len(q) = m
            BY <1>2, <2>1, Zenon
          <5>2. Len(r) = m - k + 1
            BY <2>7, <5>1, Zenon
          <5>3. \A i \in 2..Len(r) : r[i] = q[k + i - 1]
            BY <2>7, Zenon
          <5> QED BY <5>1, <5>2, <5>3, Zenon
        <4>2. r[1].channel = q[k].channel /\ r[1].offset = End(b[k])
          <5>1. r[1] = [channel |-> q[k].channel, offset |-> q[k].offset + n, bytes |-> q[k].bytes - n]
            BY <2>7, Zenon DEF Piece
          <5>2. r[1].channel = q[k].channel /\ r[1].offset = q[k].offset + n
            BY <5>1
          <5> QED BY <2>5, <5>2, Zenon
        <4>3. q[k].offset \in Nat /\ q[k].bytes \in Nat /\ q[k].offset + q[k].bytes = size[q[k].channel]
          BY <2>2, <2>3 DEF End
        <4>4. End(r[1]) = (q[k].offset + n) + (q[k].bytes - n)
          BY <2>7 DEF Piece, End
        <4>5. End(r[1]) = size[q[k].channel]
          <5>1. PICK x \in Nat, y \in Nat : x = q[k].bytes /\ y = q[k].offset
            BY <4>3
          <5>2. (y + n) + (x - n) = y + x
            OBVIOUS
          <5> QED BY <4>3, <4>4, <5>1, <5>2
        <4> QED BY <4>1, <4>2, <4>5, Zenon
      <3>3. CASE m = 1 /\ k = 1
        <4>1. Len(b) = 1 /\ Len(r) = 1
          BY <3>2, <3>3
        <4>0. 1..Len(b) = {1} /\ 1..Len(r) = {1}
          BY <4>1
        <4>2. /\ b[1].channel = q[1].channel /\ b[1].offset = h[q[1].channel] /\ End(b[1]) \in ends[q[1].channel]
          <5>1. /\ b[1].channel = q[1].channel /\ b[1].offset = q[1].offset /\ End(b[1]) \in ends[b[1].channel]
            BY <3>1, <3>3
          <5>2. q[1].offset = h[q[1].channel]
            BY <2>3, <3>3
          <5> QED BY <5>1, <5>2
        <4>3. /\ r[1].channel = q[1].channel /\ r[1].offset = End(b[1]) /\ End(r[1]) = size[q[1].channel]
          BY <2>3, <3>2, <3>3
        <4>4. q[1].channel \in Channels
          BY <2>3, <3>3
        <4>5. Ordered(r) /\ Ordered(b)
          BY <4>1, <4>2, <4>3, <4>4 DEF Ordered
        <4>6. \A i \in 1..Len(r) : End(r[i]) = size[r[i].channel]
          BY <4>1, <4>3
        <4>7. \A j \in 1..Len(b) :
                /\ b[j].offset = h[b[j].channel] /\ End(b[j]) \in ends[b[j].channel]
                /\ Absent(r, b[j].channel) => End(b[j]) = size[b[j].channel]
          BY <4>0, <4>2, <4>3, <4>4, ZenonT(60) DEF Absent
        <4>8. \A j \in 1..Len(b) : b[j].channel = "content" => Absent(r, "reasoning")
          BY <4>0, <4>2, <4>3, <4>4, ZenonT(60) DEF Absent
        <4>9. \A i \in 1..Len(r) :
                /\ \A j \in 1..Len(b) : b[j].channel = r[i].channel => End(b[j]) = r[i].offset
                /\ Absent(b, r[i].channel) => r[i].offset = h[r[i].channel]
          BY <4>0, <4>2, <4>3, <4>4, ZenonT(60) DEF Absent
        <4>10. \A c \in Channels : Absent(r, c) /\ Absent(b, c) => h[c] = size[c]
          <5> SUFFICES ASSUME NEW c \in Channels, Absent(r, c), Absent(b, c) PROVE Absent(q, c)
            BY <2>4
          <5>1. 1 \in 1..Len(b)
            BY <4>1
          <5>2. q[1].channel # c
            BY <4>2, <5>1, Zenon DEF Absent
          <5>3. \A i \in 1..Len(q) : i = 1
            BY <2>1, <3>3
          <5> QED BY <5>2, <5>3, Zenon DEF Absent
        <4> QED BY <4>5, <4>6, <4>7, <4>8, <4>9, <4>10 DEF GoodText, Linked
      <3>4. CASE m = 2 /\ k = 1
        <4>1. Len(b) = 1 /\ Len(r) = 2
          BY <3>2, <3>4
        <4>0. 1..Len(b) = {1} /\ 1..Len(r) = {1, 2}
          BY <4>1
        <4>2. /\ b[1].channel = q[1].channel /\ b[1].offset = h[q[1].channel] /\ End(b[1]) \in ends[q[1].channel]
          <5>1. /\ b[1].channel = q[1].channel /\ b[1].offset = q[1].offset /\ End(b[1]) \in ends[b[1].channel]
            BY <3>1, <3>4
          <5>2. q[1].offset = h[q[1].channel]
            BY <2>3, <3>4
          <5> QED BY <5>1, <5>2
        <4>3. /\ r[1].channel = q[1].channel /\ r[1].offset = End(b[1]) /\ End(r[1]) = size[q[1].channel]
              /\ r[2] = q[2] /\ q[2].offset = h[q[2].channel] /\ End(q[2]) = size[q[2].channel]
          <5>1. /\ r[1].channel = q[1].channel /\ r[1].offset = End(b[1])
                /\ End(r[1]) = size[q[1].channel]
            BY <3>2, <3>4, Zenon
          <5>2. r[2] = q[2]
            BY <3>2, <3>4
          <5>3. q[2].offset = h[q[2].channel] /\ End(q[2]) = size[q[2].channel]
            BY <2>3, <3>4
          <5> QED BY <5>1, <5>2, <5>3, Zenon
        <4>4. q[1].channel = "reasoning" /\ q[2].channel = "content"
          BY <2>2, <3>4
        <4>5. Ordered(r) /\ Ordered(b)
          BY <4>1, <4>2, <4>3, <4>4 DEF Ordered
        <4>6. \A i \in 1..Len(r) : End(r[i]) = size[r[i].channel]
          BY <4>1, <4>3
        <4>7. \A j \in 1..Len(b) :
                /\ b[j].offset = h[b[j].channel] /\ End(b[j]) \in ends[b[j].channel]
                /\ Absent(r, b[j].channel) => End(b[j]) = size[b[j].channel]
          BY <4>0, <4>2, <4>3, <4>4, ZenonT(60) DEF Absent
        <4>8. \A j \in 1..Len(b) : b[j].channel = "content" => Absent(r, "reasoning")
          BY <4>0, <4>2, <4>3, <4>4, ZenonT(60) DEF Absent
        <4>9. \A i \in 1..Len(r) :
                /\ \A j \in 1..Len(b) : b[j].channel = r[i].channel => End(b[j]) = r[i].offset
                /\ Absent(b, r[i].channel) => r[i].offset = h[r[i].channel]
          BY <4>0, <4>2, <4>3, <4>4, ZenonT(60) DEF Absent
        <4>10. \A c \in Channels : Absent(r, c) /\ Absent(b, c) => h[c] = size[c]
          <5> SUFFICES ASSUME NEW c \in Channels, Absent(r, c), Absent(b, c) PROVE Absent(q, c)
            BY <2>4
          <5> QED BY <2>1, <3>4, <4>1, <4>2, <4>3 DEF Absent
        <4> QED BY <4>5, <4>6, <4>7, <4>8, <4>9, <4>10 DEF GoodText, Linked
      <3>5. CASE m = 2 /\ k = 2
        <4>1. Len(b) = 2 /\ Len(r) = 1
          BY <3>2, <3>5
        <4>0. 1..Len(b) = {1, 2} /\ 1..Len(r) = {1}
          BY <4>1
        <4>2. /\ b[1].channel = q[1].channel /\ b[1].offset = h[q[1].channel] /\ End(b[1]) \in ends[q[1].channel]
              /\ b[2].channel = q[2].channel /\ b[2].offset = h[q[2].channel] /\ End(b[2]) \in ends[q[2].channel]
              /\ End(b[1]) = size[q[1].channel]
          <5>1. /\ b[1].channel = q[1].channel /\ b[1].offset = q[1].offset /\ End(b[1]) \in ends[b[1].channel]
                /\ b[2].channel = q[2].channel /\ b[2].offset = q[2].offset /\ End(b[2]) \in ends[b[2].channel]
                /\ End(b[1]) = size[b[1].channel]
            BY <3>1, <3>5
          <5>2. q[1].offset = h[q[1].channel] /\ q[2].offset = h[q[2].channel]
            BY <2>3, <3>5
          <5> QED BY <5>1, <5>2
        <4>3. /\ r[1].channel = q[2].channel /\ r[1].offset = End(b[2]) /\ End(r[1]) = size[q[2].channel]
          BY <2>3, <3>2, <3>5
        <4>4. q[1].channel = "reasoning" /\ q[2].channel = "content"
          BY <2>2, <3>5
        <4>5. Ordered(r) /\ Ordered(b)
          BY <4>1, <4>2, <4>3, <4>4 DEF Ordered
        <4>6. \A i \in 1..Len(r) : End(r[i]) = size[r[i].channel]
          BY <4>1, <4>3
        <4>7. \A j \in 1..Len(b) :
                /\ b[j].offset = h[b[j].channel] /\ End(b[j]) \in ends[b[j].channel]
                /\ Absent(r, b[j].channel) => End(b[j]) = size[b[j].channel]
          BY <4>0, <4>2, <4>3, <4>4, ZenonT(60) DEF Absent
        <4>8. \A j \in 1..Len(b) : b[j].channel = "content" => Absent(r, "reasoning")
          BY <4>0, <4>2, <4>3, <4>4, ZenonT(60) DEF Absent
        <4>9. \A i \in 1..Len(r) :
                /\ \A j \in 1..Len(b) : b[j].channel = r[i].channel => End(b[j]) = r[i].offset
                /\ Absent(b, r[i].channel) => r[i].offset = h[r[i].channel]
          BY <4>0, <4>2, <4>3, <4>4, ZenonT(60) DEF Absent
        <4>10. \A c \in Channels : Absent(r, c) /\ Absent(b, c) => h[c] = size[c]
          <5> SUFFICES ASSUME NEW c \in Channels, Absent(r, c), Absent(b, c) PROVE Absent(q, c)
            BY <2>4
          <5>1. 1 \in 1..Len(b) /\ 2 \in 1..Len(b)
            BY <4>1
          <5>2. q[1].channel # c /\ q[2].channel # c
            BY <4>2, <5>1, Zenon DEF Absent
          <5>3. \A i \in 1..Len(q) : i = 1 \/ i = 2
            BY <2>1, <3>5
          <5> QED BY <5>2, <5>3, Zenon DEF Absent
        <4> QED BY <4>5, <4>6, <4>7, <4>8, <4>9, <4>10 DEF GoodText, Linked
      <3> QED BY <2>2, <3>3, <3>4, <3>5
    <2> QED BY <1>2, <2>6, <2>7
  <1> QED BY <1>1, <1>2 DEF Split

-----------------------------------------------------------------------------
Texts == [size : Sizes, ends : [Channels -> SUBSET Nat], pending : Seq(Pieces),
          content : BOOLEAN, over : BOOLEAN, thrown : BOOLEAN]

Sound(o, b, h) ==
    /\ o \in Texts /\ ~o.thrown
    /\ GoodText(o.size, o.ends, o.pending, o.content)
    /\ Linked(o.size, o.ends, o.pending, b, h)

(* The loop body of emit keeps the text sound, and throws for nothing but  *)
(* too much of it.                                                         *)
LEMMA AddedSound ==
  ASSUME NEW o, NEW b \in Seq(Pieces), NEW h \in Sizes, Sound(o, b, h),
         NEW c \in Channels, NEW d \in Deltas,
         c = "reasoning" /\ d.bytes # 0 => ~o.content
  PROVE  /\ Sound(Added(o, c, d), b, h)
         /\ c = "reasoning" => Added(o, c, d).content = o.content
  <1> DEFINE tooMuch == o.size["reasoning"] + o.size["content"] + d.bytes > TextLimit
  <1>1. CASE d.bytes = 0 \/ o.over
    BY <1>1 DEF Added, Sound
  <1>3. CASE d.bytes # 0 /\ ~o.over /\ tooMuch
    <2>1. Added(o, c, d) = [o EXCEPT !.over = TRUE]
      BY <1>3 DEF Added, Sound
    <2>2. [o EXCEPT !.over = TRUE] \in Texts
      BY DEF Sound, Texts
    <2>3. /\ [o EXCEPT !.over = TRUE].size = o.size /\ [o EXCEPT !.over = TRUE].ends = o.ends
          /\ [o EXCEPT !.over = TRUE].pending = o.pending /\ [o EXCEPT !.over = TRUE].content = o.content
          /\ [o EXCEPT !.over = TRUE].thrown = o.thrown
      BY DEF Sound, Texts
    <2> QED BY <2>1, <2>2, <2>3 DEF Sound
  <1>2. CASE d.bytes # 0 /\ ~o.over /\ ~tooMuch
    <2>0. d # NoDelta
      BY <1>2 DEF NoDelta
    <2>1. PICK n \in Nat \ {0} : n = d.bytes
      BY <2>0, DeliveryAssumption, Zenon
    <2>2. PICK e \in SUBSET (1..n) : e = d.ends /\ n \in e
      <3>1. WholeText(d.bytes, d.ends)
        BY <2>0, DeliveryAssumption, Zenon
      <3> QED BY <2>1, <3>1, Zenon DEF WholeText
    <2>3. PICK size \in Sizes, ends \in [Channels -> SUBSET Nat], q \in Seq(Pieces), content \in BOOLEAN :
            size = o.size /\ ends = o.ends /\ q = o.pending /\ content = o.content
      BY DEF Sound, Texts
    <2>4. GoodText(size, ends, q, content) /\ Linked(size, ends, q, b, h) /\ ~o.thrown
      BY <2>3 DEF Sound
    <2>5. c = "reasoning" => ~content
      BY <1>2, <2>3
    <2>6. PICK r : r = IF Len(q) > 0 /\ q[Len(q)].channel = c
                        THEN [q EXCEPT ![Len(q)] = Piece(c, @.offset, @.bytes + n)]
                        ELSE Append(q, Piece(c, size[c], n))
      BY Zenon
    <2>7. r \in Seq(Pieces) /\ Grows(size, q, c, n, r)
      <3>1. CASE Len(q) > 0 /\ q[Len(q)].channel = c
        <4>1. Len(q) \in 1..Len(q) /\ q[Len(q)] \in Pieces
          BY <3>1
        <4>2. Piece(c, q[Len(q)].offset, q[Len(q)].bytes + n) \in Pieces
          BY <4>1 DEF Piece, Pieces
        <4>3. r = [q EXCEPT ![Len(q)] = Piece(c, q[Len(q)].offset, q[Len(q)].bytes + n)]
          BY <2>6, <3>1
        <4> QED BY <3>1, <4>1, <4>2, <4>3 DEF Grows
      <3>2. CASE ~(Len(q) > 0 /\ q[Len(q)].channel = c)
        <4>1. Piece(c, size[c], n) \in Pieces
          BY DEF Piece, Pieces, Sizes
        <4>2. r = Append(q, Piece(c, size[c], n))
          BY <2>6, <3>2
        <4> QED BY <3>2, <4>1, <4>2 DEF Grows
      <3> QED BY <3>1, <3>2
    <2>8. PICK longer \in Sizes : longer = [size EXCEPT ![c] = @ + n]
      <3>1. size[c] + n \in Nat
        BY DEF Sizes
      <3>2. [size EXCEPT ![c] = size[c] + n] \in Sizes
        BY <3>1 DEF Sizes
      <3> QED BY <3>2
    <2>9. PICK more \in [Channels -> SUBSET Nat] :
            more = [ends EXCEPT ![c] = @ \cup {size[c] + x : x \in e}]
      <3>1. size[c] \in Nat
        BY DEF Sizes
      <3>2. {size[c] + x : x \in e} \in SUBSET Nat
        BY <3>1
      <3> QED BY <3>2, Zenon
    <2>10. /\ GoodText(longer, more, r, content \/ c = "content")
           /\ Linked(longer, more, r, b, h)
      <3>1. Longer(size, ends, c, n, e, longer, more)
        BY <2>2, <2>8, <2>9 DEF Longer
      <3> QED BY <2>4, <2>5, <2>7, <3>1, TextGrows, ZenonT(60)
    <2>11. ~(~(Len(q) > 0 /\ q[Len(q)].channel = c) /\ Len(q) = 2)
      <3>1. Ordered(r)
        BY <2>10 DEF GoodText
      <3>2. PICK p \in Pieces : p = Piece(c, size[c], n)
        BY Zenon DEF Piece, Pieces, Sizes
      <3>3. Len(Append(q, p)) = Len(q) + 1
        OBVIOUS
      <3>4. ~(Len(q) > 0 /\ q[Len(q)].channel = c) => r = Append(q, p)
        BY <2>6, <3>2
      <3> QED BY <3>1, <3>3, <3>4 DEF Ordered
    <2>12. Added(o, c, d) = [size |-> longer, ends |-> more, pending |-> r,
                             content |-> content \/ c = "content",
                             over |-> FALSE, thrown |-> FALSE]
      BY <1>2, <2>1, <2>2, <2>3, <2>4, <2>5, <2>6, <2>8, <2>9, <2>11 DEF Added
    <2>13. Added(o, c, d) \in Texts
      BY <2>7, <2>12 DEF Texts
    <2> QED BY <2>3, <2>10, <2>12, <2>13 DEF Sound, Channels
  <1> QED BY <1>1, <1>2, <1>3

(* A range of a channel with at least one byte is a piece.                 *)
LEMMA PieceOf ==
  ASSUME NEW c \in Channels, NEW offset \in Nat, NEW bytes \in Nat \ {0}
  PROVE  Piece(c, offset, bytes) \in Pieces
  BY DEF Piece, Pieces

(* What poll takes and what it leaves are a split of the pending ranges.   *)
LEMMA PollSplits ==
  ASSUME NEW q \in Seq(Pieces), q = out.pending, Ordered(q), leases \in Nat,
         NEW k \in 0..Len(q), NEW n \in 0..Limit, Takes(k, n)
  PROVE  /\ Taken(k, n) \in Seq(Pieces) /\ Len(Taken(k, n)) = k
         /\ Remaining(k, n) \in Seq(Pieces)
         /\ Split(out.ends, q, Taken(k, n), Remaining(k, n))
  <1>0. Limit \in Nat /\ Slots \in Nat
    BY DeliveryAssumption
  <1>1. \A i \in 1..Len(q) : q[i] \in Pieces
    OBVIOUS
  <1>2. k \in 1..2 => n > 0 /\ (n = q[k].bytes \/ (n < q[k].bytes /\ q[k].offset + n \in out.ends[q[k].channel]))
    <2> SUFFICES ASSUME k \in 1..2
                 PROVE  n > 0 /\ (n = q[k].bytes \/ (n < q[k].bytes /\ q[k].offset + n \in out.ends[q[k].channel]))
      OBVIOUS
    <2>1. n > 0 /\ DeliveryPrefix(q[k], Credit(k), n)
      BY DEF Takes
    <2>2. q[1].bytes \in Nat /\ q[k].bytes \in Nat
      BY <1>1 DEF Pieces
    <2>3. Credit(k) \in Int
      BY <1>0, <2>2 DEF Credit
    <2>4. CASE q[k].bytes <= Credit(k)
      BY <2>1, <2>4 DEF DeliveryPrefix
    <2>5. CASE ~(q[k].bytes <= Credit(k))
      BY <2>1, <2>2, <2>3, <2>5 DEF DeliveryPrefix
    <2> QED BY <2>4, <2>5
  <1>3. CASE k = 0
    <2>1. Taken(k, n) = <<>>
      BY <1>3 DEF Taken
    <2>2. Remaining(k, n) = q
      BY <1>3 DEF Remaining
    <2>3. Split(out.ends, q, Taken(k, n), Remaining(k, n))
      BY <2>1, <2>2 DEF Split
    <2>4. <<>> \in Seq(Pieces) /\ Len(<<>>) = 0
      OBVIOUS
    <2> QED BY <1>3, <2>1, <2>2, <2>3, <2>4, Zenon
  <1>4. CASE k # 0
    <2>1. k \in 1..2 /\ k \in 1..Len(q) /\ n \in Nat \ {0}
      BY <1>0, <1>2, <1>4 DEF Ordered
    <2>2. \A i \in 1..k : /\ q[i] \in Pieces
                           /\ Piece(q[i].channel, q[i].offset, IF i = k THEN n ELSE q[i].bytes) \in Pieces
      <3> SUFFICES ASSUME NEW i \in 1..k
                   PROVE  /\ q[i] \in Pieces
                          /\ Piece(q[i].channel, q[i].offset, IF i = k THEN n ELSE q[i].bytes) \in Pieces
        BY Zenon
      <3>1. q[i] \in Pieces
        BY <1>1, <2>1
      <3>2. q[i].channel \in Channels /\ q[i].offset \in Nat /\ q[i].bytes \in Nat \ {0}
        BY <3>1, SMTT(30) DEF Pieces
      <3>3. PICK x \in Nat \ {0} : x = IF i = k THEN n ELSE q[i].bytes
        BY <2>1, <3>2, Zenon
      <3>4. Piece(q[i].channel, q[i].offset, x) \in Pieces
        BY <3>2, PieceOf, Zenon
      <3> QED BY <3>1, <3>3, <3>4, Zenon
    <2>3. Taken(k, n) \in Seq(Pieces) /\ Len(Taken(k, n)) = k
      BY <2>1, <2>2 DEF Taken
    <2>4. /\ \A i \in 1..(k - 1) : Taken(k, n)[i] = q[i]
          /\ Taken(k, n)[k] = Piece(q[k].channel, q[k].offset, n)
      <3>1. \A i \in 1..k : q[i] = Piece(q[i].channel, q[i].offset, q[i].bytes)
        BY <2>2 DEF Piece, Pieces
      <3> QED BY <2>1, <3>1 DEF Taken
    <2>5. PICK rest \in Seq(Pieces) : rest = SubSeq(q, k + 1, Len(q)) /\ Len(rest) = Len(q) - k
                                       /\ \A i \in 1..Len(rest) : rest[i] = q[k + i]
      <3>1. CASE k = Len(q)
        <4>1. SubSeq(q, k + 1, Len(q)) = <<>>
          BY <2>1, <3>1, SubSeqEmpty
        <4>2. <<>> \in Seq(Pieces) /\ Len(<<>>) = 0 /\ Len(q) - k = 0
          BY <3>1
        <4>3. \A i \in 1..0 : <<>>[i] = q[k + i]
          OBVIOUS
        <4> QED BY <4>1, <4>2, <4>3, Zenon
      <3>2. CASE k # Len(q)
        <4>1. SubSeq(q, k + 1, Len(q)) \in Seq(Pieces)
          BY <2>1, <3>2
        <4>2. Len(SubSeq(q, k + 1, Len(q))) = Len(q) - k
          BY <2>1, <3>2
        <4>3. \A i \in 1..(Len(q) - k) : SubSeq(q, k + 1, Len(q))[i] = q[k + i]
          BY <2>1, <3>2
        <4> QED BY <4>1, <4>2, <4>3, Zenon
      <3> QED BY <3>1, <3>2
    <2>50. q[k].channel \in Channels /\ q[k].offset \in Nat /\ q[k].bytes \in Nat
      <3>1. q[k] \in Pieces
        BY <2>1, <2>2
      <3> QED BY <3>1, SMTT(30) DEF Pieces
    <2>6. CASE n = q[k].bytes
      <3>1. ~(k > 0 /\ n < out.pending[k].bytes)
        BY <2>6, <2>50
      <3>2. Remaining(k, n) = rest
        BY <2>5, <3>1 DEF Remaining
      <3>3. Split(out.ends, q, Taken(k, n), rest)
        BY <2>1, <2>3, <2>4, <2>5, <2>6, Zenon DEF Split
      <3> QED BY <2>3, <2>5, <3>2, <3>3, Zenon
    <2>7. CASE n < q[k].bytes /\ q[k].offset + n \in out.ends[q[k].channel]
      <3>1. q[k].offset + n \in Nat /\ q[k].bytes - n \in Nat \ {0}
        <4>1. PICK x \in Nat, y \in Nat : x = q[k].bytes /\ y = q[k].offset
          BY <2>50
        <4>2. n \in Nat \ {0} /\ n < x
          BY <2>1, <2>7, <4>1
        <4>3. y + n \in Nat /\ x - n \in Nat \ {0}
          BY <4>2
        <4> QED BY <4>1, <4>3, Zenon
      <3>2. Piece(q[k].channel, q[k].offset + n, q[k].bytes - n) \in Pieces
        BY <2>50, <3>1 DEF Piece, Pieces
      <3>3. PICK p \in Pieces : p = Piece(q[k].channel, q[k].offset + n, q[k].bytes - n)
        BY <3>2, Zenon
      <3>4. k > 0 /\ n < out.pending[k].bytes
        BY <2>1, <2>7
      <3>5. Remaining(k, n) = <<p>> \o rest
        BY <2>5, <3>3, <3>4, Zenon DEF Remaining
      <3>6. PICK r : r = <<p>> \o rest
        BY Zenon
      <3>7. r \in Seq(Pieces) /\ Len(r) = 1 + Len(rest)
        BY <3>6
      <3>8. r[1] = p /\ \A i \in 2..Len(r) : r[i] = rest[i - 1]
        BY <3>6, <3>7
      <3>9. Len(r) = Len(q) - k + 1 /\ \A i \in 2..Len(r) : r[i] = q[k + i - 1]
        <4>1. PICK m \in Nat : m = Len(q)
          OBVIOUS
        <4>2. Len(rest) = m - k /\ Len(r) = m - k + 1
          BY <2>5, <3>7, <4>1
        <4>3. ASSUME NEW i \in 2..Len(r) PROVE r[i] = q[k + i - 1]
          <5>1. i - 1 \in 1..Len(rest) /\ k + (i - 1) = k + i - 1
            BY <2>1, <4>1, <4>2
          <5> QED BY <2>5, <3>8, <5>1, Zenon
        <4> QED BY <4>1, <4>2, <4>3
      <3>10. Split(out.ends, q, Taken(k, n), r)
        BY <2>1, <2>3, <2>4, <2>7, <3>3, <3>8, <3>9, ZenonT(60) DEF Split
      <3> QED BY <2>3, <3>5, <3>6, <3>7, <3>10
    <2> QED BY <1>2, <2>1, <2>6, <2>7
  <1> QED BY <1>3, <1>4

Cut(b, p, t) == b # <<>> /\ p = Head(b) /\ t = Tail(b)

(* A piece that the sink was given moves the text heard up to the next     *)
(* piece of its channel.                                                   *)
LEMMA HeardSound ==
  ASSUME NEW o, NEW b \in Seq(Pieces), NEW h \in Sizes, Sound(o, b, h),
         NEW p \in Pieces, NEW t \in Seq(Pieces), Cut(b, p, t),
         NEW g \in Sizes, g = [h EXCEPT ![p.channel] = @ + p.bytes]
  PROVE  Sound(o, t, g)
  <1>1. PICK size \in Sizes, ends \in [Channels -> SUBSET Nat], q \in Seq(Pieces) :
            size = o.size /\ ends = o.ends /\ q = o.pending
    BY DEF Sound, Texts
  <1>2. Linked(size, ends, q, b, h)
    BY <1>1 DEF Sound
  <1>3. p.channel \in Channels /\ p.offset \in Nat /\ p.bytes \in Nat
    BY DEF Pieces
  <1>4. /\ b[1] = p
        /\ (Len(b) = 1 /\ Len(t) = 0) \/ (Len(b) = 2 /\ Len(t) = 1 /\ t[1] = b[2])
    <2>1. Len(b) <= 2
      BY <1>2 DEF Linked, Ordered
    <2>2. Len(b) \in Nat \ {0} /\ b[1] = p
      BY DEF Cut
    <2>3. Len(t) = Len(b) - 1 /\ \A i \in 1..Len(t) : t[i] = b[i + 1]
      BY DEF Cut
    <2>4. Len(b) = 1 \/ Len(b) = 2
      <3>1. PICK m \in Nat : m = Len(b)
        OBVIOUS
      <3>2. m <= 2 /\ m # 0
        BY <2>1, <2>2, <3>1
      <3>3. m = 1 \/ m = 2
        BY <3>2
      <3> QED BY <3>1, <3>3
    <2>5. CASE Len(b) = 1
      BY <2>2, <2>3, <2>5
    <2>6. CASE Len(b) = 2
      <3>1. Len(t) = 1
        BY <2>3, <2>6
      <3>2. t[1] = b[1 + 1]
        BY <2>3, <3>1
      <3> QED BY <2>2, <2>6, <3>1, <3>2
    <2> QED BY <2>4, <2>5, <2>6
  <1>5. g[p.channel] = h[p.channel] + p.bytes /\ \A c \in Channels \ {p.channel} : g[c] = h[c]
    BY <1>3, SMTT(30) DEF Sizes
  <1>50. /\ p.offset = h[p.channel]
         /\ Absent(q, p.channel) => End(p) = size[p.channel]
         /\ \A i \in 1..Len(q) : p.channel = q[i].channel => End(p) = q[i].offset
    <2>1. 1 \in 1..Len(b) /\ b[1] = p
      BY <1>4
    <2> QED BY <1>2, <2>1, Zenon DEF Linked
  <1>51. ASSUME NEW j \in 1..Len(t) PROVE Len(b) = 2 /\ 2 \in 1..Len(b) /\ t[j] = b[2]
    <2>1. Len(b) = 2 /\ Len(t) = 1 /\ t[1] = b[2]
      BY <1>4, <1>51
    <2>2. j = 1 /\ 2 \in 1..Len(b)
      BY <1>51, <2>1
    <2> QED BY <2>1, <2>2, Zenon
  <1>6. End(p) = g[p.channel]
    BY <1>5, <1>50, ZenonT(60) DEF End
  <1>7. Len(b) = 2 => p.channel = "reasoning" /\ b[2].channel = "content"
    BY <1>2, <1>4 DEF Linked, Ordered
  <1>8. \A c \in Channels \ {p.channel} : Absent(t, c) => Absent(b, c)
    BY <1>4, SMTT(30) DEF Absent
  <1>9. Ordered(t)
    BY <1>4 DEF Ordered
  <1>10. ASSUME NEW j \in 1..Len(t)
         PROVE  /\ t[j].offset = g[t[j].channel]
                /\ End(t[j]) \in ends[t[j].channel]
                /\ t[j].channel = "content" => Absent(q, "reasoning")
                /\ Absent(q, t[j].channel) => End(t[j]) = size[t[j].channel]
    <2>1. t[j] = b[2] /\ Len(b) = 2 /\ b[2].channel = "content" /\ b[2].channel # p.channel
      BY <1>7, <1>51, Zenon
    <2>2. b[2].channel \in Channels \ {p.channel}
      BY <2>1, Zenon DEF Channels
    <2>3. g[b[2].channel] = h[b[2].channel]
      BY <1>5, <2>2, Zenon
    <2> QED BY <1>2, <1>51, <2>1, <2>3, ZenonT(60) DEF Linked
  <1>11. ASSUME NEW i \in 1..Len(q)
         PROVE  /\ \A j \in 1..Len(t) : t[j].channel = q[i].channel => End(t[j]) = q[i].offset
                /\ Absent(t, q[i].channel) => q[i].offset = g[q[i].channel]
    <2>1. \A j \in 1..Len(t) : t[j].channel = q[i].channel => End(t[j]) = q[i].offset
      <3> SUFFICES ASSUME NEW j \in 1..Len(t), t[j].channel = q[i].channel
                   PROVE  End(t[j]) = q[i].offset
        BY Zenon
      <3>1. 2 \in 1..Len(b) /\ t[j] = b[2]
        BY <1>51, Zenon
      <3>2. \A x \in 1..Len(b) : b[x].channel = q[i].channel => End(b[x]) = q[i].offset
        BY <1>2, Zenon DEF Linked
      <3> QED BY <3>1, <3>2, Zenon
    <2>2. CASE q[i].channel = p.channel
      BY <1>6, <1>50, <2>1, <2>2, Zenon
    <2>3. CASE q[i].channel # p.channel
      <3>1. q[i].channel \in Channels
        <4>1. q[i] \in Pieces
          OBVIOUS
        <4> QED BY <4>1 DEF Pieces
      <3>2. g[q[i].channel] = h[q[i].channel]
        BY <1>5, <2>3, <3>1, Zenon
      <3>3. Absent(t, q[i].channel) => Absent(b, q[i].channel)
        BY <1>8, <2>3, <3>1, Zenon
      <3> QED BY <1>2, <2>1, <3>2, <3>3, Zenon DEF Linked
    <2> QED BY <2>2, <2>3, Zenon
  <1>12. ASSUME NEW c \in Channels, Absent(q, c), Absent(t, c) PROVE g[c] = size[c]
    <2>1. CASE c = p.channel
      BY <1>6, <1>12, <1>50, <2>1, Zenon
    <2>2. CASE c # p.channel
      <3>1. Absent(b, c) /\ g[c] = h[c]
        BY <1>5, <1>8, <1>12, <2>2, ZenonT(60)
      <3> QED BY <1>2, <1>12, <3>1, Zenon DEF Linked
    <2> QED BY <2>1, <2>2, Zenon
  <1>13. Linked(size, ends, q, t, g)
    BY <1>9, <1>10, <1>11, <1>12 DEF Linked
  <1> QED BY <1>1, <1>13 DEF Sound

-----------------------------------------------------------------------------
(* After the sink threw, what the client was given and what is pending no  *)
(* longer meet, but they would for some batch: pending ranges stay         *)
(* coalesced.                                                              *)
TextInv == \E b \in Seq(Pieces) : \E h \in Sizes :
    /\ Sound(out, b, h)
    /\ client # "gone" => b = batch /\ h = heard

ClientInv ==
    /\ client \in {"idle", "publish", "complete", "gone"}
    /\ done \in BOOLEAN /\ final \in BOOLEAN
    /\ batch # <<>> => client = "publish"
    /\ client = "complete" => final
    /\ final => done /\ out.pending = <<>>

LeaseInv ==
    /\ batch \in Seq(Pieces) /\ heard \in Sizes
    /\ leases \in Nat /\ Len(batch) <= leases /\ leases <= Slots

DeliveryInv == TextInv /\ ClientInv /\ LeaseInv

(* The invariant holds of a request nothing was generated for yet.         *)
LEMMA InitInv == DeliveryInit => DeliveryInv
  <1> SUFFICES ASSUME DeliveryInit PROVE DeliveryInv
    OBVIOUS
  <1>1. <<>> \in Seq(Pieces) /\ Len(<<>>) = 0
    OBVIOUS
  <1>2. [c \in Channels |-> 0] \in Sizes
    BY DEF Sizes
  <1>3. out \in Texts /\ ~out.thrown
    BY <1>1, <1>2 DEF DeliveryInit, Texts
  <1>4. out.size = [c \in Channels |-> 0] /\ out.ends = [c \in Channels |-> {}] /\ out.pending = <<>>
    BY DEF DeliveryInit
  <1>5. GoodText(out.size, out.ends, out.pending, out.content)
    BY <1>1, <1>4 DEF GoodText, Ordered, Channels
  <1>6. Linked(out.size, out.ends, out.pending, batch, heard)
    BY <1>1, <1>4 DEF DeliveryInit, Linked, Ordered
  <1>7. TextInv
    <2>1. batch \in Seq(Pieces) /\ heard \in Sizes /\ Sound(out, batch, heard)
      BY <1>1, <1>2, <1>3, <1>5, <1>6, Zenon DEF DeliveryInit, Sound
    <2> QED BY <2>1, Zenon DEF TextInv
  <1>8. ClientInv
    BY <1>4, Zenon DEF DeliveryInit, ClientInv
  <1>9. LeaseInv
    BY <1>1, <1>2, DeliveryAssumption DEF DeliveryInit, LeaseInv
  <1> QED BY <1>7, <1>8, <1>9 DEF DeliveryInv

(* emit keeps the invariant.                                               *)
LEMMA EmitInv == DeliveryInv /\ emit => DeliveryInv'
  <1> SUFFICES ASSUME DeliveryInv, emit PROVE DeliveryInv'
    OBVIOUS
  <1>1. PICK b \in Seq(Pieces), h \in Sizes :
            Sound(out, b, h) /\ (client # "gone" => b = batch /\ h = heard)
    BY Zenon DEF DeliveryInv, TextInv
  <1>2. PICK r \in Deltas, c \in Deltas :
            /\ ~done /\ (out.content => r.bytes = 0)
            /\ out' = Added(Added(out, "reasoning", r), "content", c)
            /\ UNCHANGED <<done, batch, leases, final, heard, client>>
    BY Zenon DEF emit
  <1>3. PICK o : o = Added(out, "reasoning", r)
    OBVIOUS
  <1>4. Sound(o, b, h)
    <2>1. "reasoning" \in Channels /\ ("reasoning" = "reasoning" /\ r.bytes # 0 => ~out.content)
      BY <1>2 DEF Channels
    <2> QED BY <1>1, <1>3, <2>1, AddedSound, Zenon
  <1>5. Sound(Added(o, "content", c), b, h)
    <2>1. "content" \in Channels /\ ("content" = "reasoning" /\ c.bytes # 0 => ~o.content)
      BY DEF Channels
    <2> QED BY <1>4, <2>1, AddedSound, Zenon
  <1>6. Sound(out', b, h)
    BY <1>2, <1>3, <1>5
  <1>7. TextInv'
    <2>1. client' = client /\ batch' = batch /\ heard' = heard
      BY <1>2
    <2> QED BY <1>1, <1>6, <2>1 DEF TextInv
  <1>8. ClientInv'
    BY <1>2 DEF DeliveryInv, ClientInv
  <1>9. LeaseInv'
    BY <1>2 DEF DeliveryInv, LeaseInv
  <1> QED BY <1>7, <1>8, <1>9 DEF DeliveryInv

(* poll keeps the invariant.                                               *)
LEMMA PollInv == DeliveryInv /\ poll => DeliveryInv'
  <1> SUFFICES ASSUME DeliveryInv, poll PROVE DeliveryInv'
    OBVIOUS
  <1>1. client = "idle" /\ batch = <<>>
    BY DEF poll, DeliveryInv, ClientInv
  <1>2. Sound(out, <<>>, heard) /\ heard \in Sizes /\ leases \in Nat /\ leases <= Slots
    BY <1>1 DEF DeliveryInv, TextInv, LeaseInv
  <1>3. PICK q \in Seq(Pieces), ends \in [Channels -> SUBSET Nat], size \in Sizes, content \in BOOLEAN :
            q = out.pending /\ ends = out.ends /\ size = out.size /\ content = out.content
    BY <1>2 DEF Sound, Texts
  <1>4. GoodText(size, ends, q, content) /\ Linked(size, ends, q, <<>>, heard) /\ out \in Texts /\ ~out.thrown
    BY <1>2, <1>3 DEF Sound
  <1>5. PICK k \in 0..Len(q), n \in 0..Limit :
            /\ Takes(k, n)
            /\ batch' = Taken(k, n)
            /\ leases' = leases + k
            /\ out' = [out EXCEPT !.pending = Remaining(k, n)]
            /\ final' = (done /\ Remaining(k, n) = <<>>)
            /\ client' = IF k > 0 \/ final' THEN "publish" ELSE "idle"
    BY <1>3 DEF poll
  <1>6. done' = done /\ heard' = heard
    BY DEF poll
  <1>7. /\ Taken(k, n) \in Seq(Pieces) /\ Len(Taken(k, n)) = k
        /\ Remaining(k, n) \in Seq(Pieces)
        /\ Split(ends, q, Taken(k, n), Remaining(k, n))
    <2>1. Ordered(q)
      BY <1>4 DEF GoodText
    <2> QED BY <1>2, <1>3, <1>5, <2>1, PollSplits
  <1>8. PICK b \in Seq(Pieces), r \in Seq(Pieces) : b = Taken(k, n) /\ r = Remaining(k, n)
    BY <1>7
  <1>9. GoodText(size, ends, r, content) /\ Linked(size, ends, r, b, heard)
    <2>1. Split(ends, q, b, r)
      BY <1>7, <1>8
    <2> QED BY <1>2, <1>4, <2>1, SplitKeeps, Zenon
  <1>10. /\ out' \in Texts /\ ~out'.thrown /\ out'.size = size /\ out'.ends = ends
         /\ out'.pending = r /\ out'.content = content
    BY <1>3, <1>4, <1>5, <1>8, ZenonT(60) DEF Texts
  <1>11. Sound(out', b, heard)
    BY <1>9, <1>10 DEF Sound
  <1>12. TextInv'
    <2>1. batch' = b /\ heard' = heard
      BY <1>5, <1>6, <1>8
    <2> QED BY <1>2, <1>11, <2>1 DEF TextInv
  <1>13. ClientInv'
    <2>1. final' \in BOOLEAN /\ done' \in BOOLEAN /\ client' \in {"publish", "idle"}
      BY <1>5, <1>6 DEF DeliveryInv, ClientInv
    <2>2. batch' # <<>> => client' = "publish"
      <3>1. k = 0 => batch' = <<>>
        BY <1>5, <1>7
      <3> QED BY <1>5, <3>1
    <2>3. final' => done' /\ out'.pending = <<>>
      BY <1>5, <1>6, <1>8, <1>10, Zenon
    <2> QED BY <2>1, <2>2, <2>3 DEF ClientInv
  <1>14. LeaseInv'
    <2>1. k \in Nat /\ Len(batch') = k /\ batch' \in Seq(Pieces) /\ leases' = leases + k
      BY <1>5, <1>7
    <2>2. k <= Slots - leases
      BY <1>5 DEF Takes
    <2> QED BY <1>2, <1>6, <2>1, <2>2, DeliveryAssumption DEF LeaseInv
  <1> QED BY <1>12, <1>13, <1>14 DEF DeliveryInv

(* publish keeps the invariant.                                            *)
LEMMA PublishInv == DeliveryInv /\ publish => DeliveryInv'
  <1> SUFFICES ASSUME DeliveryInv, publish PROVE DeliveryInv'
    OBVIOUS
  <1>1. /\ client = "publish" /\ batch # <<>> /\ batch \in Seq(Pieces) /\ heard \in Sizes
        /\ leases \in Nat /\ Len(batch) <= leases /\ leases <= Slots
    BY DEF publish, DeliveryInv, LeaseInv
  <1>2. Sound(out, batch, heard)
    BY <1>1 DEF DeliveryInv, TextInv
  <1>3. PICK p \in Pieces, t \in Seq(Pieces) : p = Head(batch) /\ t = Tail(batch)
    <2>1. Head(batch) \in Pieces /\ Tail(batch) \in Seq(Pieces)
      BY <1>1, HeadTailProperties
    <2> QED BY <2>1, Zenon
  <1>4. Cut(batch, p, t)
    BY <1>1, <1>3 DEF Cut
  <1>5. PICK g \in Sizes : g = [heard EXCEPT ![p.channel] = @ + p.bytes]
    <2>1. p.channel \in Channels /\ p.bytes \in Nat
      BY DEF Pieces
    <2>2. heard[p.channel] + p.bytes \in Nat
      BY <1>1, <2>1 DEF Sizes
    <2>3. [heard EXCEPT ![p.channel] = heard[p.channel] + p.bytes] \in Sizes
      BY <1>1, <2>2, Zenon DEF Sizes
    <2> QED BY <2>3
  <1>6. Sound(out, t, g)
    BY <1>1, <1>2, <1>4, <1>5, HeardSound, Zenon
  <1>7. PICK kept \in {0, 1} : leases' = leases - 1 + kept
    BY DEF publish
  <1>8. /\ heard' = g /\ batch' = t
        /\ out' = out /\ done' = done /\ final' = final /\ client' = client
    BY <1>3, <1>5 DEF publish
  <1>9. TextInv'
    BY <1>6, <1>8 DEF TextInv
  <1>10. ClientInv'
    BY <1>1, <1>8 DEF DeliveryInv, ClientInv
  <1>11. LeaseInv'
    <2>1. Len(t) = Len(batch) - 1 /\ Len(batch) \in Nat \ {0}
      BY <1>1, <1>3
    <2> QED BY <1>1, <1>7, <1>8, <2>1, DeliveryAssumption DEF LeaseInv
  <1> QED BY <1>9, <1>10, <1>11 DEF DeliveryInv

(* Every step of the lane, the client and the sink keeps the invariant.    *)
LEMMA DeliveryStep == DeliveryInv /\ [DeliveryNext]_deliveryVars => DeliveryInv'
  <1> SUFFICES ASSUME DeliveryInv, [DeliveryNext]_deliveryVars PROVE DeliveryInv'
    OBVIOUS
  <1>1. <<>> \in Seq(Pieces) /\ Len(<<>>) = 0
    OBVIOUS
  <1>2. CASE emit
    BY <1>2, EmitInv
  <1>3. CASE Finish
    <2>1. TextInv'
      BY <1>3 DEF Finish, DeliveryInv, TextInv
    <2>2. ClientInv'
      BY <1>3 DEF Finish, DeliveryInv, ClientInv
    <2>3. LeaseInv'
      BY <1>3 DEF Finish, DeliveryInv, LeaseInv
    <2> QED BY <2>1, <2>2, <2>3 DEF DeliveryInv
  <1>4. CASE poll
    BY <1>4, PollInv
  <1>5. CASE publish
    BY <1>5, PublishInv
  <1>6. CASE SinkThrows
    <2>1. TextInv'
      BY <1>6 DEF SinkThrows, DeliveryInv, TextInv
    <2>2. ClientInv'
      BY <1>6 DEF SinkThrows, DeliveryInv, ClientInv
    <2>3. LeaseInv'
      BY <1>1, <1>6, DeliveryAssumption DEF SinkThrows, DeliveryInv, LeaseInv
    <2> QED BY <2>1, <2>2, <2>3 DEF DeliveryInv
  <1>7. CASE LetGo
    <2>1. TextInv'
      BY <1>7 DEF LetGo, DeliveryInv, TextInv
    <2>2. ClientInv'
      BY <1>7 DEF LetGo, DeliveryInv, ClientInv
    <2>3. LeaseInv'
      BY <1>7, DeliveryAssumption DEF LetGo, DeliveryInv, LeaseInv
    <2> QED BY <2>1, <2>2, <2>3 DEF DeliveryInv
  <1>8. CASE PollReturns
    <2>1. TextInv'
      BY <1>8, Zenon DEF PollReturns, DeliveryInv, TextInv
    <2>2. ClientInv'
      BY <1>8 DEF PollReturns, DeliveryInv, ClientInv
    <2>3. LeaseInv'
      BY <1>8 DEF PollReturns, DeliveryInv, LeaseInv
    <2> QED BY <2>1, <2>2, <2>3 DEF DeliveryInv
  <1>9. CASE UNCHANGED deliveryVars
    BY <1>9 DEF deliveryVars, DeliveryInv, TextInv, ClientInv, LeaseInv
  <1> QED BY <1>2, <1>3, <1>4, <1>5, <1>6, <1>7, <1>8, <1>9 DEF DeliveryNext

(* The invariant of the delivery.                                          *)
LEMMA DeliveryInvariant == DeliverySpec => []DeliveryInv
  BY InitInv, DeliveryStep, PTL DEF DeliverySpec

(* emit never meets a third pending range, however late the client polls,  *)
(* whatever the deltas, the byte limit and the number of leases.           *)
THEOREM RangesSuffice == DeliverySpec => []TwoRangesSuffice
  <1>1. DeliveryInv => TwoRangesSuffice
    BY DEF DeliveryInv, TextInv, Sound, TwoRangesSuffice
  <1> QED BY <1>1, DeliveryInvariant, PTL

(* The sink is given the text in order, in whole characters, all of the    *)
(* reasoning before the content, and the whole of it before it is told     *)
(* that the request is complete.                                           *)
THEOREM Exactness == DeliverySpec => []DeliveredExactly
  <1>1. DeliveryInv => DeliveredExactly
    <2> SUFFICES ASSUME DeliveryInv PROVE DeliveredExactly
      OBVIOUS
    <2>1. PICK b \in Seq(Pieces), h \in Sizes :
              Sound(out, b, h) /\ (client # "gone" => b = batch /\ h = heard)
      BY Zenon DEF DeliveryInv, TextInv
    <2>2. Linked(out.size, out.ends, out.pending, b, h) /\ out \in Texts
      BY <2>1 DEF Sound
    <2>3. ASSUME batch # <<>>
          PROVE  LET d == Head(batch) IN
                 /\ d.offset = heard[d.channel]
                 /\ d.offset + d.bytes \in out.ends[d.channel]
                 /\ d.channel = "content" => heard["reasoning"] = out.size["reasoning"]
      <3>1. b = batch /\ h = heard
        BY <2>1, <2>3 DEF DeliveryInv, ClientInv
      <3>2. PICK d \in Pieces : d = Head(batch) /\ d = b[1] /\ 1 \in 1..Len(b)
        BY <2>3, <3>1, HeadTailProperties
      <3>3. d.offset = heard[d.channel] /\ d.offset + d.bytes \in out.ends[d.channel]
        BY <2>2, <3>1, <3>2, ZenonT(60) DEF Linked, End
      <3>4. ASSUME d.channel = "content" PROVE heard["reasoning"] = out.size["reasoning"]
        <4>1. Absent(out.pending, "reasoning")
          BY <2>2, <3>2, <3>4 DEF Linked
        <4>2. Absent(b, "reasoning")
          <5>1. Len(b) <= 2 /\ Len(b) # 2
            BY <2>2, <3>2, <3>4 DEF Linked, Ordered
          <5>2. PICK m \in Nat : m = Len(b)
            OBVIOUS
          <5>3. m = 1
            BY <3>2, <5>1, <5>2
          <5> QED BY <3>2, <3>4, <5>2, <5>3 DEF Absent
        <4> QED BY <2>2, <3>1, <4>1, <4>2, Zenon DEF Linked, Channels
      <3> QED BY <3>2, <3>3, <3>4
    <2>4. ASSUME client = "complete" PROVE heard = out.size
      <3>1. b = <<>> /\ h = heard /\ out.pending = <<>>
        BY <2>1, <2>4 DEF DeliveryInv, ClientInv
      <3>2. \A c \in Channels : h[c] = out.size[c]
        <4>1. \A c \in Channels : Absent(<<>>, c)
          BY DEF Absent
        <4> QED BY <2>2, <3>1, <4>1, Zenon DEF Linked
      <3>3. out.size \in Sizes
        BY <2>2 DEF Texts
      <3> QED BY <3>1, <3>2, <3>3 DEF Sizes
    <2> QED BY <2>3, <2>4 DEF DeliveredExactly
  <1> QED BY <1>1, DeliveryInvariant, PTL

(* No more than Slots pieces of the text are outside of the result, and    *)
(* every piece poll took and has yet to publish holds one of the leases.   *)
THEOREM LeaseBound == DeliverySpec => []LeasesBounded
  <1>1. DeliveryInv => LeasesBounded
    BY DeliveryAssumption DEF DeliveryInv, LeaseInv, LeasesBounded
  <1> QED BY <1>1, DeliveryInvariant, PTL
=============================================================================
