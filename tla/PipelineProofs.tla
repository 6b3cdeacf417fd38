---------------------------- MODULE PipelineProofs ----------------------------
(***************************************************************************)
(* Theorems about Pipeline, for any document, policy and file that changes *)
(* while it is read: a report says what left and whether it was changed,   *)
(* no reference is handed on that the policy acts against, an asset is of  *)
(* a kind that was asked for, and no budget of the scanners is evaded.     *)
(***************************************************************************)
EXTENDS Pipeline, SumProofs

-----------------------------------------------------------------------------
(* What FlattenSeq has built after each of its first m sequences.          *)
Flat(seqs, f, m) ==
  f = [i \in 1 .. m |-> IF i = 1 THEN seqs[i] ELSE f[i - 1] \o seqs[i]]

(* The sequences built up in this way exist.                               *)
LEMMA FlatExists ==
  ASSUME NEW seqs, NEW n \in Nat
  PROVE  \E f : Flat(seqs, f, n)
<1> DEFINE Good == {m \in Nat : \E f : Flat(seqs, f, m)}
<1>1. 0 \in Good
  <2>1. Flat(seqs, [i \in 1 .. 0 |-> seqs[i]], 0)
    BY DEF Flat
  <2> QED
    BY <2>1
<1>2. ASSUME NEW m \in Nat, m \in Good PROVE m + 1 \in Good
  <2>1. PICK f : Flat(seqs, f, m)
    BY <1>2
  <2> DEFINE Step(h, i) == IF i = 1 THEN seqs[i] ELSE h[i - 1] \o seqs[i]
             g == [i \in 1 .. m + 1 |-> Step(f, i)]
  <2>2. \A i \in 1 .. m : g[i] = f[i]
    <3>1. \A i \in 1 .. m : f[i] = Step(f, i)
      <4> DEFINE h == [i \in 1 .. m |-> Step(f, i)]
      <4>1. f = h
        BY <2>1 DEF Flat
      <4>2. \A i \in 1 .. m : h[i] = Step(f, i)
        OBVIOUS
      <4> HIDE DEF h, Step
      <4> QED
        BY <4>1, <4>2
    <3>2. \A i \in 1 .. m : g[i] = Step(f, i)
      <4> HIDE DEF Step
      <4> QED
        OBVIOUS
    <3> QED
      BY <3>1, <3>2
  <2>3. \A i \in 1 .. m + 1 : i # 1 => i - 1 \in 1 .. m
    OBVIOUS
  <2>4. \A i \in 1 .. m + 1 : Step(f, i) = Step(g, i)
    <3> HIDE DEF g
    <3> QED
      BY <2>2, <2>3
  <2>5. g = [i \in 1 .. m + 1 |-> Step(g, i)]
    <3> DEFINE h == [i \in 1 .. m + 1 |-> Step(g, i)]
    <3>1. h = [i \in 1 .. m + 1 |-> Step(f, i)]
      <4> HIDE DEF g
      <4> QED
        BY <2>4
    <3> QED
      BY <3>1
  <2>6. Flat(seqs, g, m + 1)
    BY <2>5 DEF Flat
  <2>7. m + 1 \in Nat
    OBVIOUS
  <2> HIDE DEF g
  <2> QED
    BY <2>6, <2>7
<1> HIDE DEF Good
<1>3. n \in Good
  BY <1>1, <1>2, NatSetInduction
<1> QED
  BY <1>3 DEF Good

(* FlattenSeq is the last of them.                                         *)
LEMMA FlattenUnfolds ==
  ASSUME NEW seqs, Len(seqs) \in Nat, Len(seqs) # 0
  PROVE  \E f : Flat(seqs, f, Len(seqs)) /\ FlattenSeq(seqs) = f[Len(seqs)]
<1> DEFINE n == Len(seqs)
           F == CHOOSE f : Flat(seqs, f, n)
<1>1. FlattenSeq(seqs) = F[n]
  BY DEF FlattenSeq, Flat
<1>2. Flat(seqs, F, n)
  BY FlatExists
<1> QED
  BY <1>1, <1>2

(* A sequence of sequences in a row: nothing is added to what they hold,   *)
(* and it is empty only if all of them are.                                *)
Rowed(seqs, row, m) ==
  /\ \A j \in DOMAIN row : \E i \in 1 .. m : \E k \in DOMAIN seqs[i] : row[j] = seqs[i][k]
  /\ row = <<>> => \A i \in 1 .. m : seqs[i] = <<>>

(* One more sequence added to a row.                                       *)
LEMMA RowedStep ==
  ASSUME NEW S, NEW seqs, NEW m \in Nat, NEW row \in Seq(S), Rowed(seqs, row, m),
         seqs[m + 1] \in Seq(S)
  PROVE  Rowed(seqs, row \o seqs[m + 1], m + 1)
<1> DEFINE last == seqs[m + 1]
           all == row \o last
<1>1. /\ \A j \in DOMAIN all : \/ j \in DOMAIN row /\ all[j] = row[j]
                               \/ j - Len(row) \in DOMAIN last /\ all[j] = last[j - Len(row)]
      /\ all = <<>> => row = <<>> /\ last = <<>>
  <2>1. last \in Seq(S)
    OBVIOUS
  <2> HIDE DEF last
  <2>2. /\ DOMAIN all = 1 .. Len(row) + Len(last)
        /\ DOMAIN row = 1 .. Len(row) /\ DOMAIN last = 1 .. Len(last)
        /\ Len(row) \in Nat /\ Len(last) \in Nat
    BY <2>1
  <2>3. \A j \in 1 .. Len(row) : all[j] = row[j]
    BY <2>1
  <2>4. \A j \in Len(row) + 1 .. Len(row) + Len(last) : all[j] = last[j - Len(row)]
    BY <2>1
  <2>5. \A j \in DOMAIN all : \/ j \in 1 .. Len(row)
                             \/ /\ j \in Len(row) + 1 .. Len(row) + Len(last)
                                /\ j - Len(row) \in 1 .. Len(last)
    BY <2>2
  <2>6. all = <<>> => row = <<>> /\ last = <<>>
    BY <2>1, <2>2
  <2> HIDE DEF all
  <2> QED
    BY <2>2, <2>3, <2>4, <2>5, <2>6
<1> HIDE DEF all
<1>2. \A i \in 1 .. m + 1 : i \in 1 .. m \/ i = m + 1
  OBVIOUS
<1>3. \A i \in 1 .. m : i \in 1 .. m + 1
  OBVIOUS
<1>4. m + 1 \in 1 .. m + 1
  OBVIOUS
<1>5. \A j \in DOMAIN all : \E i \in 1 .. m + 1 : \E k \in DOMAIN seqs[i] : all[j] = seqs[i][k]
  BY <1>1, <1>3, <1>4 DEF Rowed
<1>6. all = <<>> => \A i \in 1 .. m + 1 : seqs[i] = <<>>
  BY <1>1, <1>2 DEF Rowed
<1> QED
  BY <1>5, <1>6 DEF Rowed, all

(* FlattenSeq puts its sequences in a row.                                 *)
LEMMA FlattenFacts ==
  ASSUME NEW S, NEW seqs \in Seq(Seq(S))
  PROVE  FlattenSeq(seqs) \in Seq(S) /\ Rowed(seqs, FlattenSeq(seqs), Len(seqs))
<1>1. CASE seqs = <<>>
  <2>1. Len(seqs) = 0 /\ FlattenSeq(seqs) = <<>>
    BY <1>1 DEF FlattenSeq
  <2> QED
    BY <2>1 DEF Rowed
<1>2. CASE seqs # <<>>
  <2> DEFINE n == Len(seqs)
  <2>1. n \in Nat /\ n # 0 /\ 1 \in 1 .. n /\ \A i \in 1 .. n : seqs[i] \in Seq(S)
    BY <1>2
  <2>2. PICK f : Flat(seqs, f, n) /\ FlattenSeq(seqs) = f[n]
    BY <2>1, FlattenUnfolds
  <2> DEFINE Step(i) == IF i = 1 THEN seqs[i] ELSE f[i - 1] \o seqs[i]
             Good == {m \in Nat : m \in 1 .. n => f[m] \in Seq(S) /\ Rowed(seqs, f[m], m)}
  <2>3. \A i \in 1 .. n : f[i] = Step(i)
    <3> DEFINE h == [i \in 1 .. n |-> Step(i)]
    <3>1. f = h
      BY <2>2 DEF Flat
    <3>2. \A i \in 1 .. n : h[i] = Step(i)
      OBVIOUS
    <3> HIDE DEF h, Step
    <3> QED
      BY <3>1, <3>2
  <2>4. 0 \in Good
    OBVIOUS
  <2>5. ASSUME NEW m \in Nat, m \in Good PROVE m + 1 \in Good
    <3>1. SUFFICES ASSUME m + 1 \in 1 .. n
                   PROVE  f[m + 1] \in Seq(S) /\ Rowed(seqs, f[m + 1], m + 1)
      OBVIOUS
    <3>2. seqs[m + 1] \in Seq(S)
      BY <2>1, <3>1
    <3>3. CASE m = 0
      <4>1. f[1] = seqs[1]
        BY <2>1, <2>3
      <4>2. Rowed(seqs, seqs[1], 1)
        BY DEF Rowed
      <4> QED
        BY <3>2, <3>3, <4>1, <4>2
    <3>4. CASE m # 0
      <4>1. m \in 1 .. n /\ m + 1 # 1 /\ m + 1 - 1 = m
        BY <3>1, <3>4, <2>1
      <4>2. f[m + 1] = f[m] \o seqs[m + 1]
        <5> DEFINE i == m + 1
        <5>1. i \in 1 .. n /\ i # 1 /\ f[i - 1] = f[m]
          BY <3>1, <4>1
        <5> HIDE DEF i, n
        <5>2. f[i] = f[i - 1] \o seqs[i]
          BY <2>3, <5>1
        <5> QED
          BY <5>1, <5>2 DEF i
      <4>3. f[m] \in Seq(S) /\ Rowed(seqs, f[m], m)
        BY <2>5, <4>1
      <4>4. f[m] \o seqs[m + 1] \in Seq(S)
        BY <3>2, <4>3
      <4>5. Rowed(seqs, f[m] \o seqs[m + 1], m + 1)
        BY <3>2, <4>3, RowedStep
      <4> QED
        BY <4>2, <4>4, <4>5
    <3> QED
      BY <3>3, <3>4
  <2> HIDE DEF Good
  <2>6. n \in Good
    BY <2>1, <2>4, <2>5, NatSetInduction
  <2>7. n \in 1 .. n
    BY <2>1
  <2> QED
    BY <2>2, <2>6, <2>7 DEF Good
<1> QED
  BY <1>1, <1>2

(* Sequences of one element each, in a row, are those elements.            *)
LEMMA FlattenSingles ==
  ASSUME NEW S, NEW e \in Seq(S), NEW seqs, seqs = [i \in DOMAIN e |-> <<e[i]>>]
  PROVE  FlattenSeq(seqs) = e
<1> DEFINE n == Len(e)
<1>1. n \in Nat /\ DOMAIN e = 1 .. n /\ Len(seqs) = n /\ DOMAIN seqs = 1 .. n
  OBVIOUS
<1>2. CASE n = 0
  <2>1. e = <<>> /\ seqs = <<>>
    BY <1>1, <1>2
  <2> QED
    BY <2>1 DEF FlattenSeq
<1>3. CASE n # 0
  <2>1. PICK f : Flat(seqs, f, n) /\ FlattenSeq(seqs) = f[n]
    BY <1>1, <1>3, FlattenUnfolds
  <2> DEFINE Step(i) == IF i = 1 THEN seqs[i] ELSE f[i - 1] \o seqs[i]
             Good == {m \in Nat : m \in 1 .. n =>
                        /\ f[m] \in Seq(S) /\ Len(f[m]) = m
                        /\ \A j \in 1 .. m : f[m][j] = e[j]}
  <2>2. \A i \in 1 .. n : f[i] = Step(i)
    <3> DEFINE h == [i \in 1 .. n |-> Step(i)]
    <3>1. f = h
      BY <2>1 DEF Flat
    <3>2. \A i \in 1 .. n : h[i] = Step(i)
      OBVIOUS
    <3> HIDE DEF h, Step
    <3> QED
      BY <3>1, <3>2
  <2>3. 0 \in Good
    OBVIOUS
  <2>4. ASSUME NEW m \in Nat, m \in Good PROVE m + 1 \in Good
    <3> DEFINE i == m + 1
    <3>1. SUFFICES ASSUME i \in 1 .. n
                   PROVE  /\ f[i] \in Seq(S) /\ Len(f[i]) = i
                          /\ \A j \in 1 .. i : f[i][j] = e[j]
      OBVIOUS
    <3>2. seqs[i] = <<e[i]>> /\ e[i] \in S
      BY <1>1, <3>1
    <3>3. CASE m = 0
      <4>1. i = 1
        BY <3>3
      <4>2. f[i] = seqs[i]
        <5> HIDE DEF i
        <5> QED
          BY <2>2, <3>1, <4>1
      <4>3. f[i] = <<e[i]>> /\ e[i] \in S
        BY <3>2, <4>2
      <4>4. \A j \in 1 .. i : j = i
        BY <4>1
      <4> HIDE DEF i
      <4>5. f[i] \in Seq(S) /\ Len(f[i]) = 1 /\ f[i][1] = e[i]
        BY <4>3
      <4> QED
        BY <4>1, <4>4, <4>5
    <3>4. CASE m # 0
      <4>1. m \in 1 .. n /\ i # 1 /\ i - 1 = m
        BY <1>1, <3>1, <3>4
      <4>2. f[m] \in Seq(S) /\ Len(f[m]) = m /\ \A j \in 1 .. m : f[m][j] = e[j]
        BY <2>4, <4>1
      <4>3. f[i] = f[m] \o <<e[i]>>
        <5> HIDE DEF i
        <5>1. f[i] = f[i - 1] \o seqs[i]
          BY <2>2, <3>1, <4>1
        <5> QED
          BY <3>2, <4>1, <5>1
      <4>4. f[i] = Append(f[m], e[i])
        BY <3>2, <4>2, <4>3
      <4>5. f[i] \in Seq(S) /\ Len(f[i]) = i /\ f[i][i] = e[i]
        BY <3>2, <4>2, <4>4
      <4>6. \A j \in 1 .. m : f[i][j] = e[j]
        BY <3>2, <4>2, <4>4
      <4>7. \A j \in 1 .. i : j \in 1 .. m \/ j = i
        OBVIOUS
      <4> HIDE DEF i
      <4> QED
        BY <4>5, <4>6, <4>7
    <3> QED
      BY <3>3, <3>4
  <2> HIDE DEF Good
  <2>5. n \in Good
    BY <1>1, <2>3, <2>4, NatSetInduction
  <2>6. f[n] \in Seq(S) /\ Len(f[n]) = n /\ \A j \in 1 .. n : f[n][j] = e[j]
    BY <1>1, <1>3, <2>5 DEF Good
  <2> HIDE DEF Good, Step
  <2>7. f[n] = e
    BY <1>1, <2>6
  <2> QED
    BY <2>1, <2>7
<1> QED
  BY <1>2, <1>3

-----------------------------------------------------------------------------
(* Lists, whatever they are of.                                            *)
LEMMA ListSeq ==
  ASSUME NEW l, IsList(l)
  PROVE  l \in Seq(ToSet(l)) /\ DOMAIN l = 1 .. Len(l)
<1>1. DOMAIN l = 1 .. Len(l)
  BY DEF IsList, HasParts
<1>2. \A i \in 1 .. Len(l) : l[i] \in ToSet(l)
  BY <1>1 DEF ToSet
<1> QED
  BY <1>1, <1>2 DEF IsList, HasParts

(* A sequence is a list.                                                   *)
LEMMA SeqList ==
  ASSUME NEW S, NEW l \in Seq(S)
  PROVE  IsList(l)
BY DEF IsList, HasParts

(* Two lists make one, which is empty only if both are.                    *)
LEMMA ListAppend ==
  ASSUME NEW l, NEW m, IsList(l), IsList(m)
  PROVE  IsList(l \o m) /\ (l \o m = <<>> => l = <<>> /\ m = <<>>)
<1> DEFINE S == ToSet(l) \cup ToSet(m)
<1>1. l \in Seq(ToSet(l)) /\ m \in Seq(ToSet(m))
  BY ListSeq
<1>2. l \in Seq(S) /\ m \in Seq(S)
  BY <1>1
<1> HIDE DEF S
<1>3. l \o m \in Seq(S) /\ Len(l \o m) = Len(l) + Len(m)
  BY <1>2
<1>4. l \o m = <<>> => l = <<>> /\ m = <<>>
  BY <1>2, <1>3
<1> QED
  BY <1>3, <1>4, SeqList

(* So do any number of them.                                               *)
LEMMA ListFlatten ==
  ASSUME NEW lists, IsList(lists), \A i \in DOMAIN lists : IsList(lists[i])
  PROVE  IsList(FlattenSeq(lists)) /\ Rowed(lists, FlattenSeq(lists), Len(lists))
<1> DEFINE S == UNION {ToSet(lists[i]) : i \in DOMAIN lists}
<1>1. \A i \in DOMAIN lists : lists[i] \in Seq(S)
  <2>1. SUFFICES ASSUME NEW i \in DOMAIN lists PROVE lists[i] \in Seq(S)
    OBVIOUS
  <2>2. lists[i] \in Seq(ToSet(lists[i]))
    BY ListSeq
  <2>3. ToSet(lists[i]) \subseteq S
    OBVIOUS
  <2> HIDE DEF S
  <2> QED
    BY <2>2, <2>3
<1> HIDE DEF S
<1>2. lists \in Seq(Seq(S))
  BY <1>1 DEF IsList, HasParts
<1> QED
  BY <1>2, FlattenFacts, SeqList

-----------------------------------------------------------------------------
(* The HTML pass.  An element that was cleaned still has the parts of one. *)
Whole(el) ==
  /\ HasParts(el, {"tag", "attrs", "handlers", "refresh", "sheet", "srcset"})
  /\ HasParts(el.attrs, DOMAIN el.attrs)
  /\ IsList(el.srcset)

(* The attributes that may hold a URL.                                     *)
LEMMA UrlAttributesAre ==
  /\ DOMAIN UrlAttributes = 1 .. 6
  /\ \A i \in 1 .. 6 : UrlAttributes[i] \in ToSet(UrlAttributes)
  /\ \A n \in ToSet(UrlAttributes) : \E i \in 1 .. 6 : UrlAttributes[i] = n
  /\ {"href", "src"} \subseteq ToSet(UrlAttributes)
<1>1. DOMAIN UrlAttributes = 1 .. 6 /\ UrlAttributes[1] = "href" /\ UrlAttributes[2] = "src"
  BY DEF UrlAttributes
<1> QED
  BY <1>1 DEF ToSet

(* What one pass over the attributes leaves: where it reports nothing it   *)
(* changed nothing, and an attribute that stays is as the rule allows it,  *)
(* or says the target.                                                     *)
LEMMA SweepFacts ==
  ASSUME NEW done, NEW fired, NEW target, IsList(done.actions), Whole(done.el),
         DOMAIN fired = UrlNames(done.el)
  PROVE  LET out == Sweep(done, fired, target) IN
         /\ IsList(out.actions) /\ Whole(out.el)
         /\ out.el.tag = done.el.tag
         /\ out.actions = <<>> =>
              /\ done.actions = <<>> /\ out.el = done.el
              /\ out.refused => done.refused
         /\ \A n \in DOMAIN out.el.attrs :
              /\ n \in DOMAIN done.el.attrs
              /\ n \in ToSet(UrlAttributes) =>
                   \/ /\ out.el.attrs[n] = done.el.attrs[n]
                      /\ fired[n] = NoFire \/ fired[n].action = "Allow"
                   \/ out.el.attrs[n] = target[n]
<1> DEFINE el == done.el
           attrs == el.attrs
           out == Sweep(done, fired, target)
           hit == {n \in DOMAIN fired : fired[n] # NoFire}
           Hit(action) == {n \in hit : fired[n].action = action}
           lists == [i \in DOMAIN UrlAttributes |->
                       IF UrlAttributes[i] \in hit THEN <<fired[UrlAttributes[i]]>> ELSE <<>>]
           left == [n \in DOMAIN attrs \ Hit("Remove") |->
                      IF n \in hit \ Hit("Allow") THEN target[n] ELSE attrs[n]]
<1>1. /\ out.el = [el EXCEPT !.attrs = left]
      /\ out.actions = done.actions \o FlattenSeq(lists)
      /\ out.refused <=> done.refused \/ Hit("Refuse") # {}
  BY DEF Sweep, Each
<1>2. DOMAIN fired = UrlNames(el)
  OBVIOUS
<1>3. UrlNames(el) = {n \in ToSet(UrlAttributes) : n \in DOMAIN attrs}
  BY DEF UrlNames, HasAttr
<1> HIDE DEF out, lists
<1>4. /\ IsList(lists) /\ Len(lists) = 6 /\ DOMAIN lists = 1 .. 6
      /\ \A i \in 1 .. 6 : IsList(lists[i])
      /\ \A i \in 1 .. 6 : UrlAttributes[i] \in hit => lists[i] # <<>>
  <2>1. DOMAIN lists = 1 .. 6 /\ IsList(lists) /\ Len(lists) = 6
    BY UrlAttributesAre DEF lists, IsList, HasParts
  <2>2. \A x : IsList(<<x>>) /\ IsList(<<>>) /\ <<x>> # <<>>
    BY DEF IsList, HasParts
  <2>3. \A i \in 1 .. 6 : lists[i] = IF UrlAttributes[i] \in hit
                                     THEN <<fired[UrlAttributes[i]]>> ELSE <<>>
    BY UrlAttributesAre DEF lists
  <2> HIDE DEF hit
  <2> QED
    BY <2>1, <2>2, <2>3
<1>5. IsList(out.actions)
      /\ (out.actions = <<>> => done.actions = <<>> /\ FlattenSeq(lists) = <<>>)
  <2>1. IsList(FlattenSeq(lists))
    BY <1>4, ListFlatten
  <2> QED
    BY <1>1, <2>1, ListAppend
<1>6. out.actions = <<>> => hit = {}
  <2>1. SUFFICES ASSUME FlattenSeq(lists) = <<>>, NEW n \in hit PROVE FALSE
    BY <1>5
  <2>2. \A i \in 1 .. 6 : lists[i] = <<>>
    BY <1>4, <2>1, ListFlatten DEF Rowed
  <2>3. PICK i \in 1 .. 6 : UrlAttributes[i] = n
    BY <1>2, <1>3, <2>1, UrlAttributesAre
  <2> QED
    BY <1>4, <2>1, <2>2, <2>3
<1>7. /\ out.el.attrs = left
      /\ out.el.srcset = el.srcset /\ out.el.tag = el.tag
      /\ HasParts(out.el, {"tag", "attrs", "handlers", "refresh", "sheet", "srcset"})
  <2> HIDE DEF left
  <2> QED
    BY <1>1 DEF Whole, HasParts
<1>8. Whole(out.el)
  <2>1. HasParts(left, DOMAIN left)
    BY DEF HasParts
  <2> HIDE DEF left
  <2> QED
    BY <1>7, <2>1 DEF Whole
<1>9. hit = {} => out.el = el /\ (out.refused => done.refused)
  <2>1. SUFFICES ASSUME hit = {} PROVE out.el = el /\ (out.refused => done.refused)
    OBVIOUS
  <2>2. left = [n \in DOMAIN attrs |-> attrs[n]]
    BY <2>1
  <2>3. left = attrs
    BY <2>2 DEF Whole, HasParts
  <2> HIDE DEF left
  <2>4. out.el = el
    BY <1>1, <2>3 DEF Whole, HasParts
  <2> QED
    BY <1>1, <2>1, <2>4
<1>10. ASSUME NEW n \in DOMAIN left
       PROVE  /\ n \in DOMAIN attrs
              /\ n \in ToSet(UrlAttributes) =>
                   \/ /\ left[n] = attrs[n]
                      /\ fired[n] = NoFire \/ fired[n].action = "Allow"
                   \/ left[n] = target[n]
  BY <1>2, <1>3, <1>10
<1> HIDE DEF left, hit
<1> QED
  BY <1>5, <1>6, <1>7, <1>8, <1>9, <1>10 DEF out

(* Cleaning an element.  What is not reported was not changed; and of what *)
(* is left no URL is one the policy acts against.                          *)
Passing(value, rules, urls) ==
  value \notin OwnText(urls) =>
    /\ rules.scheme # "Allow" => ~Dangerous(value)
    /\ UrlRule(value, urls) = NoFire \/ UrlRule(value, urls).action = "Allow"

Cleaned(el, rules, urls) ==
  UrlChecks(NeutraliseDangerousSchemes(
              StripEventHandlers([el |-> el, actions |-> <<>>, refused |-> FALSE], rules),
              rules, urls), urls)

(* What is neither dangerous nor to be rewritten passes under every policy. *)
LEMMA SettledPasses ==
  ASSUME NEW value, NEW rules, NEW urls,
         value.label \in {"clean", "idn"}, value.canonical = NoValue,
         rules.scheme # "Allow" => ~Dangerous(value)
  PROVE  Passing(value, rules, urls)
<1>1. value.label = "clean" \/ value.label = "idn"
  OBVIOUS
<1>2. CASE value.label = "clean"
  <2>1. UrlRule(value, urls) = NoFire
    BY <1>1, <1>2 DEF UrlRule
  <2> QED
    BY <1>1, <2>1 DEF Passing
<1>3. CASE value.label = "idn"
  <2>1. UrlRule(value, urls) = Action("url.idn", "Allow")
    BY <1>1, <1>3 DEF UrlRule
  <2> QED
    BY <1>1, <2>1 DEF Passing, Action
<1> QED
  BY <1>1, <1>2, <1>3

(* Stripping handlers changes nothing that it does not report.             *)
LEMMA StripFacts ==
  ASSUME NEW el, NEW rules, Element(el)
  PROVE  LET out == StripEventHandlers([el |-> el, actions |-> <<>>, refused |-> FALSE], rules) IN
         /\ IsList(out.actions) /\ Whole(out.el)
         /\ out.el.tag = el.tag /\ out.el.attrs = el.attrs
         /\ out.actions = <<>> => out.el = el /\ ~out.refused
<1> DEFINE out == StripEventHandlers([el |-> el, actions |-> <<>>, refused |-> FALSE], rules)
           reports == [i \in 1 .. Cardinality(el.handlers) |->
                         Action("html.attr.event_handler", rules.handler)]
<1>1. Whole(el) /\ IsFiniteSet(el.handlers) /\ Cardinality(el.handlers) \in Nat
  BY FS_CardinalityType DEF Whole, Element
<1>2. IsList(<<>>)
  BY DEF IsList, HasParts
<1>3. CASE rules.handler = "Allow"
  <2>1. out.el = el /\ out.actions = <<>> /\ ~out.refused
    BY <1>3 DEF StripEventHandlers
  <2> HIDE DEF out
  <2> QED
    BY <1>1, <1>2, <2>1 DEF out
<1>4. CASE rules.handler # "Allow"
  <2>1. /\ out.el = [el EXCEPT !.handlers = {}]
        /\ out.actions = <<>> \o reports
        /\ out.refused <=> rules.handler = "Refuse" /\ el.handlers # {}
    BY <1>4 DEF StripEventHandlers
  <2>2. IsList(reports) /\ (reports = <<>> => el.handlers = {})
    <3>1. Len(reports) = Cardinality(el.handlers) /\ IsList(reports)
      BY <1>1 DEF IsList, HasParts
    <3>2. Cardinality(el.handlers) = 0 => el.handlers = {}
      BY <1>1, FS_EmptySet
    <3> HIDE DEF reports
    <3> QED
      BY <3>1, <3>2
  <2> HIDE DEF out, reports
  <2>3. IsList(out.actions) /\ (out.actions = <<>> => el.handlers = {})
    BY <1>2, <2>1, <2>2, ListAppend
  <2>4. /\ out.el.tag = el.tag /\ out.el.attrs = el.attrs /\ Whole(out.el)
        /\ el.handlers = {} => out.el = el
    BY <1>1, <2>1 DEF Whole, HasParts
  <2> QED
    BY <2>1, <2>3, <2>4 DEF out
<1> QED
  BY <1>3, <1>4

(* The three passes over an element, one after the other.                  *)
LEMMA CleanedFacts ==
  ASSUME NEW el, NEW rules, NEW urls, Element(el), Settles(urls.placeholder)
  PROVE  LET out == Cleaned(el, rules, urls) IN
         /\ IsList(out.actions) /\ Whole(out.el)
         /\ out.actions = <<>> => out.el = el /\ ~out.refused
         /\ \A n \in DOMAIN out.el.attrs :
              n \in ToSet(UrlAttributes) => Passing(out.el.attrs[n], rules, urls)
<1> DEFINE quiet == StripEventHandlers([el |-> el, actions |-> <<>>, refused |-> FALSE], rules)
           fired == [n \in UrlNames(quiet.el) |-> SchemeRule(quiet.el.attrs[n], rules)]
           blank == [n \in UrlNames(quiet.el) |-> urls.placeholder]
           mid == Sweep(quiet, fired, blank)
           judged == [n \in UrlNames(mid.el) |-> UrlRule(mid.el.attrs[n], urls)]
           target == [n \in UrlNames(mid.el) |-> UrlTarget(mid.el.attrs[n], urls)]
           out == Sweep(mid, judged, target)
           names == ToSet(UrlAttributes)
<1>1. Cleaned(el, rules, urls) = out
  BY DEF Cleaned, NeutraliseDangerousSchemes, UrlChecks
<1>2. /\ IsList(quiet.actions) /\ Whole(quiet.el)
      /\ quiet.el.attrs = el.attrs
      /\ quiet.actions = <<>> => quiet.el = el /\ ~quiet.refused
  BY StripFacts
<1>3. \A n \in DOMAIN quiet.el.attrs : n \in names => n \in UrlNames(quiet.el)
  BY DEF UrlNames, HasAttr
<1>4. DOMAIN fired = UrlNames(quiet.el)
  OBVIOUS
<1> HIDE DEF quiet
<1>5. /\ \A n \in UrlNames(quiet.el) : fired[n] = SchemeRule(quiet.el.attrs[n], rules)
      /\ \A n \in UrlNames(quiet.el) : blank[n] = urls.placeholder
  OBVIOUS
<1> HIDE DEF fired, blank
<1>6. /\ IsList(mid.actions) /\ Whole(mid.el)
      /\ mid.actions = <<>> =>
           /\ quiet.actions = <<>> /\ mid.el = quiet.el
           /\ mid.refused => quiet.refused
      /\ \A n \in DOMAIN mid.el.attrs :
           /\ n \in DOMAIN quiet.el.attrs
           /\ n \in names =>
                \/ /\ mid.el.attrs[n] = quiet.el.attrs[n]
                   /\ fired[n] = NoFire \/ fired[n].action = "Allow"
                \/ mid.el.attrs[n] = blank[n]
  BY <1>2, <1>4, SweepFacts
<1> HIDE DEF mid
<1>7. ASSUME NEW n \in DOMAIN mid.el.attrs, n \in names
      PROVE  LET value == mid.el.attrs[n] IN
             /\ Settles(value)
             /\ rules.scheme # "Allow" /\ value # urls.placeholder => ~Dangerous(value)
  <2> DEFINE value == mid.el.attrs[n]
  <2>1. n \in UrlNames(quiet.el) /\ n \in DOMAIN el.attrs
    BY <1>2, <1>3, <1>6, <1>7
  <2>2. CASE value = urls.placeholder
    BY <2>2
  <2>3. CASE /\ value = el.attrs[n]
             /\ fired[n] = NoFire \/ fired[n].action = "Allow"
    <3>1. fired[n] = SchemeRule(value, rules)
      BY <1>2, <1>5, <2>1, <2>3
    <3>2. rules.scheme # "Allow" => ~Dangerous(value)
      BY <2>3, <3>1 DEF SchemeRule, Action, NoFire
    <3>3. Settles(value)
      BY <2>1, <2>3 DEF Element
    <3> QED
      BY <3>2, <3>3
  <2> QED
    BY <1>2, <1>5, <1>6, <1>7, <2>1, <2>2, <2>3
<1>8. DOMAIN judged = UrlNames(mid.el)
  OBVIOUS
<1>9. \A n \in DOMAIN mid.el.attrs : n \in names =>
        /\ judged[n] = UrlRule(mid.el.attrs[n], urls)
        /\ target[n] = UrlTarget(mid.el.attrs[n], urls)
  BY DEF UrlNames, HasAttr
<1> HIDE DEF judged, target
<1>10. /\ IsList(out.actions) /\ Whole(out.el)
       /\ out.actions = <<>> =>
            /\ mid.actions = <<>> /\ out.el = mid.el
            /\ out.refused => mid.refused
       /\ \A n \in DOMAIN out.el.attrs :
            /\ n \in DOMAIN mid.el.attrs
            /\ n \in names =>
                 \/ /\ out.el.attrs[n] = mid.el.attrs[n]
                    /\ judged[n] = NoFire \/ judged[n].action = "Allow"
                 \/ out.el.attrs[n] = target[n]
  BY <1>6, <1>8, SweepFacts
<1> HIDE DEF out
<1>11. ASSUME NEW n \in DOMAIN out.el.attrs, n \in names
       PROVE  Passing(out.el.attrs[n], rules, urls)
  <2> DEFINE value == mid.el.attrs[n]
  <2>1. n \in DOMAIN mid.el.attrs
    BY <1>10, <1>11
  <2>2. /\ Settles(value)
        /\ rules.scheme # "Allow" /\ value # urls.placeholder => ~Dangerous(value)
    BY <1>7, <1>11, <2>1
  <2>3. judged[n] = UrlRule(value, urls) /\ target[n] = UrlTarget(value, urls)
    BY <1>9, <1>11, <2>1
  <2>4. CASE out.el.attrs[n] = value /\ (judged[n] = NoFire \/ judged[n].action = "Allow")
    BY <2>2, <2>3, <2>4 DEF Passing, OwnText
  <2>5. CASE out.el.attrs[n] = target[n]
    <3>1. CASE target[n] \in OwnText(urls)
      BY <2>5, <3>1 DEF Passing
    <3>2. CASE target[n] \notin OwnText(urls)
      <4>1. /\ target[n] = value.canonical /\ value.canonical # NoValue
            /\ value # urls.placeholder
        BY <2>3, <3>2 DEF UrlTarget, OwnText
      <4>2. /\ target[n].label \in {"clean", "idn"} /\ target[n].canonical = NoValue
            /\ rules.scheme # "Allow" => ~Dangerous(target[n])
        BY <2>2, <4>1 DEF Settles
      <4> QED
        BY <2>5, <4>2, SettledPasses
    <3> QED
      BY <3>1, <3>2
  <2> QED
    BY <1>10, <1>11, <2>4, <2>5
<1>12. out.actions = <<>> => out.el = el /\ ~out.refused
  BY <1>2, <1>6, <1>10, Zenon
<1> QED
  BY <1>1, <1>10, <1>11, <1>12

(* What a handler leaves of an element, and what is referred to by it.     *)
Harmless(el, rules, urls) ==
  /\ Whole(el)
  /\ \A n \in DOMAIN el.attrs : n \in ToSet(UrlAttributes) => Passing(el.attrs[n], rules, urls)

(* Handling an element, consumed or cleaned.                               *)
LEMMA HandleFacts ==
  ASSUME NEW el, NEW rules, NEW urls, Element(el), Settles(urls.placeholder)
  PROVE  LET h == Handle(el, rules, urls) IN
         /\ IsList(h.left) /\ IsList(h.actions)
         /\ h.actions = <<>> => h.left = <<el>> /\ ~h.refused
         /\ \A i \in DOMAIN h.left : Harmless(h.left[i], rules, urls)
<1> DEFINE h == Handle(el, rules, urls)
           fired == ElementRule(el, rules)
           out == Cleaned(el, rules, urls)
<1>1. \A x : IsList(<<x>>) /\ IsList(<<>>) /\ <<x>> # <<>>
  BY DEF IsList, HasParts
<1>2. Harmless(Div, rules, urls)
  <2>1. Div.attrs = <<>> /\ Div.srcset = <<>> /\ DOMAIN Div.attrs = {}
    BY DEF Div
  <2>2. HasParts(Div, {"tag", "attrs", "handlers", "refresh", "sheet", "srcset"})
    BY DEF Div, HasParts
  <2>3. HasParts(Div.attrs, DOMAIN Div.attrs)
    BY <2>1 DEF HasParts
  <2> QED
    BY <1>1, <2>1, <2>2, <2>3 DEF Harmless, Whole
<1>3. CASE fired # NoFire
  <2>1. h = Consumed(fired)
    BY <1>3 DEF Handle
  <2>2. /\ h.left = <<Div>> \/ h.left = <<>>
        /\ h.actions = <<fired>>
    BY <2>1 DEF Consumed
  <2>3. \A i \in DOMAIN h.left : h.left[i] = Div
    <3> HIDE DEF h
    <3> QED
      BY <2>2
  <2> HIDE DEF h, fired
  <2>4. IsList(h.left) /\ IsList(h.actions) /\ h.actions # <<>>
    BY <1>1, <2>2
  <2> QED
    BY <1>2, <2>3, <2>4 DEF h
<1>4. CASE fired = NoFire
  <2>1. /\ h.left = <<out.el>>
        /\ h.actions = out.actions
        /\ h.refused = out.refused
    BY <1>4 DEF Handle, Cleaned
  <2>2. /\ IsList(out.actions) /\ Harmless(out.el, rules, urls)
        /\ out.actions = <<>> => out.el = el /\ ~out.refused
    BY CleanedFacts DEF Harmless
  <2>3. \A i \in DOMAIN h.left : h.left[i] = out.el
    <3> HIDE DEF h, out
    <3> QED
      BY <2>1
  <2> HIDE DEF h, fired, out
  <2>4. IsList(h.left) /\ IsList(h.actions)
    BY <1>1, <2>1, <2>2
  <2>5. h.actions = <<>> => h.left = <<el>> /\ ~h.refused
    BY <2>1, <2>2
  <2> QED
    BY <2>2, <2>3, <2>4, <2>5 DEF h
<1> QED
  BY <1>3, <1>4

(* What a harmless element refers to may be fetched.                       *)
LEMMA ReferencesFacts ==
  ASSUME NEW el, NEW rules, NEW urls, Harmless(el, rules, urls)
  PROVE  /\ IsList(References(el))
         /\ \A i \in DOMAIN References(el) :
              LET ref == References(el)[i] IN
              ref.from # "srcset" => Passing(ref.raw, rules, urls)
<1> DEFINE Fine(refs) == /\ IsList(refs)
                         /\ \A i \in DOMAIN refs :
                              refs[i].from # "srcset" => Passing(refs[i].raw, rules, urls)
<1>1. \A x : IsList(<<x>>) /\ DOMAIN <<x>> = {1} /\ <<x>>[1] = x
  BY DEF IsList, HasParts
<1>2. Fine(<<>>)
  <2>1. IsList(<<>>) /\ DOMAIN <<>> = {}
    BY DEF IsList, HasParts
  <2> QED
    BY <2>1
<1>3. ASSUME NEW name \in {"href", "src"}, NEW kind
      PROVE  Fine(Referring(el, name, kind))
  <2>1. CASE ~(HasAttr(el, name) /\ el.attrs[name].text # "")
    <3>1. Referring(el, name, kind) = <<>>
      BY <2>1 DEF Referring
    <3> HIDE DEF Fine
    <3> QED
      BY <1>2, <3>1
  <2>2. CASE HasAttr(el, name) /\ el.attrs[name].text # ""
    <3> DEFINE ref == [raw |-> el.attrs[name], kind |-> kind, from |-> name]
    <3>1. Referring(el, name, kind) = <<ref>>
      BY <2>2 DEF Referring
    <3>2. Passing(ref.raw, rules, urls)
      BY <2>2, UrlAttributesAre DEF Harmless, HasAttr
    <3> HIDE DEF ref
    <3> QED
      BY <1>1, <3>1, <3>2
  <2> QED
    BY <2>1, <2>2
<1>4. Fine(SrcsetUrls(el))
  <2>1. /\ DOMAIN SrcsetUrls(el) = 1 .. Len(el.srcset) /\ Len(el.srcset) \in Nat
        /\ \A i \in DOMAIN SrcsetUrls(el) : SrcsetUrls(el)[i].from = "srcset"
    BY ListSeq DEF Harmless, Whole, SrcsetUrls, IsList
  <2>2. IsList(SrcsetUrls(el))
    <3>1. DOMAIN el.srcset = 1 .. Len(el.srcset) /\ Len(el.srcset) \in Nat
      BY ListSeq DEF Harmless, Whole, IsList
    <3> QED
      BY <3>1 DEF SrcsetUrls, IsList, HasParts
  <2> QED
    BY <2>1, <2>2
<1>5. ASSUME NEW r, NEW q, Fine(r), Fine(q) PROVE Fine(r \o q)
  <2>1. IsList(r \o q) /\ r \in Seq(ToSet(r)) /\ q \in Seq(ToSet(q))
    BY <1>5, ListSeq, ListAppend
  <2>2. ASSUME NEW i \in DOMAIN (r \o q)
        PROVE  \/ i \in DOMAIN r /\ (r \o q)[i] = r[i]
               \/ i - Len(r) \in DOMAIN q /\ (r \o q)[i] = q[i - Len(r)]
    <3> DEFINE S == ToSet(r) \cup ToSet(q)
    <3>1. r \in Seq(S) /\ q \in Seq(S)
      BY <2>1
    <3> HIDE DEF S
    <3> QED
      BY <3>1, <2>2
  <2> QED
    BY <1>5, <2>1, <2>2
<1> HIDE DEF Fine
<1>6. Fine(References(el))
  <2>1. CASE el.tag = "link" /\ el.sheet
    BY <1>3, <2>1 DEF References
  <2>2. CASE el.tag = "script"
    BY <1>3, <2>2 DEF References
  <2>3. CASE el.tag = "img"
    BY <1>3, <2>3 DEF References
  <2>4. CASE el.tag = "source"
    <3>1. References(el) = Referring(el, "src", "image") \o SrcsetUrls(el)
      BY <2>4 DEF References
    <3>2. Fine(Referring(el, "src", "image"))
      BY <1>3
    <3>3. Fine(Referring(el, "src", "image") \o SrcsetUrls(el))
      BY <1>4, <1>5, <3>2
    <3> QED
      BY <3>1, <3>3
  <2>5. CASE ~(el.tag = "link" /\ el.sheet) /\ el.tag \notin {"script", "img", "source"}
    <3>1. References(el) = <<>>
      BY <2>5 DEF References
    <3> QED
      BY <1>2, <3>1
  <2> QED
    BY <2>1, <2>2, <2>3, <2>4, <2>5
<1> QED
  BY <1>6 DEF Fine

(* A document nothing was reported of is as it came, and what it refers to *)
(* the policy lets pass.                                                   *)
LEMMA SanitizeFacts ==
  ASSUME NEW elements, NEW broken, NEW rules, NEW urls,
         IsList(elements), \A i \in DOMAIN elements : Element(elements[i]),
         Settles(urls.placeholder)
  PROVE  LET html == SanitizeHtml(elements, broken, rules, urls) IN
         /\ IsList(html.actions) /\ IsList(html.references)
         /\ html.actions = <<>> /\ ~html.refused => html.output = elements
         /\ \A i \in DOMAIN html.references :
              LET ref == html.references[i] IN
              ref.from # "srcset" => Passing(ref.raw, rules, urls)
<1> DEFINE html == SanitizeHtml(elements, broken, rules, urls)
           done == [i \in DOMAIN elements |-> Handle(elements[i], rules, urls)]
           lefts == [i \in DOMAIN done |-> done[i].left]
           reports == [i \in DOMAIN done |-> done[i].actions]
           left == IF broken THEN <<>> ELSE FlattenSeq(lefts)
           refs == [i \in DOMAIN left |-> References(left[i])]
<1>1. /\ html.output = left
      /\ html.actions = FlattenSeq(reports)
      /\ html.refused <=> broken \/ \E i \in DOMAIN done : done[i].refused
      /\ html.references = FlattenSeq(refs)
  BY DEF SanitizeHtml, Gather, Each
<1>2. /\ DOMAIN elements = 1 .. Len(elements) /\ Len(elements) \in Nat
      /\ elements \in Seq(ToSet(elements))
  BY ListSeq DEF IsList
<1>3. \A i \in DOMAIN elements :
        /\ IsList(done[i].left) /\ IsList(done[i].actions)
        /\ done[i].actions = <<>> => done[i].left = <<elements[i]>> /\ ~done[i].refused
        /\ \A j \in DOMAIN done[i].left : Harmless(done[i].left[j], rules, urls)
  BY HandleFacts
<1>4. DOMAIN done = DOMAIN elements
  OBVIOUS
<1> HIDE DEF html, done
<1>5. /\ IsList(lefts) /\ DOMAIN lefts = DOMAIN elements
      /\ IsList(reports) /\ DOMAIN reports = DOMAIN elements
      /\ Len(lefts) = Len(elements) /\ Len(reports) = Len(elements)
  BY <1>2, <1>4 DEF IsList, HasParts
<1>6. \A i \in DOMAIN elements : lefts[i] = done[i].left /\ reports[i] = done[i].actions
  BY <1>4
<1>7. lefts = [i \in DOMAIN elements |-> lefts[i]]
  BY <1>4
<1> HIDE DEF lefts, reports
<1>8. /\ IsList(FlattenSeq(reports)) /\ Rowed(reports, FlattenSeq(reports), Len(reports))
      /\ IsList(FlattenSeq(lefts)) /\ Rowed(lefts, FlattenSeq(lefts), Len(lefts))
  BY <1>3, <1>5, <1>6, ListFlatten
<1>9. /\ IsList(left)
      /\ \A j \in DOMAIN left : Harmless(left[j], rules, urls)
  <2>1. CASE broken
    <3>1. left = <<>>
      BY <2>1
    <3>2. IsList(<<>>) /\ DOMAIN <<>> = {}
      BY DEF IsList, HasParts
    <3> HIDE DEF left
    <3> QED
      BY <3>1, <3>2
  <2>2. CASE ~broken
    <3>1. left = FlattenSeq(lefts)
      BY <2>2
    <3> HIDE DEF left
    <3>2. ASSUME NEW j \in DOMAIN left PROVE Harmless(left[j], rules, urls)
      <4>1. PICK i \in 1 .. Len(lefts) : \E k \in DOMAIN lefts[i] : left[j] = lefts[i][k]
        BY <1>8, <3>1 DEF Rowed
      <4>2. i \in DOMAIN elements
        BY <1>2, <1>5
      <4> QED
        BY <1>3, <1>6, <4>1, <4>2
    <3> QED
      BY <1>8, <3>1, <3>2
  <2> QED
    BY <2>1, <2>2
<1>10. html.actions = <<>> /\ ~html.refused => html.output = elements
  <2>1. SUFFICES ASSUME html.actions = <<>>, ~html.refused PROVE left = elements
    BY <1>1
  <2>2. left = FlattenSeq(lefts)
    BY <1>1, <2>1
  <2>3. \A i \in DOMAIN elements : reports[i] = <<>>
    BY <1>1, <1>2, <1>5, <1>8, <2>1 DEF Rowed
  <2>4. \A i \in DOMAIN elements : lefts[i] = <<elements[i]>>
    BY <1>3, <1>6, <2>3
  <2>5. lefts = [i \in DOMAIN elements |-> <<elements[i]>>]
    BY <1>7, <2>4
  <2> HIDE DEF left
  <2> QED
    BY <1>2, <2>2, <2>5, FlattenSingles
<1> HIDE DEF left
<1>11. /\ IsList(refs) /\ Len(refs) = Len(left) /\ DOMAIN refs = DOMAIN left
       /\ \A i \in DOMAIN left : refs[i] = References(left[i])
  <2>1. DOMAIN left = 1 .. Len(left) /\ Len(left) \in Nat
    BY <1>9, ListSeq DEF IsList
  <2> QED
    BY <2>1 DEF IsList, HasParts
<1> HIDE DEF refs
<1>12. \A i \in DOMAIN refs : IsList(refs[i])
  BY <1>9, <1>11, ReferencesFacts
<1>13. IsList(html.references) /\ Rowed(refs, html.references, Len(refs))
  BY <1>1, <1>11, <1>12, ListFlatten
<1>14. ASSUME NEW i \in DOMAIN html.references
       PROVE  html.references[i].from # "srcset" => Passing(html.references[i].raw, rules, urls)
  <2>1. PICK j \in 1 .. Len(refs) : \E k \in DOMAIN refs[j] : html.references[i] = refs[j][k]
    BY <1>13 DEF Rowed
  <2>2. j \in DOMAIN left /\ refs[j] = References(left[j])
    BY <1>11, <2>1, ListSeq
  <2> QED
    BY <1>9, <2>1, <2>2, ReferencesFacts
<1> QED
  BY <1>1, <1>8, <1>10, <1>13, <1>14 DEF html

-----------------------------------------------------------------------------
(* Finite sets in a row: what a finite sheet gives findings in.            *)
LEMMA FinitePair ==
  ASSUME NEW S, NEW T, IsFiniteSet(S), IsFiniteSet(T)
  PROVE  IsFiniteSet(S \cup T)
<1> DEFINE Good == {U \in SUBSET T : IsFiniteSet(S \cup U)}
<1>1. ASSUME NEW U \in SUBSET T, \A V \in SUBSET U : V # U => V \in Good
      PROVE  U \in Good
  <2>1. CASE U = {}
    BY <2>1
  <2>2. CASE U # {}
    <3>1. PICK x : x \in U
      BY <2>2
    <3>2. U \ {x} \in Good
      BY <1>1, <3>1
    <3>3. S \cup U = (S \cup (U \ {x})) \cup {x}
      BY <3>1
    <3> QED
      BY <3>2, <3>3, FS_AddElement
  <2> QED
    BY <2>1, <2>2
<1>2. Good \in SUBSET SUBSET T
  OBVIOUS
<1> HIDE DEF Good
<1>3. T \in Good
  BY <1>1, <1>2, SubsetInduction
<1> QED
  BY <1>3 DEF Good

(* A finite union of finite sets is finite.                                *)
LEMMA FiniteUnion ==
  ASSUME NEW F, IsFiniteSet(DOMAIN F), \A i \in DOMAIN F : IsFiniteSet(F[i])
  PROVE  IsFiniteSet(UNION {F[i] : i \in DOMAIN F})
<1> DEFINE All(T) == UNION {F[i] : i \in T}
           Good == {T \in SUBSET DOMAIN F : IsFiniteSet(All(T))}
<1>1. ASSUME NEW T \in SUBSET DOMAIN F, \A U \in SUBSET T : U # T => U \in Good
      PROVE  T \in Good
  <2>1. CASE T = {}
    <3>1. All(T) = {}
      BY <2>1
    <3> QED
      BY <3>1, FS_EmptySet
  <2>2. CASE T # {}
    <3>1. PICK x : x \in T
      BY <2>2
    <3>2. T \ {x} \in Good
      BY <1>1, <3>1
    <3>3. All(T) = All(T \ {x}) \cup F[x]
      BY <3>1
    <3>4. IsFiniteSet(All(T \ {x})) /\ IsFiniteSet(F[x])
      BY <3>1, <3>2
    <3> HIDE DEF All
    <3> QED
      BY <3>3, <3>4, FinitePair
  <2> QED
    BY <2>1, <2>2
<1>2. Good \in SUBSET SUBSET DOMAIN F
  OBVIOUS
<1> HIDE DEF Good
<1>3. DOMAIN F \in Good
  BY <1>1, <1>2, SubsetInduction
<1> QED
  BY <1>3 DEF Good

(* A finite set in a row is a list.                                        *)
LEMMA SetToSeqList ==
  ASSUME NEW S, IsFiniteSet(S)
  PROVE  IsList(SetToSeq(S))
<1>1. PICK n \in Nat : n = Cardinality(S) /\ ExistsBijection(1 .. n, S)
  BY FS_CardinalityType
<1>2. \E f \in [1 .. Cardinality(S) -> S] : IsInjective(f)
  BY <1>1 DEF ExistsBijection, Bijection, Injection
<1>3. SetToSeq(S) \in [1 .. Cardinality(S) -> S]
  BY <1>2 DEF SetToSeq
<1>4. SetToSeq(S) \in Seq(S)
  BY <1>1, <1>3
<1> QED
  BY <1>4, SeqList

-----------------------------------------------------------------------------
(* The scanners.  A finite sheet has finitely many findings, and in a body *)
(* nothing is found in nothing is changed.                                 *)
LEMMA FindingsFinite ==
  ASSUME NEW sheet, IsFiniteSet(DOMAIN sheet),
         \A i \in DOMAIN sheet : IsFiniteSet(DOMAIN sheet[i].rules)
  PROVE  IsFiniteSet(Findings(sheet))
<1> DEFINE Of(facts, path) == {[hit |-> h, path |-> path] : h \in Hits(facts)}
<1>1. ASSUME NEW facts, NEW path PROVE IsFiniteSet(Of(facts, path))
  <2> DEFINE At(h) == [hit |-> h, path |-> path]
             All == ((({} \cup {At("scan.css.exfiltration")}) \cup {At("scan.css.import")})
                      \cup {At("scan.css.expression")}) \cup {At("scan.css.dangerous_scheme")}
  <2>1. IsFiniteSet(All)
    <3> HIDE DEF At
    <3> QED
      BY FS_EmptySet, FS_AddElement
  <2>2. Of(facts, path) \subseteq All
    BY DEF Hits
  <2> QED
    BY <2>1, <2>2, FS_Subset
<1>2. ASSUME NEW i \in DOMAIN sheet
      PROVE  IsFiniteSet(UNION {Of(sheet[i].rules[j].tokens, <<i, j>>) :
                            j \in {k \in DOMAIN sheet[i].rules : sheet[i].at \in Grouping}})
  <2> DEFINE F == [j \in {k \in DOMAIN sheet[i].rules : sheet[i].at \in Grouping} |->
                     Of(sheet[i].rules[j].tokens, <<i, j>>)]
  <2>1. IsFiniteSet(DOMAIN F)
    BY FS_Subset
  <2>2. \A j \in DOMAIN F : IsFiniteSet(F[j])
    BY <1>1
  <2>3. IsFiniteSet(UNION {F[j] : j \in DOMAIN F})
    <3> HIDE DEF F
    <3> QED
      BY <2>1, <2>2, FiniteUnion
  <2>4. {F[j] : j \in DOMAIN F} =
          {Of(sheet[i].rules[j].tokens, <<i, j>>) :
             j \in {k \in DOMAIN sheet[i].rules : sheet[i].at \in Grouping}}
    <3> HIDE DEF Of
    <3> QED
      OBVIOUS
  <2> QED
    BY <2>3, <2>4
<1>3. IsFiniteSet(Tokenized(sheet))
  <2> DEFINE Deep(i) == UNION {Of(sheet[i].rules[j].tokens, <<i, j>>) :
                            j \in {k \in DOMAIN sheet[i].rules : sheet[i].at \in Grouping}}
             F == [i \in DOMAIN sheet |-> Of(Facts(sheet[i]), <<i>>) \cup Deep(i)]
  <2>1. Tokenized(sheet) = UNION {Of(Facts(sheet[i]), <<i>>) \cup Deep(i) : i \in DOMAIN sheet}
    BY DEF Tokenized
  <2>2. \A i \in DOMAIN sheet : IsFiniteSet(Of(Facts(sheet[i]), <<i>>) \cup Deep(i))
    <3>1. \A i \in DOMAIN sheet : IsFiniteSet(Deep(i))
      BY <1>2
    <3> HIDE DEF Of, Deep
    <3> QED
      BY <1>1, <3>1, FinitePair
  <2> HIDE DEF Of, Deep
  <2>3. DOMAIN F = DOMAIN sheet /\ \A i \in DOMAIN sheet : IsFiniteSet(F[i])
    BY <2>2
  <2>4. Tokenized(sheet) = UNION {F[i] : i \in DOMAIN F}
    BY <2>1
  <2> HIDE DEF F
  <2> QED
    BY <2>3, <2>4, FiniteUnion
<1>4. IsFiniteSet(ParserDisagreement(sheet))
  <2> DEFINE whole == [hit |-> "scan.css.expression", path |-> <<>>]
  <2>1. ParserDisagreement(sheet) = {whole} \/ ParserDisagreement(sheet) = {}
    BY DEF ParserDisagreement
  <2>2. IsFiniteSet({whole}) /\ IsFiniteSet({})
    BY FS_Singleton, FS_EmptySet
  <2> QED
    BY <2>1, <2>2
<1> QED
  BY <1>3, <1>4, FinitePair DEF Findings

(* Whatever a body is taken for, what is found in it is a list.            *)
LEMMA DetectedList ==
  ASSUME NEW body, NEW type, NEW rules, Body(body)
  PROVE  IsList(Detected(body, type, rules))
<1>1. \A x : IsList(<<x>>)
  BY DEF IsList, HasParts
<1>2. IsList(<<>>)
  BY DEF IsList, HasParts
<1>3. \A p, rule : IsList(If(p, rule))
  BY <1>1, <1>2 DEF If
<1>4. IsList(XssActions(NeutralPass(body).actions))
  <2> DEFINE actions == NeutralPass(body).actions
             lists == [i \in DOMAIN actions |->
                         IF actions[i].rule \in Xss THEN <<actions[i]>> ELSE <<>>]
  <2>1. Settles(NeutralUrlRules.placeholder)
    BY DEF NeutralUrlRules, Inert, Settles
  <2>2. IsList(actions)
    BY <2>1, SanitizeFacts DEF NeutralPass, Body
  <2> HIDE DEF actions
  <2>3. IsList(lists)
    BY <2>2 DEF IsList, HasParts
  <2>4. \A i \in DOMAIN lists : IsList(lists[i])
    BY <1>1, <1>2
  <2>5. XssActions(actions) = FlattenSeq(lists)
    BY DEF XssActions, Each
  <2> HIDE DEF lists
  <2> QED
    BY <2>3, <2>4, <2>5, ListFlatten DEF actions
<1>5. CASE type = "css"
  <2> DEFINE found == SetToSeq(Findings(body.sheet))
             hits == [i \in DOMAIN found |-> Action(found[i].hit, "none")]
  <2>1. IsList(found)
    BY FindingsFinite, SetToSeqList DEF Body
  <2>2. Detected(body, type, rules) = hits
    BY <1>5 DEF Detected
  <2> HIDE DEF found
  <2>3. IsList(hits)
    BY <2>1 DEF IsList, HasParts
  <2> QED
    BY <2>2, <2>3
<1>6. CASE type # "css"
  <2>1. \/ \E p, rule : Detected(body, type, rules) = If(p, rule)
        \/ Detected(body, type, rules) = XssActions(NeutralPass(body).actions)
        \/ Detected(body, type, rules) = <<>>
    BY <1>6 DEF Detected
  <2> QED
    BY <1>2, <1>3, <1>4, <2>1
<1> QED
  BY <1>5, <1>6

(* The scan of a body, and what it is rewritten to.                        *)
LEMMA ScanFacts ==
  ASSUME NEW body, NEW type, NEW rules, Body(body)
  PROVE  LET scan == ScanActive(body, type, rules) IN
         /\ IsList(scan.actions)
         /\ scan.actions = <<>> => scan.output = body
         /\ ~scan.refused => DOMAIN scan.output = DOMAIN body
<1> DEFINE found == Detected(body, type, rules)
           scan == ScanActive(body, type, rules)
           refused == found # <<>> /\ rules.activeContent = "Reject"
<1>1. IsList(found)
  BY DetectedList
<1>2. scan = Acted(body, type, found, refused)
  BY DEF ScanActive, ActedOn
<1> HIDE DEF found, scan
<1>3. scan.output = IF found = <<>> THEN body
                    ELSE IF refused THEN [none |-> TRUE]
                    ELSE RewriteIfPossible(body, type)
  BY <1>2 DEF Acted
<1>4. scan.refused <=> refused
  BY <1>2 DEF Acted
<1>5. scan.actions = [i \in DOMAIN found |->
                        Action(found[i].rule, IF refused THEN "Refuse" ELSE "Allow")]
  BY <1>2 DEF Acted
<1>6. DOMAIN RewriteIfPossible(body, type) = DOMAIN body
  <2>1. DOMAIN RewriteTiff(body) = DOMAIN body
    BY DEF RewriteTiff
  <2> QED
    BY <2>1 DEF RewriteIfPossible
<1>7. IsList(scan.actions) /\ (scan.actions = <<>> => found = <<>>)
  <2>1. DOMAIN found = 1 .. Len(found) /\ Len(found) \in Nat
    BY <1>1, ListSeq DEF IsList
  <2>2. IsList(scan.actions) /\ DOMAIN scan.actions = DOMAIN found
    BY <1>5, <2>1 DEF IsList, HasParts
  <2>3. DOMAIN found = {} => found = <<>>
    BY <1>1, <2>1 DEF IsList, HasParts
  <2> QED
    BY <2>2, <2>3
<1> QED
  BY <1>3, <1>4, <1>6, <1>7 DEF scan

-----------------------------------------------------------------------------
(* What a handler makes of a body, whichever type it is taken for.         *)
Handled(route, body, policy) ==
  /\ IsList(route.actions) /\ IsList(route.references)
  /\ ~route.refused => DOMAIN route.output = DOMAIN body
  /\ route.actions = <<>> /\ ~route.refused => route.output = body
  /\ \A i \in DOMAIN route.references :
       route.references[i].from # "srcset" =>
         Passing(route.references[i].raw, policy.html, policy.urls)

(* Every way a body may be routed.                                         *)
LEMMA RouteFacts ==
  ASSUME NEW body, NEW type, NEW policy, Body(body), Settles(policy.urls.placeholder)
  PROVE  Handled(Route(body, type, policy), body, policy)
<1> DEFINE route == Route(body, type, policy)
           risk == DosRisk(body, type, policy)
           html == SanitizeHtml(body.elements, body.broken, policy.html, policy.urls)
           scan == ScanActive(body, type, policy)
<1>1. IsList(<<>>) /\ DOMAIN <<>> = {}
  BY DEF IsList, HasParts
<1>2. CASE risk # NoRisk
  <2>1. /\ route.actions = <<risk>> /\ route.references = <<>>
        /\ route.refused
    BY <1>2 DEF Route, Passed
  <2>2. \A x : IsList(<<x>>)
    BY DEF IsList, HasParts
  <2> HIDE DEF route
  <2> QED
    BY <1>1, <2>1, <2>2 DEF Handled, route
<1>3. CASE risk = NoRisk /\ type = "html"
  <2>1. route = RouteHtml(body, html)
    BY <1>3 DEF Route
  <2>2. /\ IsList(html.actions) /\ IsList(html.references)
        /\ html.actions = <<>> /\ ~html.refused => html.output = body.elements
        /\ \A i \in DOMAIN html.references :
             html.references[i].from # "srcset" =>
               Passing(html.references[i].raw, policy.html, policy.urls)
    BY SanitizeFacts DEF Body
  <2> HIDE DEF html, route
  <2>3. /\ route.output = [body EXCEPT !.elements = html.output]
        /\ route.actions = html.actions /\ route.references = html.references
        /\ route.refused = html.refused
    BY <2>1 DEF RouteHtml
  <2>4. html.output = body.elements => route.output = body
    BY <2>3 DEF Body, HasParts
  <2>5. DOMAIN route.output = DOMAIN body
    BY <2>3
  <2> QED
    BY <2>2, <2>3, <2>4, <2>5 DEF Handled, route
<1>4. CASE risk = NoRisk /\ type # "html" /\ type \in Scanners
  <2>1. /\ route.output = scan.output /\ route.actions = scan.actions
        /\ route.refused = scan.refused /\ route.references = <<>>
    BY <1>4 DEF Route
  <2> HIDE DEF route
  <2> QED
    BY <1>1, <2>1, ScanFacts DEF Handled, route
<1>5. CASE risk = NoRisk /\ type # "html" /\ type \notin Scanners
  <2>1. /\ route.output = body /\ route.actions = <<>> /\ route.references = <<>>
        /\ ~route.refused
    BY <1>5 DEF Route, Passed
  <2> HIDE DEF route
  <2> QED
    BY <1>1, <2>1 DEF Handled, route
<1> QED
  BY <1>2, <1>3, <1>4, <1>5

-----------------------------------------------------------------------------
(* What came up stays what came up, and its sizes are numbers.             *)
InputInv ==
  /\ input \in Inputs
  /\ size \in Nat
  /\ data \in Nat

(* No step changes what came up.                                           *)
LEMMA InputIsKept == Spec => []InputInv
<1>1. Init => InputInv
  BY InputsAssumption DEF Init, InputInv, Body
<1>2. InputInv /\ [Next]_vars => InputInv'
  <2> SUFFICES ASSUME InputInv, [Next]_vars PROVE InputInv'
    OBVIOUS
  <2> USE DEF InputInv
  <2>1. CASE TakeBytes
    BY <2>1 DEF TakeBytes, TakeUp
  <2>2. CASE Malformed
    BY <2>2 DEF Malformed, End, Done
  <2>3. CASE Measure
    BY <2>3 DEF Measure, End, Done
  <2>4. CASE Read
    BY <2>4 DEF Read, TakeUp, End, Done
  <2>5. CASE FileChanges
    BY <2>5, InputsAssumption DEF FileChanges
  <2>6. CASE Fetch
    BY <2>6 DEF Fetch, TakeUp, End, Done
  <2>7. CASE Process
    BY <2>7 DEF Process, LoopPanics, Deliver, Report, End, Done
  <2>8. CASE Admit
    BY <2>8 DEF Admit, AdmitAs, Unwind, Keep, End, Done
  <2>9. CASE UNCHANGED vars
    BY <2>9 DEF vars
  <2> QED
    BY <2>1, <2>2, <2>3, <2>4, <2>5, <2>6, <2>7, <2>8, <2>9 DEF Next
<1> QED
  BY <1>1, <1>2, PTL DEF Spec

(* The ways a step goes on: the input is still on its way (or was unwound  *)
(* for good), is given up, is refused before a handler saw it, or is what  *)
(* its handler made of it.                                                 *)
Failures == {"BudgetExceeded", "MalformedUrl", "IoError", "UnsupportedScheme", "SsrfBlocked",
             "FetchError", "InternalError"}

GivenUp == \E status \in Failures : End(Failed(status))

TurnedAway == \E actions : End(Refused(actions))

Delivers ==
  /\ input.role = "input"
  /\ \E type : Deliver(Route(input.body, type, Policy))

Keeps ==
  /\ input.role = "subresource"
  /\ ~(Contradicted(Claimed(Seen, input.kind)) /\ Policy.sniffRule = "Reject")
  /\ KindOf(Taken, input.kind) \in Policy.types
  /\ Keep(Route(input.body, Taken, Policy), Taken)

(* What may become of a sub-resource.                                      *)
LEMMA AdmitCases ==
  ASSUME Admit
  PROVE  GivenUp \/ Unwind \/ (~OverBudget /\ (TurnedAway \/ Keeps))
<1> DEFINE v == Claimed(Seen, input.kind)
<1>1. CASE OverBudget
  BY <1>1 DEF Admit, GivenUp, Failures
<1>2. CASE ~OverBudget
  <2>1. AdmitAs(v, Effective(v)) /\ input.role = "subresource"
    BY <1>2 DEF Admit
  <2>2. Taken = Effective(v)
    BY <2>1 DEF Taken
  <2> HIDE DEF v
  <2>3. CASE \/ Contradicted(v) /\ Policy.sniffRule = "Reject"
             \/ KindOf(Taken, input.kind) \notin Policy.types
    <3>1. End(Refused(SniffActions(Seen)))
      BY <2>1, <2>2, <2>3 DEF AdmitAs
    <3> QED
      BY <1>2, <3>1 DEF TurnedAway
  <2>4. CASE /\ ~(Contradicted(v) /\ Policy.sniffRule = "Reject")
             /\ KindOf(Taken, input.kind) \in Policy.types
    <3>1. \/ Unwind
          \/ Keep(Route(input.body, Taken, Policy), Taken)
      BY <2>1, <2>2, <2>4 DEF AdmitAs
    <3> QED
      BY <1>2, <2>1, <2>4, <3>1 DEF Keeps, v
  <2> QED
    BY <2>3, <2>4
<1> QED
  BY <1>1, <1>2

(* What a step may be.                                                     *)
LEMMA Steps ==
  ASSUME [Next]_vars
  PROVE  /\ input' = input
         /\ \/ stage' # "done" /\ routed' = routed
            \/ GivenUp
            \/ ~OverBudget /\ (TurnedAway \/ Delivers \/ Keeps)
            \/ UNCHANGED vars
<1>1. CASE TakeBytes
  BY <1>1 DEF TakeBytes, TakeUp
<1>2. CASE Malformed
  BY <1>2 DEF Malformed, End, Done, GivenUp, Failures
<1>3. CASE Measure
  <2>1. \/ End(Failed("IoError")) \/ End(Failed("BudgetExceeded"))
        \/ stage' = "read" /\ UNCHANGED <<input, size, data, routed, outcome>>
    BY <1>3 DEF Measure
  <2> QED
    BY <2>1 DEF GivenUp, Failures, End, Done
<1>4. CASE Read
  <2>1. End(Failed("IoError")) \/ TakeUp
    BY <1>4 DEF Read
  <2> QED
    BY <2>1 DEF TakeUp, GivenUp, Failures, End, Done
<1>5. CASE FileChanges
  BY <1>5 DEF FileChanges
<1>6. CASE Fetch
  <2>1. \A why \in DOMAIN FetchFailure : FetchFailure[why] \in Failures
    BY DEF FetchFailure, Failures
  <2>2. \/ End(Failed("UnsupportedScheme")) \/ TakeUp
        \/ \E why \in DOMAIN FetchFailure : End(Failed(FetchFailure[why]))
    BY <1>6 DEF Fetch
  <2>3. CASE TakeUp
    BY <2>3 DEF TakeUp
  <2>4. CASE End(Failed("UnsupportedScheme"))
    BY <2>4 DEF GivenUp, Failures, End, Done
  <2>5. CASE \E why \in DOMAIN FetchFailure : End(Failed(FetchFailure[why]))
    <3>1. PICK why \in DOMAIN FetchFailure : End(Failed(FetchFailure[why]))
      BY <2>5
    <3>2. input' = input
      BY <3>1 DEF End, Done
    <3> QED
      BY <2>1, <3>1, <3>2 DEF GivenUp
  <2> QED
    BY <2>2, <2>3, <2>4, <2>5
<1>7. CASE Process
  <2>1. \/ End(Failed("BudgetExceeded")) \/ End(Failed("InternalError"))
        \/ /\ ~OverBudget /\ input.role = "input"
           /\ Deliver(Route(input.body, Effective(Seen), Policy))
    BY <1>7 DEF Process, LoopPanics
  <2>2. input' = input
    BY <2>1 DEF End, Done, Deliver, Report
  <2> QED
    BY <2>1, <2>2 DEF GivenUp, Failures, Delivers
<1>8. CASE Admit
  <2>1. input' = input
    BY <1>8 DEF Admit, AdmitAs, Unwind, Keep, End, Done
  <2>2. Unwind => stage' # "done" /\ routed' = routed
    BY DEF Unwind
  <2> QED
    BY <1>8, <2>1, <2>2, AdmitCases
<1>9. CASE UNCHANGED vars
  BY <1>9 DEF vars
<1> QED
  BY <1>1, <1>2, <1>3, <1>4, <1>5, <1>6, <1>7, <1>8, <1>9 DEF Next

(* What is known of the input whenever a handler is to see it.             *)
LEMMA InputFacts ==
  ASSUME InputInv
  PROVE  /\ Body(input.body) /\ Settles(Policy.urls.placeholder)
         /\ Policy.maxInput \in Nat /\ data \in Nat
         /\ Policy.types \subseteq {"css", "js", "image"}
         /\ input.role = "subresource" => input.kind \in {"css", "js", "image"}
         /\ \A type : Handled(Route(input.body, type, Policy), input.body, Policy)
<1>1. /\ Body(input.body) /\ Settles(Policy.urls.placeholder)
      /\ Policy.maxInput \in Nat /\ data \in Nat
      /\ Policy.types \subseteq {"css", "js", "image"}
      /\ input.role = "subresource" => input.kind \in {"css", "js", "image"}
  BY InputsAssumption DEF InputInv, Policy, Bounds
<1> QED
  BY <1>1, RouteFacts

-----------------------------------------------------------------------------
(* A step hands on no reference that the policy acts against.              *)
LEMMA SettledStep ==
  ASSUME InputInv, ReferencesSettled, [Next]_vars
  PROVE  ReferencesSettled'
<1>1. input' = input /\ Policy' = Policy
  BY Steps DEF Policy
<1>2. CASE routed' = routed
  BY <1>1, <1>2 DEF ReferencesSettled
<1>3. ASSUME NEW type, routed' = Route(input.body, type, Policy)
      PROVE  ReferencesSettled'
  <2>1. Handled(routed', input.body, Policy)
    BY <1>3, InputFacts
  <2>2. ASSUME NEW i \in DOMAIN routed'.references,
               routed'.references[i].from # "srcset"
        PROVE  Passing(routed'.references[i].raw, Policy.html, Policy.urls)
    BY <2>1, <2>2 DEF Handled
  <2> QED
    BY <1>1, <2>2 DEF ReferencesSettled, Passing
<1>4. CASE Delivers
  BY <1>3, <1>4 DEF Delivers, Deliver
<1>5. CASE Keeps
  BY <1>3, <1>5 DEF Keeps, Keep
<1>6. GivenUp \/ TurnedAway \/ UNCHANGED vars => routed' = routed
  BY DEF GivenUp, TurnedAway, End, vars
<1> QED
  BY <1>2, <1>4, <1>5, <1>6, Steps

(* No reference that is handed on to be fetched is a URL the policy acts   *)
(* against, whatever the document and whatever the policy says of schemes, *)
(* hosts and spellings: collect() runs on what the cleaning left           *)
(* (html/mod.rs).  Only the text the policy itself puts there is excepted. *)
THEOREM ReferencesAreSettled == Spec => []ReferencesSettled
<1>1. Init => ReferencesSettled
  <2>1. Init => routed.references = <<>>
    BY DEF Init, NotRouted
  <2>2. DOMAIN <<>> = {}
    OBVIOUS
  <2> QED
    BY <2>1, <2>2 DEF ReferencesSettled
<1>2. ReferencesSettled /\ InputInv /\ [Next]_vars => ReferencesSettled'
  BY SettledStep
<1> QED
  BY <1>1, <1>2, InputIsKept, PTL DEF Spec

-----------------------------------------------------------------------------
(* What is not the body of an input is no body: bytes that left are told   *)
(* from bytes that did not.                                                *)
LEMMA BodyIsSome ==
  ASSUME NEW body, NEW output, Body(body), DOMAIN output = DOMAIN body
  PROVE  output # None
<1>1. DOMAIN body = {"at", "tiny", "size", "broken", "elements", "sheet", "decls", "externalId",
                     "zip", "pdf", "cells", "directory", "tape", "head"}
  BY DEF Body, HasParts
<1>2. DOMAIN None = {"none"}
  BY DEF None
<1> QED
  BY <1>1, <1>2

(* The loop reports every reference it does not point at a copy.           *)
LEMMA DefangedFacts ==
  ASSUME NEW refs, IsList(refs), NEW map,
         DOMAIN map \subseteq {refs[i].raw : i \in DOMAIN refs}
  PROVE  /\ IsList(Defanged(map))
         /\ Defanged(map) = <<>> => \A r \in DOMAIN map : map[r] = LocalCopy
<1> DEFINE S == {r \in DOMAIN map : map[r] # LocalCopy}
           F == [i \in DOMAIN refs |-> {refs[i].raw}]
           reports == [i \in 1 .. Cardinality(S) |-> Action("subresource.refused", "Rewrite")]
<1>1. IsFiniteSet(S)
  <2>1. IsFiniteSet(DOMAIN F)
    BY ListSeq, FS_Interval DEF IsList
  <2>2. \A i \in DOMAIN F : IsFiniteSet(F[i])
    BY FS_Singleton
  <2>3. S \subseteq UNION {F[i] : i \in DOMAIN F}
    OBVIOUS
  <2> HIDE DEF F, S
  <2>4. IsFiniteSet(UNION {F[i] : i \in DOMAIN F})
    BY <2>1, <2>2, FiniteUnion
  <2> QED
    BY <2>3, <2>4, FS_Subset
<1>2. Defanged(map) = reports
  BY DEF Defanged
<1> HIDE DEF S
<1>3. Cardinality(S) \in Nat /\ (Cardinality(S) = 0 => S = {})
  BY <1>1, FS_CardinalityType, FS_EmptySet
<1>4. IsList(reports) /\ Len(reports) = Cardinality(S)
  BY <1>3 DEF IsList, HasParts
<1>5. Defanged(map) = <<>> => S = {}
  <2> HIDE DEF reports
  <2> QED
    BY <1>2, <1>3, <1>4
<1> QED
  BY <1>2, <1>4, <1>5 DEF S

(* The loop points references of the document, and nothing else.           *)
LEMMA MapsFacts ==
  ASSUME NEW route, NEW map \in LoopMaps(route)
  PROVE  /\ DOMAIN map \subseteq {route.references[i].raw : i \in DOMAIN route.references}
         /\ route.refused => map = <<>>
<1>1. CASE map = <<>>
  <2>1. DOMAIN <<>> = {}
    OBVIOUS
  <2> QED
    BY <1>1, <2>1
<1>2. CASE map # <<>>
  BY <1>2 DEF LoopMaps, Rewrites
<1> QED
  BY <1>1, <1>2

(* What sniffing reports is a list.                                        *)
LEMMA SniffActionsList == IsList(SniffActions(Seen))
<1>1. \A x : IsList(<<x>>)
  BY DEF IsList, HasParts
<1>2. IsList(<<>>)
  BY DEF IsList, HasParts
<1> QED
  BY <1>1, <1>2 DEF SniffActions

-----------------------------------------------------------------------------
(* A body whose references are rewritten by a pass that breaks off.        *)
LEMMA Unpointed ==
  ASSUME NEW body, NEW map, Body(body)
  PROVE  body \in Pointed(body, map)
<1>1. RewriteReferences(body.elements, TRUE, map) = body.elements
  BY DEF RewriteReferences
<1>2. [body EXCEPT !.elements = body.elements] = body
  BY DEF Body, HasParts
<1> QED
  BY <1>1, <1>2 DEF Pointed

(* The report on a document, or on any other input.                        *)
LEMMA DeliversHonest ==
  ASSUME InputInv, ~OverBudget, Delivers, input' = input
  PROVE  StatusHonest'
<1> PICK type : Deliver(Route(input.body, type, Policy))
  BY DEF Delivers
<1> DEFINE route == Route(input.body, type, Policy)
<1>1. Handled(route, input.body, Policy) /\ Body(input.body)
  BY InputFacts
<1> HIDE DEF route
<1>2. PICK map \in LoopMaps(route) : Report(route, map)
  BY DEF Deliver, route
<1> DEFINE actions == SniffActions(Seen) \o route.actions \o Defanged(map)
<1>3. PICK output \in Outputs(route, map) :
        Done([status |-> StatusOf(route.refused, actions), actions |-> actions,
              output |-> output, subs |-> Subs(route), extension |-> NoType, map |-> map])
  BY <1>2 DEF Report
<1>4. actions = <<>> => route.actions = <<>> /\ Defanged(map) = <<>>
  <2>1. IsList(route.actions) /\ IsList(Defanged(map)) /\ IsList(SniffActions(Seen))
    BY <1>1, MapsFacts, DefangedFacts, SniffActionsList DEF Handled
  <2>2. IsList(SniffActions(Seen) \o route.actions)
    BY <2>1, ListAppend
  <2> QED
    BY <2>1, <2>2, ListAppend
<1> HIDE DEF actions
<1>5. /\ outcome'.status = StatusOf(route.refused, actions)
      /\ outcome'.output = output
      /\ outcome'.extension = NoType /\ outcome'.map = map
      /\ stage' = "done"
  BY <1>3 DEF Done
<1>6. data' <= Policy'.maxInput
  <2>1. data' = data /\ Policy' = Policy
    BY DEF Deliver, Policy
  <2> QED
    BY <2>1, InputFacts DEF OverBudget
<1>7. CASE route.refused
  <2>1. output = None /\ map = <<>> /\ outcome'.status = "Refused"
    BY <1>5, <1>7, MapsFacts DEF Outputs, StatusOf
  <2> QED
    BY <1>5, <1>6, <2>1 DEF StatusHonest, BudgetKept, CleanUntouched, Delivered, Status
<1>8. CASE ~route.refused
  <2>1. outcome'.status = IF actions = <<>> THEN "Clean" ELSE "Sanitised"
    BY <1>5, <1>8 DEF StatusOf
  <2>2. \/ map = <<>> /\ output = route.output
        \/ output \in Pointed(route.output, map)
    BY <1>8 DEF Outputs
  <2>3. output # None
    <3>1. DOMAIN output = DOMAIN route.output /\ DOMAIN route.output = DOMAIN input.body
      BY <1>1, <1>8, <2>2 DEF Handled, Pointed
    <3> QED
      BY <1>1, <3>1, BodyIsSome
  <2>4. BudgetKept'
    BY <1>5, <1>6, <2>1, <2>3 DEF BudgetKept, Delivered, Status
  <2>5. ASSUME actions = <<>>
        PROVE  /\ \A r \in DOMAIN map : map[r] = LocalCopy
               /\ output \in Pointed(input.body, map)
    <3>1. route.output = input.body
      BY <1>1, <1>4, <1>8, <2>5 DEF Handled
    <3>2. \A r \in DOMAIN map : map[r] = LocalCopy
      BY <1>1, <1>4, <2>5, MapsFacts, DefangedFacts DEF Handled
    <3>3. output \in Pointed(input.body, map)
      BY <1>1, <2>2, <3>1, Unpointed
    <3> QED
      BY <3>2, <3>3
  <2>6. CleanUntouched'
    BY <1>5, <2>1, <2>5 DEF CleanUntouched
  <2> QED
    BY <2>4, <2>6 DEF StatusHonest
<1> QED
  BY <1>7, <1>8

(* The report on a sub-resource.                                           *)
LEMMA KeepsHonest ==
  ASSUME InputInv, ~OverBudget, Keeps, input' = input
  PROVE  StatusHonest'
<1> DEFINE route == Route(input.body, Taken, Policy)
           actions == SniffActions(Seen) \o route.actions
<1>1. Handled(route, input.body, Policy) /\ Body(input.body)
  BY InputFacts
<1> HIDE DEF route
<1>2. Keep(route, Taken)
  BY DEF Keeps, route
<1>3. actions = <<>> => route.actions = <<>>
  BY <1>1, SniffActionsList, ListAppend DEF Handled
<1>4. /\ data' = data
      /\ IF route.refused THEN Done(Refused(actions))
         ELSE Done([Failed(StatusOf(FALSE, actions)) EXCEPT
                      !.actions = actions, !.output = route.output,
                      !.extension = AssetExtension(Taken, KindOf(Taken, input.kind))])
  BY <1>2 DEF Keep
<1> HIDE DEF actions
<1>5. data' <= Policy'.maxInput
  <2>1. Policy' = Policy
    BY DEF Policy
  <2> QED
    BY <1>4, <2>1, InputFacts DEF OverBudget
<1>6. CASE route.refused
  <2>1. /\ outcome'.status = "Refused" /\ outcome'.output = None
        /\ outcome'.extension = NoType /\ outcome'.map = <<>>
    BY <1>4, <1>6 DEF Done, Refused, Failed
  <2> QED
    BY <1>5, <2>1 DEF StatusHonest, BudgetKept, CleanUntouched, Delivered, Status
<1>7. CASE ~route.refused
  <2>1. /\ outcome'.status = IF actions = <<>> THEN "Clean" ELSE "Sanitised"
        /\ outcome'.output = route.output /\ outcome'.map = <<>>
        /\ stage' = "done"
    BY <1>4, <1>7 DEF Done, Failed, StatusOf
  <2>2. outcome'.output # None
    BY <1>1, <1>7, <2>1, BodyIsSome DEF Handled
  <2>3. BudgetKept'
    BY <1>5, <2>1, <2>2 DEF BudgetKept, Delivered, Status
  <2>4. actions = <<>> => route.output = input.body
    BY <1>1, <1>3, <1>7 DEF Handled
  <2>5. DOMAIN <<>> = {}
    OBVIOUS
  <2>6. CleanUntouched'
    BY <1>1, <2>1, <2>4, <2>5, Unpointed DEF CleanUntouched
  <2> QED
    BY <2>3, <2>6 DEF StatusHonest
<1> QED
  BY <1>6, <1>7

(* A step leaves an honest report.                                         *)
LEMMA HonestStep ==
  ASSUME InputInv, StatusHonest, [Next]_vars
  PROVE  StatusHonest'
<1>1. input' = input /\ Policy' = Policy
  BY Steps DEF Policy
<1>2. CASE stage' # "done"
  BY <1>2 DEF StatusHonest, BudgetKept, CleanUntouched, Delivered
<1>3. CASE GivenUp
  <2> PICK status \in Failures : End(Failed(status))
    BY <1>3 DEF GivenUp
  <2>1. /\ outcome'.status \in Failures /\ outcome'.output = None
        /\ outcome'.extension = NoType /\ outcome'.map = <<>>
    BY DEF End, Done, Failed
  <2> QED
    BY <2>1 DEF StatusHonest, BudgetKept, CleanUntouched, Delivered, Status, Failures
<1>4. CASE ~OverBudget /\ TurnedAway
  <2> PICK actions : End(Refused(actions))
    BY <1>4 DEF TurnedAway
  <2>1. /\ outcome'.status = "Refused" /\ outcome'.output = None
        /\ outcome'.extension = NoType /\ outcome'.map = <<>>
        /\ data' = data
    BY DEF End, Done, Refused, Failed
  <2>2. data' <= Policy'.maxInput
    BY <1>1, <1>4, <2>1, InputFacts DEF OverBudget
  <2> QED
    BY <2>1, <2>2 DEF StatusHonest, BudgetKept, CleanUntouched, Delivered, Status
<1>5. CASE UNCHANGED vars
  BY <1>5, <1>1 DEF StatusHonest, BudgetKept, CleanUntouched, Delivered, vars
<1> QED
  BY <1>1, <1>2, <1>3, <1>4, <1>5, DeliversHonest, KeepsHonest, Steps

(* Every report says what came of its input (Engine::pipeline, finish and  *)
(* handle): whatever a handler saw was within the byte budget, bytes are   *)
(* given back with the statuses Clean and Sanitised and no other, and what *)
(* is called clean is what came in, but for references to local copies.    *)
THEOREM StatusIsHonest == Spec => []StatusHonest
<1>1. Init => StatusHonest
  BY DEF Init, StatusHonest, BudgetKept, CleanUntouched, Delivered
<1>2. StatusHonest /\ InputInv /\ [Next]_vars => StatusHonest'
  BY HonestStep
<1> QED
  BY <1>1, <1>2, InputIsKept, PTL DEF Spec

-----------------------------------------------------------------------------
(* A step keeps an asset of no other kind than was asked for.              *)
LEMMA TypedStep ==
  ASSUME InputInv, AssetsTyped, [Next]_vars
  PROVE  AssetsTyped'
<1>1. input' = input /\ Policy' = Policy /\ Seen' = Seen /\ Taken' = Taken
  BY Steps DEF Policy, Seen, Source, Taken
<1>2. CASE stage' # "done"
  BY <1>2 DEF AssetsTyped, Delivered
<1>3. CASE GivenUp
  BY <1>3 DEF GivenUp, End, Done, Failed, AssetsTyped, Delivered
<1>4. CASE TurnedAway
  BY <1>4 DEF TurnedAway, End, Done, Refused, Failed, AssetsTyped, Delivered
<1>5. CASE Delivers
  BY <1>1, <1>5 DEF Delivers, AssetsTyped
<1>6. CASE Keeps
  <2> DEFINE v == Claimed(Seen, input.kind)
             kind == KindOf(Taken, input.kind)
  <2>1. SUFFICES ASSUME Delivered' PROVE AssetsTyped'
    BY DEF AssetsTyped
  <2>2. outcome'.extension = AssetExtension(Taken, kind)
    BY <1>6, <2>1 DEF Keeps, Keep, Done, Refused, Failed, Delivered
  <2>3. /\ kind \in Policy.types /\ Policy.types \subseteq {"css", "js", "image"}
        /\ input.kind \in {"css", "js", "image"}
    BY <1>6, InputFacts DEF Keeps
  <2>4. /\ Taken = NoType => kind = input.kind
        /\ Taken \in Images => kind = "image"
        /\ Taken \in {"css", "js"} => kind = Taken
        /\ Taken \notin Images \cup {"css", "js", NoType} => kind = NoType
    BY DEF KindOf, NoType, Images
  <2>5. /\ Taken # NoType =>
             Taken \in Images \cup {"css", "js"} /\ outcome'.extension = Extension(Taken)
        /\ Taken = NoType => outcome'.extension # NoType
    BY <2>2, <2>3, <2>4 DEF AssetExtension, NoType
  <2>6. Policy.sniffRule = "Reject" /\ Seen.sniffed # NoType =>
          Seen.declared \in {NoType, Seen.sniffed}
    <3>1. SUFFICES ASSUME Policy.sniffRule = "Reject", Seen.declared # NoType
                   PROVE  Seen.sniffed # NoType => Seen.declared = Seen.sniffed
      OBVIOUS
    <3>2. v = Seen
      BY <3>1 DEF Claimed
    <3> QED
      BY <1>6, <3>1, <3>2 DEF Keeps, Contradicted
  <2>7. NoType \notin Images \cup {"css", "js"} /\ NoType \notin {"css", "js", "image"}
    BY DEF NoType, Images
  <2> HIDE DEF kind
  <2> QED
    BY <1>1, <2>3, <2>4, <2>5, <2>6, <2>7 DEF AssetsTyped
<1>7. CASE UNCHANGED vars
  BY <1>1, <1>7 DEF AssetsTyped, Delivered, vars
<1> QED
  BY <1>2, <1>3, <1>4, <1>5, <1>6, <1>7, Steps

(* Every asset that is kept is of a kind the policy asks for and is named  *)
(* after the type it was handled as, and under Reject no server's word was *)
(* against what its bytes are (subresource_kind, handle).                  *)
THEOREM AssetsAreTyped == Spec => []AssetsTyped
<1>1. Init => AssetsTyped
  BY DEF Init, AssetsTyped, Delivered
<1>2. AssetsTyped /\ InputInv /\ [Next]_vars => AssetsTyped'
  BY TypedStep
<1> QED
  BY <1>1, <1>2, InputIsKept, PTL DEF Spec

-----------------------------------------------------------------------------
(* A list of values, each made from the one before it, exists.             *)
Steppers(n, V) == [1 .. n -> [V -> V]]

Iteration(f, G, base, n, V) ==
  /\ f \in [0 .. n -> V]
  /\ f[0] = base
  /\ \A k \in 1 .. n : f[k] = G[k][f[k - 1]]

LEMMA Iterates ==
  ASSUME NEW n \in Nat, NEW V, NEW base \in V, NEW G \in Steppers(n, V)
  PROVE  \E f : Iteration(f, G, base, n, V)
<1> USE DEF Steppers, Iteration
<1> DEFINE Run(f, m) == Iteration(f, G, base, m, V)
           Good == {m \in Nat : m <= n => \E f : Run(f, m)}
<1>1. 0 \in Good
  <2>1. Run([k \in 0 .. 0 |-> base], 0)
    OBVIOUS
  <2> QED
    BY <2>1
<1>2. ASSUME NEW m \in Nat, m \in Good PROVE m + 1 \in Good
  <2>1. SUFFICES ASSUME m + 1 <= n PROVE \E f : Run(f, m + 1)
    OBVIOUS
  <2>2. PICK f : Run(f, m)
    BY <1>2, <2>1
  <2>3. f[m] \in V /\ m + 1 \in 1 .. n
    BY <2>1, <2>2
  <2> DEFINE g == [k \in 0 .. m + 1 |-> IF k = m + 1 THEN G[k][f[m]] ELSE f[k]]
  <2>4. G[m + 1][f[m]] \in V
    BY <2>3
  <2>5. g \in [0 .. m + 1 -> V]
    BY <2>2, <2>4
  <2>6. g[0] = base
    BY <2>2
  <2>7. ASSUME NEW k \in 1 .. m + 1 PROVE g[k] = G[k][g[k - 1]]
    <3>1. CASE k = m + 1
      <4>1. g[k] = G[k][f[m]]
        BY <3>1
      <4>2. g[k - 1] = f[m]
        BY <3>1
      <4> QED
        BY <4>1, <4>2
    <3>2. CASE k # m + 1
      <4>1. k \in 1 .. m
        BY <3>2
      <4>2. g[k] = f[k] /\ g[k - 1] = f[k - 1]
        BY <4>1
      <4> QED
        BY <2>2, <4>1, <4>2
    <3> QED
      BY <3>1, <3>2
  <2>8. Run(g, m + 1)
    <3> HIDE DEF g
    <3> QED
      BY <2>5, <2>6, <2>7
  <2> QED
    BY <2>8
<1> HIDE DEF Good
<1>3. n \in Good
  BY <1>1, <1>2, NatSetInduction
<1> QED
  BY <1>3 DEF Good

(* A set of positions that is not empty has a last one.                    *)
LEMMA MaxIsIn ==
  ASSUME NEW n \in Nat, NEW S \in SUBSET (1 .. n), S # {}
  PROVE  Max(S) \in S
<1> DEFINE Tops(T) == \E x \in T : \A y \in T : x >= y
           Good == {m \in Nat : \A T \in SUBSET (1 .. m) : T # {} => Tops(T)}
<1>1. 0 \in Good
  <2>1. \A T \in SUBSET (1 .. 0) : T = {}
    OBVIOUS
  <2> QED
    BY <2>1
<1>2. ASSUME NEW m \in Nat, m \in Good PROVE m + 1 \in Good
  <2>1. SUFFICES ASSUME NEW T \in SUBSET (1 .. m + 1), T # {} PROVE Tops(T)
    OBVIOUS
  <2>2. CASE m + 1 \in T
    BY <2>2
  <2>3. CASE m + 1 \notin T
    <3>1. T \in SUBSET (1 .. m)
      BY <2>3
    <3> QED
      BY <1>2, <2>1, <3>1
  <2> QED
    BY <2>2, <2>3
<1> HIDE DEF Good
<1>3. n \in Good
  BY <1>1, <1>2, NatSetInduction
<1>4. Tops(S)
  BY <1>3 DEF Good
<1> QED
  BY <1>4 DEF Max

-----------------------------------------------------------------------------
(* What the walk over a value's pieces has added up to.                    *)
Sizings == [bytes : Nat, ok : BOOLEAN]

AddStep(value, sub, max, acc, k) ==
  LET sum == acc.bytes + sub[k].bytes IN
  IF \/ ~acc.ok \/ ~sub[k].ok
     \/ value[k].kind = "ref" /\ sum > max
  THEN TooLarge ELSE Sized(sum)

AddsUp(value, sub, max, f) ==
  f = [k \in 0 .. Len(value) |->
         IF k = 0 THEN Sized(0) ELSE AddStep(value, sub, max, f[k - 1], k)]

Bytes(sub) == [k \in DOMAIN sub |-> sub[k].bytes]

LEMMA AddStepSized ==
  ASSUME NEW value, NEW sub, NEW max, NEW k, sub[k] \in Sizings, NEW acc \in Sizings
  PROVE  AddStep(value, sub, max, acc, k) \in Sizings
<1>1. acc.bytes + sub[k].bytes \in Nat
  BY DEF Sizings
<1> QED
  BY <1>1 DEF AddStep, Sizings, TooLarge, Sized

(* The walk is there, one piece after the other.                           *)
LEMMA AddUpWalks ==
  ASSUME NEW value, Len(value) \in Nat, NEW sub, NEW max,
         \A k \in 1 .. Len(value) : sub[k] \in Sizings
  PROVE  \E f : /\ f[0] = Sized(0)
                /\ \A k \in 1 .. Len(value) : f[k] = AddStep(value, sub, max, f[k - 1], k)
                /\ AddUp(value, sub, max)
                     = IF f[Len(value)].ok /\ f[Len(value)].bytes <= max
                       THEN f[Len(value)] ELSE TooLarge
<1> DEFINE n == Len(value)
           G == [k \in 1 .. n |-> [acc \in Sizings |-> AddStep(value, sub, max, acc, k)]]
<1>1. G \in [1 .. n -> [Sizings -> Sizings]]
  BY AddStepSized
<1>2. Sized(0) \in Sizings
  BY DEF Sized, Sizings
<1>3. PICK g \in [0 .. n -> Sizings] :
        g[0] = Sized(0) /\ \A k \in 1 .. n : g[k] = G[k][g[k - 1]]
  <2> HIDE DEF G
  <2>1. G \in Steppers(n, Sizings)
    BY <1>1 DEF Steppers
  <2>2. \E g : Iteration(g, G, Sized(0), n, Sizings)
    BY <1>2, <2>1, Iterates
  <2> QED
    BY <2>2 DEF Iteration
<1>4. \A k \in 1 .. n : g[k] = AddStep(value, sub, max, g[k - 1], k)
  <2>1. \A k \in 1 .. n : g[k - 1] \in Sizings
    BY <1>3
  <2>2. \A k \in 1 .. n : \A acc \in Sizings : G[k][acc] = AddStep(value, sub, max, acc, k)
    OBVIOUS
  <2> HIDE DEF G
  <2> QED
    BY <1>3, <2>1, <2>2
<1>5. AddsUp(value, sub, max, g)
  <2> DEFINE h == [k \in 0 .. n |->
                     IF k = 0 THEN Sized(0) ELSE AddStep(value, sub, max, g[k - 1], k)]
  <2>1. \A k \in 0 .. n : g[k] = h[k]
    BY <1>3, <1>4
  <2>2. g = h
    <3> HIDE DEF h
    <3>1. DOMAIN h = 0 .. n
      BY DEF h
    <3>2. h = [k \in 0 .. n |-> h[k]]
      BY DEF h
    <3> QED
      BY <1>3, <2>1, <3>2
  <2> QED
    BY <2>2 DEF AddsUp
<1> DEFINE f == CHOOSE f : AddsUp(value, sub, max, f)
<1>6. AddsUp(value, sub, max, f)
  BY <1>5
<1>7. AddUp(value, sub, max)
        = IF f[Len(value)].ok /\ f[Len(value)].bytes <= max
          THEN f[Len(value)] ELSE TooLarge
  BY DEF AddUp, AddsUp, AddStep
<1> HIDE DEF f
<1>8. \A k \in 0 .. n :
        f[k] = IF k = 0 THEN Sized(0) ELSE AddStep(value, sub, max, f[k - 1], k)
  <2> DEFINE h == [k \in 0 .. n |->
                     IF k = 0 THEN Sized(0) ELSE AddStep(value, sub, max, f[k - 1], k)]
  <2>1. f = h
    BY <1>6 DEF AddsUp
  <2>2. \A k \in 0 .. n :
          h[k] = IF k = 0 THEN Sized(0) ELSE AddStep(value, sub, max, f[k - 1], k)
    OBVIOUS
  <2> HIDE DEF h
  <2> QED
    BY <2>1, <2>2
<1>9. f[0] = Sized(0) /\ \A k \in 1 .. n : f[k] = AddStep(value, sub, max, f[k - 1], k)
  BY <1>8
<1> QED
  BY <1>7, <1>9

(* What it comes to: the sum, unless a piece or the sum is too much.       *)
AddsUpTo(value, sub, max) ==
  AddUp(value, sub, max) =
    IF /\ \A k \in 1 .. Len(value) : sub[k].ok
       /\ SumOver(Bytes(sub), 1 .. Len(value)) <= max
    THEN Sized(SumOver(Bytes(sub), 1 .. Len(value))) ELSE TooLarge

LEMMA PartialSums ==
  ASSUME NEW n \in Nat, NEW g, \A k \in 1 .. n : g[k] \in Nat
  PROVE  /\ SumOver(g, 1 .. 0) = 0
         /\ \A k \in 0 .. n : /\ SumOver(g, 1 .. k) \in Nat
                            /\ SumOver(g, 1 .. k) <= SumOver(g, 1 .. n)
         /\ \A k \in 1 .. n : SumOver(g, 1 .. k) = SumOver(g, 1 .. k - 1) + g[k]
<1>1. \A k \in 0 .. n : IsFiniteSet(1 .. k) /\ 1 .. k \in SUBSET (1 .. n)
  <2>1. \A k \in 0 .. n : IsFiniteSet(1 .. k)
    BY FS_Interval
  <2> QED
    BY <2>1
<1>2. SumOver(g, 1 .. 0) = 0
  <2>1. 1 .. 0 = {}
    OBVIOUS
  <2> QED
    BY <1>1, <2>1, SumFirst
<1>3. ASSUME NEW k \in 0 .. n
      PROVE  SumOver(g, 1 .. k) \in Nat /\ SumOver(g, 1 .. k) <= SumOver(g, 1 .. n)
  <2> DEFINE T == 1 .. k
             S == 1 .. n
  <2>1. IsFiniteSet(S) /\ IsFiniteSet(T) /\ IsFiniteSet(S \ T) /\ T \in SUBSET S
    <3>1. IsFiniteSet(T) /\ T \in SUBSET S
      BY <1>1
    <3>2. IsFiniteSet(S)
      BY <1>1
    <3> HIDE DEF S, T
    <3>3. IsFiniteSet(S \ T)
      BY <3>2, FS_Difference
    <3> QED
      BY <3>1, <3>2, <3>3
  <2>2. /\ \A x \in S : g[x] \in Nat
        /\ \A x \in T : g[x] \in Nat
        /\ \A x \in S \ T : g[x] \in Nat
    OBVIOUS
  <2> HIDE DEF S, T
  <2>3. SumOver(g, T) \in Nat
    BY <2>1, <2>2, SumType
  <2>4. SumOver(g, S \ T) \in Nat
    BY <2>1, <2>2, SumType
  <2>5. SumOver(g, T) + SumOver(g, S \ T) = SumOver(g, S)
    BY <2>1, <2>2, SumSplit
  <2>6. SumOver(g, T) <= SumOver(g, S)
    BY <2>3, <2>4, <2>5
  <2> QED
    BY <2>3, <2>6 DEF S, T
<1>4. ASSUME NEW k \in 1 .. n
      PROVE  SumOver(g, 1 .. k) = SumOver(g, 1 .. k - 1) + g[k]
  <2>1. 1 .. k = (1 .. k - 1) \cup {k}
    OBVIOUS
  <2>2. IsFiniteSet(1 .. k - 1) /\ k \notin 1 .. k - 1
    BY <1>1
  <2>3. g[k] \in Nat /\ \A x \in 1 .. k - 1 : g[x] \in Nat
    OBVIOUS
  <2> DEFINE T == 1 .. k - 1
  <2> HIDE DEF T
  <2>4. SumOver(g, T \cup {k}) = SumOver(g, T) + g[k]
    BY <2>2, <2>3, SumAdd DEF T
  <2> QED
    BY <2>1, <2>4 DEF T
<1> QED
  BY <1>2, <1>3, <1>4

LEMMA AddUpFacts ==
  ASSUME NEW value, Len(value) \in Nat, NEW sub, DOMAIN sub = 1 .. Len(value), NEW max \in Nat,
         \A k \in 1 .. Len(value) : sub[k] \in Sizings
  PROVE  AddsUpTo(value, sub, max)
<1> DEFINE n == Len(value)
           g == Bytes(sub)
           S(k) == SumOver(g, 1 .. k)
           Fine(k) == \A j \in 1 .. k : sub[j].ok
<1>1. \A k \in 1 .. n : g[k] = sub[k].bytes /\ g[k] \in Nat /\ sub[k].ok \in BOOLEAN
  BY DEF Bytes, Sizings
<1> HIDE DEF g
<1>2. /\ S(0) = 0
      /\ \A k \in 0 .. n : S(k) \in Nat /\ S(k) <= S(n)
      /\ \A k \in 1 .. n : S(k) = S(k - 1) + g[k]
  BY <1>1, PartialSums
<1> HIDE DEF S
<1>3. PICK f :
        /\ f[0] = Sized(0)
        /\ \A k \in 1 .. n : f[k] = AddStep(value, sub, max, f[k - 1], k)
        /\ AddUp(value, sub, max) = IF f[n].ok /\ f[n].bytes <= max THEN f[n] ELSE TooLarge
  BY AddUpWalks
<1> DEFINE Right(k) == /\ f[k] \in Sizings
                       /\ f[k].ok => Fine(k) /\ f[k] = Sized(S(k))
                       /\ Fine(k) /\ S(n) <= max => f[k].ok
           Good == {k \in Nat : k <= n => Right(k)}
<1>4. 0 \in Good
  <2>1. f[0] = Sized(S(0)) /\ f[0].ok
    <3>1. S(0) = 0 /\ f[0] = Sized(0)
      BY <1>2, <1>3
    <3>2. f[0] = Sized(S(0))
      BY <3>1
    <3>3. f[0].ok
      BY <3>1 DEF Sized
    <3> QED
      BY <3>2, <3>3
  <2>3. Fine(0)
    OBVIOUS
  <2>2. f[0] \in Sizings
    BY <1>3 DEF Sized, Sizings
  <2> QED
    BY <2>1, <2>2, <2>3
<1>5. ASSUME NEW k \in Nat, k \in Good PROVE k + 1 \in Good
  <2>1. SUFFICES ASSUME k + 1 <= n PROVE Right(k + 1)
    OBVIOUS
  <2>2. Right(k) /\ k + 1 \in 1 .. n /\ k \in 0 .. n /\ k + 1 \in 0 .. n /\ k + 1 - 1 = k
    BY <1>5, <2>1
  <2>3. f[k + 1] = AddStep(value, sub, max, f[k], k + 1)
    BY <1>3, <2>2
  <2>4. f[k + 1] \in Sizings
    BY <2>2, <2>3, AddStepSized
  <2>5. Fine(k + 1) <=> Fine(k) /\ sub[k + 1].ok
    BY <2>2
  <2>6. S(k + 1) = S(k) + sub[k + 1].bytes
    BY <1>1, <1>2, <2>2
  <2> HIDE DEF Fine
  <2>7. f[k + 1].ok => Fine(k + 1) /\ f[k + 1] = Sized(S(k + 1))
    <3> SUFFICES ASSUME f[k + 1].ok PROVE Fine(k + 1) /\ f[k + 1] = Sized(S(k + 1))
      OBVIOUS
    <3>1. f[k + 1] # TooLarge
      BY DEF TooLarge
    <3>2. /\ f[k].ok /\ sub[k + 1].ok
          /\ f[k + 1] = Sized(f[k].bytes + sub[k + 1].bytes)
      BY <2>3, <3>1 DEF AddStep
    <3>3. f[k].bytes = S(k)
      BY <2>2, <3>2 DEF Sized
    <3> QED
      BY <2>2, <2>5, <2>6, <3>2, <3>3
  <2>8. Fine(k + 1) /\ S(n) <= max => f[k + 1].ok
    <3> SUFFICES ASSUME Fine(k + 1), S(n) <= max PROVE f[k + 1].ok
      OBVIOUS
    <3>1. f[k].ok /\ sub[k + 1].ok
      BY <2>2, <2>5
    <3>2. f[k].bytes = S(k)
      BY <2>2, <3>1 DEF Sized
    <3>3. f[k].bytes + sub[k + 1].bytes <= max
      <4>1. S(k + 1) \in Nat /\ S(n) \in Nat /\ S(k + 1) <= S(n)
        BY <1>2, <2>2
      <4>2. S(k + 1) <= max
        BY <4>1
      <4> QED
        BY <2>6, <3>2, <4>2
    <3>4. ~ (f[k].bytes + sub[k + 1].bytes > max)
      <4>1. f[k].bytes + sub[k + 1].bytes \in Nat
        BY <1>1, <1>2, <2>2, <2>6, <3>2
      <4> QED
        BY <3>3, <4>1
    <3>5. f[k + 1] = Sized(f[k].bytes + sub[k + 1].bytes)
      BY <2>3, <3>1, <3>4 DEF AddStep
    <3> QED
      BY <3>5 DEF Sized
  <2> QED
    BY <2>4, <2>7, <2>8
<1> HIDE DEF Good
<1>6. n \in Good
  BY <1>4, <1>5, NatSetInduction
<1>7. Right(n)
  BY <1>6 DEF Good
<1> HIDE DEF Fine
<1>8. CASE Fine(n) /\ S(n) <= max
  <2>1. f[n].ok /\ f[n] = Sized(S(n))
    BY <1>7, <1>8
  <2>2. f[n].bytes <= max
    BY <1>8, <2>1 DEF Sized
  <2>3. AddUp(value, sub, max) = Sized(S(n))
    BY <1>3, <2>1, <2>2
  <2> QED
    BY <1>8, <2>3 DEF AddsUpTo, Fine, S, g
<1>9. CASE ~ (Fine(n) /\ S(n) <= max)
  <2>1. ~ (f[n].ok /\ f[n].bytes <= max)
    BY <1>7, <1>9 DEF Sized
  <2>2. AddUp(value, sub, max) = TooLarge
    BY <1>3, <2>1
  <2> QED
    BY <1>9, <2>2 DEF AddsUpTo, Fine, S, g
<1> QED
  BY <1>8, <1>9

-----------------------------------------------------------------------------
(* A table of entities as a document can have it.                          *)
Table(entities) ==
  \A n \in DOMAIN entities :
    /\ Len(entities[n]) \in Nat
    /\ DOMAIN entities[n] = 1 .. Len(entities[n])
    /\ \A k \in DOMAIN entities[n] : Piece(entities[n][k])

Limits(budget) ==
  {budget.maxEntityCount, budget.maxEntityDepth, budget.maxExpandedSize} \subseteq Nat

Worths(entities, sizes, path, left, n) ==
  [k \in DOMAIN entities[n] |-> Worth(entities, sizes, path, left, entities[n][k])]

(* What expanded_size() answers with so much of the depth left.            *)
Level(entities, budget, sizes, left) ==
  [visiting \in SUBSET DOMAIN entities |->
    [name \in DOMAIN entities |->
       AddUp(entities[name], Worths(entities, sizes, visiting \cup {name}, left, name),
             budget.maxExpandedSize)]]

Levels(entities) == [SUBSET DOMAIN entities -> [DOMAIN entities -> Sizings]]

Nests(entities, budget, f) ==
  f = [left \in 0 .. budget.maxEntityDepth |-> Level(entities, budget, f[left - 1], left)]

Levelled(entities, budget, f) ==
  /\ f \in [0 .. budget.maxEntityDepth -> Levels(entities)]
  /\ \A left \in 0 .. budget.maxEntityDepth :
       f[left] = Level(entities, budget, f[left - 1], left)

(* Every piece is worth something, at any depth.                           *)
LEMMA WorthSized ==
  ASSUME NEW entities, Table(entities), NEW left, NEW sizes,
         left = 0 \/ sizes \in Levels(entities),
         NEW path \in SUBSET DOMAIN entities, NEW n \in DOMAIN entities,
         NEW k \in DOMAIN entities[n]
  PROVE  Worth(entities, sizes, path, left, entities[n][k]) \in Sizings
<1> DEFINE p == entities[n][k]
<1>1. p.kind # "ref" => p.length \in Nat
  BY DEF Table, Piece
<1>2. \A b \in Nat : Sized(b) \in Sizings
  BY DEF Sized, Sizings
<1>3. TooLarge \in Sizings
  BY DEF TooLarge, Sizings
<1>4. left # 0 /\ p.name \in DOMAIN entities => sizes[path][p.name] \in Sizings
  <2> SUFFICES ASSUME left # 0, p.name \in DOMAIN entities PROVE sizes[path][p.name] \in Sizings
    OBVIOUS
  <2>1. sizes[path] \in [DOMAIN entities -> Sizings]
    BY DEF Levels
  <2> QED
    BY <2>1
<1> HIDE DEF p
<1>5. Worth(entities, sizes, path, left, p) \in Sizings
  BY <1>1, <1>2, <1>3, <1>4 DEF Worth
<1> QED
  BY <1>5 DEF p

(* A name is as large as its pieces are worth.                             *)
LEMMA LevelAddsUp ==
  ASSUME NEW entities, Table(entities), NEW budget, Limits(budget), NEW left, NEW sizes,
         left = 0 \/ sizes \in Levels(entities),
         NEW path \in SUBSET DOMAIN entities, NEW n \in DOMAIN entities
  PROVE  /\ DOMAIN Worths(entities, sizes, path, left, n) = 1 .. Len(entities[n])
         /\ \A k \in 1 .. Len(entities[n]) :
              /\ Worths(entities, sizes, path, left, n)[k]
                   = Worth(entities, sizes, path, left, entities[n][k])
              /\ Worths(entities, sizes, path, left, n)[k] \in Sizings
         /\ AddsUpTo(entities[n], Worths(entities, sizes, path, left, n), budget.maxExpandedSize)
         /\ AddUp(entities[n], Worths(entities, sizes, path, left, n), budget.maxExpandedSize)
              \in Sizings
<1> DEFINE w == Worths(entities, sizes, path, left, n)
           value == entities[n]
           max == budget.maxExpandedSize
<1>1. Len(value) \in Nat /\ DOMAIN value = 1 .. Len(value)
  BY DEF Table
<1>2. DOMAIN w = 1 .. Len(value)
  BY <1>1 DEF Worths
<1>3. \A k \in 1 .. Len(value) : w[k] = Worth(entities, sizes, path, left, value[k])
  BY <1>1 DEF Worths
<1>4. \A k \in 1 .. Len(value) : w[k] \in Sizings
  BY <1>1, <1>3, WorthSized
<1>5. max \in Nat
  BY DEF Limits
<1> HIDE DEF w, max
<1>6. AddsUpTo(value, w, max)
  BY <1>1, <1>2, <1>4, <1>5, AddUpFacts
<1>7. SumOver(Bytes(w), 1 .. Len(value)) \in Nat
  <2>1. \A k \in 1 .. Len(value) : Bytes(w)[k] \in Nat
    BY <1>2, <1>4 DEF Bytes, Sizings
  <2>2. IsFiniteSet(1 .. Len(value))
    BY <1>1, FS_Interval
  <2> QED
    BY <2>1, <2>2, SumType
<1>8. AddUp(value, w, max) \in Sizings
  <2>1. AddUp(value, w, max) = Sized(SumOver(Bytes(w), 1 .. Len(value)))
        \/ AddUp(value, w, max) = TooLarge
    BY <1>6 DEF AddsUpTo
  <2>2. Sized(SumOver(Bytes(w), 1 .. Len(value))) \in Sizings
    BY <1>7 DEF Sized, Sizings
  <2>3. TooLarge \in Sizings
    BY DEF TooLarge, Sizings
  <2> QED
    BY <2>1, <2>2, <2>3
<1> QED
  BY <1>2, <1>3, <1>4, <1>6, <1>8 DEF w, max

LEMMA LevelTyped ==
  ASSUME NEW entities, Table(entities), NEW budget, Limits(budget), NEW left, NEW sizes,
         left = 0 \/ sizes \in Levels(entities)
  PROVE  Level(entities, budget, sizes, left) \in Levels(entities)
<1>1. ASSUME NEW visiting \in SUBSET DOMAIN entities, NEW name \in DOMAIN entities
      PROVE  AddUp(entities[name], Worths(entities, sizes, visiting \cup {name}, left, name),
                   budget.maxExpandedSize) \in Sizings
  <2>1. visiting \cup {name} \in SUBSET DOMAIN entities
    OBVIOUS
  <2> QED
    BY <2>1, LevelAddsUp
<1> QED
  BY <1>1 DEF Level, Levels

(* With nothing left of the depth what lies below does not count.          *)
LEMMA BottomLevel ==
  ASSUME NEW entities, NEW budget, NEW f, NEW g
  PROVE  Level(entities, budget, f, 0) = Level(entities, budget, g, 0)
<1>1. \A path, p : Worth(entities, f, path, 0, p) = Worth(entities, g, path, 0, p)
  BY DEF Worth
<1>2. \A path, n : Worths(entities, f, path, 0, n) = Worths(entities, g, path, 0, n)
  BY <1>1 DEF Worths
<1> QED
  BY <1>2 DEF Level

(* The levels of the walk are there, each built on the one below it.       *)
LEMMA WalkLevels ==
  ASSUME NEW entities, Table(entities), NEW budget, Limits(budget)
  PROVE  \E f : /\ Levelled(entities, budget, f)
                /\ ExpandedSize(entities, budget) = f[budget.maxEntityDepth][{}]
<1> DEFINE d == budget.maxEntityDepth
           L(sizes, left) == Level(entities, budget, sizes, left)
           G == [k \in 1 .. d |-> [sizes \in Levels(entities) |-> L(sizes, k)]]
<1>1. d \in Nat
  BY DEF Limits
<1>2. \A sizes \in Levels(entities) : \A k \in 1 .. d : L(sizes, k) \in Levels(entities)
  BY LevelTyped
<1>3. \A sizes : L(sizes, 0) \in Levels(entities)
  BY LevelTyped
<1>4. \A f, g : L(f, 0) = L(g, 0)
  BY BottomLevel
<1> HIDE DEF L, G, d
<1>5. G \in [1 .. d -> [Levels(entities) -> Levels(entities)]]
  BY <1>2 DEF G
<1>6. \A k \in 1 .. d : \A sizes \in Levels(entities) : G[k][sizes] = L(sizes, k)
  BY DEF G
<1>19. d \in Nat
  BY <1>1
<1>7. PICK g \in [0 .. d -> Levels(entities)] :
        g[0] = L(<<>>, 0) /\ \A k \in 1 .. d : g[k] = G[k][g[k - 1]]
  <2> DEFINE base == L(<<>>, 0)
  <2> HIDE DEF base
  <2>1. base \in Levels(entities)
    BY <1>3 DEF base
  <2>2. \E g \in [0 .. d -> Levels(entities)] :
          g[0] = base /\ \A k \in 1 .. d : g[k] = G[k][g[k - 1]]
    <3>1. G \in Steppers(d, Levels(entities))
      BY <1>5 DEF Steppers
    <3>2. \E g : Iteration(g, G, base, d, Levels(entities))
      BY <1>19, <2>1, <3>1, Iterates
    <3> QED
      BY <3>2 DEF Iteration
  <2> QED
    BY <2>2 DEF base
<1>8. \A k \in 0 .. d : g[k] = L(g[k - 1], k)
  <2>1. ASSUME NEW k \in 1 .. d PROVE g[k] = L(g[k - 1], k)
    <3>1. k - 1 \in 0 .. d
      BY <1>1
    <3>2. g[k - 1] \in Levels(entities)
      BY <1>7, <3>1
    <3> QED
      BY <1>6, <1>7, <3>2
  <2>2. g[0] = L(g[0 - 1], 0)
    BY <1>4, <1>7
  <2> QED
    BY <1>1, <2>1, <2>2
<1>9. Nests(entities, budget, g)
  <2> DEFINE h == [k \in 0 .. d |-> L(g[k - 1], k)]
  <2>1. \A k \in 0 .. d : g[k] = h[k]
    BY <1>8
  <2>2. h = [k \in 0 .. d |-> h[k]]
    OBVIOUS
  <2> HIDE DEF h
  <2>3. g = h
    BY <1>7, <2>1, <2>2
  <2> QED
    BY <2>3 DEF Nests, L, d, h
<1> DEFINE f == CHOOSE f : Nests(entities, budget, f)
<1>10. Nests(entities, budget, f)
  BY <1>9
<1>11. ExpandedSize(entities, budget) = f[budget.maxEntityDepth][{}]
  BY DEF ExpandedSize, Nests, Level, Worths
<1> HIDE DEF f
<1>12. DOMAIN f = 0 .. d /\ \A k \in 0 .. d : f[k] = L(f[k - 1], k)
  <2> DEFINE h == [k \in 0 .. d |-> L(f[k - 1], k)]
  <2>1. f = h
    BY <1>10 DEF Nests, L, d
  <2>2. DOMAIN h = 0 .. d /\ \A k \in 0 .. d : h[k] = L(f[k - 1], k)
    OBVIOUS
  <2> HIDE DEF h
  <2> QED
    BY <2>1, <2>2
<1> DEFINE Good == {k \in Nat : k <= d => f[k] \in Levels(entities)}
<1>13. 0 \in Good
  <2>1. f[0] = L(f[0 - 1], 0)
    BY <1>1, <1>12
  <2> QED
    BY <1>3, <2>1
<1>14. ASSUME NEW k \in Nat, k \in Good PROVE k + 1 \in Good
  <2>1. SUFFICES ASSUME k + 1 <= d PROVE f[k + 1] \in Levels(entities)
    OBVIOUS
  <2>2. f[k] \in Levels(entities) /\ k + 1 \in 1 .. d /\ k + 1 \in 0 .. d /\ k + 1 - 1 = k
    BY <1>1, <1>14, <2>1
  <2>3. f[k + 1] = L(f[k], k + 1)
    BY <1>12, <2>2
  <2>4. L(f[k], k + 1) = Level(entities, budget, f[k], k + 1)
    BY DEF L
  <2> QED
    BY <2>2, <2>3, <2>4, LevelTyped
<1> HIDE DEF Good
<1>15. \A k \in Nat : k \in Good
  BY <1>13, <1>14, NatSetInduction
<1>16. \A k \in 0 .. d : f[k] \in Levels(entities)
  BY <1>1, <1>15 DEF Good
<1>17. f \in [0 .. d -> Levels(entities)]
  <2> DEFINE h == [k \in 0 .. d |-> L(f[k - 1], k)]
  <2>1. f = h
    BY <1>10 DEF Nests, L, d
  <2>2. \A k \in 0 .. d : h[k] \in Levels(entities)
    <3>1. \A k \in 0 .. d : h[k] = f[k]
      BY <1>12
    <3> HIDE DEF h
    <3> QED
      BY <1>16, <3>1
  <2>3. h = [k \in 0 .. d |-> h[k]]
    OBVIOUS
  <2> HIDE DEF h
  <2> QED
    BY <2>1, <2>2, <2>3
<1>18. Levelled(entities, budget, f)
  BY <1>12, <1>17 DEF Levelled, L, d
<1> QED
  BY <1>11, <1>18

-----------------------------------------------------------------------------
(* What piece k of a name's value is worth with so much of the depth left. *)
At(entities, f, path, left, n, k) == Worth(entities, f[left - 1], path, left, entities[n][k])

(* What the walk finds a name to be is what its pieces add up to.          *)
NameAddsUp(entities, budget, f, left, visiting, n) ==
  LET w == Worths(entities, f[left - 1], visiting \cup {n}, left, n)
      value == entities[n]
  IN  /\ f[left][visiting][n] = AddUp(value, w, budget.maxExpandedSize)
      /\ AddsUpTo(value, w, budget.maxExpandedSize)
      /\ f[left][visiting][n] \in Sizings
      /\ DOMAIN w = 1 .. Len(value)
      /\ \A k \in 1 .. Len(value) :
           /\ w[k] = At(entities, f, visiting \cup {n}, left, n, k)
           /\ w[k] \in Sizings

LEMMA LevelFacts ==
  ASSUME NEW entities, Table(entities), NEW budget, Limits(budget), NEW f,
         Levelled(entities, budget, f), NEW left \in 0 .. budget.maxEntityDepth,
         NEW visiting \in SUBSET DOMAIN entities, NEW n \in DOMAIN entities
  PROVE  NameAddsUp(entities, budget, f, left, visiting, n)
<1> DEFINE w == Worths(entities, f[left - 1], visiting \cup {n}, left, n)
           value == entities[n]
<1>1. budget.maxEntityDepth \in Nat
  BY DEF Limits
<1>2. left = 0 \/ f[left - 1] \in Levels(entities)
  <2>1. left # 0 => left - 1 \in 0 .. budget.maxEntityDepth
    BY <1>1
  <2> QED
    BY <2>1 DEF Levelled
<1>3. visiting \cup {n} \in SUBSET DOMAIN entities
  OBVIOUS
<1>4. f[left] = Level(entities, budget, f[left - 1], left)
  BY DEF Levelled
<1>5. f[left][visiting][n] = AddUp(value, w, budget.maxExpandedSize)
  BY <1>4 DEF Level
<1>6. /\ DOMAIN w = 1 .. Len(value)
      /\ \A k \in 1 .. Len(value) : /\ w[k] = At(entities, f, visiting \cup {n}, left, n, k)
                                    /\ w[k] \in Sizings
      /\ AddsUpTo(value, w, budget.maxExpandedSize)
      /\ AddUp(value, w, budget.maxExpandedSize) \in Sizings
  BY <1>2, <1>3, LevelAddsUp DEF At
<1> QED
  BY <1>5, <1>6 DEF NameAddsUp

(* A name that is not too large has only pieces that are not.              *)
FineName(entities, budget, f, left, visiting, n) ==
  LET w == Worths(entities, f[left - 1], visiting \cup {n}, left, n)
      sum == SumOver(Bytes(w), 1 .. Len(entities[n]))
  IN  /\ \A k \in 1 .. Len(entities[n]) : At(entities, f, visiting \cup {n}, left, n, k).ok
      /\ sum <= budget.maxExpandedSize
      /\ f[left][visiting][n] = Sized(sum)

LEMMA FinePieces ==
  ASSUME NEW entities, Table(entities), NEW budget, Limits(budget), NEW f,
         Levelled(entities, budget, f), NEW left \in 0 .. budget.maxEntityDepth,
         NEW visiting \in SUBSET DOMAIN entities, NEW n \in DOMAIN entities,
         f[left][visiting][n].ok
  PROVE  FineName(entities, budget, f, left, visiting, n)
<1> DEFINE w == Worths(entities, f[left - 1], visiting \cup {n}, left, n)
           sum == SumOver(Bytes(w), 1 .. Len(entities[n]))
<1>1. /\ f[left][visiting][n] = AddUp(entities[n], w, budget.maxExpandedSize)
      /\ AddsUpTo(entities[n], w, budget.maxExpandedSize)
      /\ \A k \in 1 .. Len(entities[n]) : w[k] = At(entities, f, visiting \cup {n}, left, n, k)
  <2>1. NameAddsUp(entities, budget, f, left, visiting, n)
    BY LevelFacts
  <2> QED
    BY <2>1 DEF NameAddsUp
<1> HIDE DEF w
<1>2. AddUp(entities[n], w, budget.maxExpandedSize) # TooLarge
  BY <1>1 DEF TooLarge
<1>3. /\ \A k \in 1 .. Len(entities[n]) : w[k].ok
      /\ sum <= budget.maxExpandedSize
      /\ AddUp(entities[n], w, budget.maxExpandedSize) = Sized(sum)
  BY <1>1, <1>2 DEF AddsUpTo
<1>4. \A k \in 1 .. Len(entities[n]) : At(entities, f, visiting \cup {n}, left, n, k).ok
  BY <1>1, <1>3
<1> QED
  BY <1>1, <1>3, <1>4 DEF w, FineName

(* A reference that is not too large leads further down, to a name that is *)
(* not on the way there.                                                   *)
LeadsDown(entities, f, path, left, n, k) ==
  LET p == entities[n][k] IN
  /\ left # 0
  /\ p.name \in DOMAIN entities =>
       p.name \notin path /\ At(entities, f, path, left, n, k) = f[left - 1][path][p.name]

LEMMA FineReference ==
  ASSUME NEW entities, NEW f, NEW path, NEW left, NEW n, NEW k,
         At(entities, f, path, left, n, k).ok, entities[n][k].kind = "ref"
  PROVE  LeadsDown(entities, f, path, left, n, k)
<1>1. Worth(entities, f[left - 1], path, left, entities[n][k]) # TooLarge
  BY DEF TooLarge, At
<1> QED
  BY <1>1 DEF Worth, At, LeadsDown

(* More depth and fewer names on the way change nothing that was not too   *)
(* large.                                                                  *)
Same(entities, budget, f, left) ==
  \A more \in left .. budget.maxEntityDepth, visiting \in SUBSET DOMAIN entities :
    \A fewer \in SUBSET visiting, n \in DOMAIN entities :
      f[left][visiting][n].ok => f[more][fewer][n] = f[left][visiting][n]

LEMMA SameStep ==
  ASSUME NEW entities, Table(entities), NEW budget, Limits(budget), NEW f,
         Levelled(entities, budget, f), NEW left \in 0 .. budget.maxEntityDepth,
         left # 0 => Same(entities, budget, f, left - 1)
  PROVE  Same(entities, budget, f, left)
<1>1. SUFFICES ASSUME NEW more \in left .. budget.maxEntityDepth,
                      NEW visiting \in SUBSET DOMAIN entities,
                      NEW fewer \in SUBSET visiting, NEW n \in DOMAIN entities,
                      f[left][visiting][n].ok
               PROVE  f[more][fewer][n] = f[left][visiting][n]
  BY DEF Same
<1> DEFINE D == DOMAIN entities
           V == visiting \cup {n}
           U == fewer \cup {n}
           v == Worths(entities, f[left - 1], V, left, n)
           u == Worths(entities, f[more - 1], U, more, n)
<1>2. budget.maxEntityDepth \in Nat /\ more \in 0 .. budget.maxEntityDepth /\ fewer \in SUBSET D
  BY DEF Limits
<1>3. /\ f[left][visiting][n] = AddUp(entities[n], v, budget.maxExpandedSize)
      /\ DOMAIN v = 1 .. Len(entities[n])
      /\ \A k \in 1 .. Len(entities[n]) : v[k] = At(entities, f, V, left, n, k)
  <2>1. NameAddsUp(entities, budget, f, left, visiting, n)
    BY LevelFacts
  <2> QED
    BY <2>1 DEF NameAddsUp
<1>4. /\ f[more][fewer][n] = AddUp(entities[n], u, budget.maxExpandedSize)
      /\ DOMAIN u = 1 .. Len(entities[n])
      /\ \A k \in 1 .. Len(entities[n]) : u[k] = At(entities, f, U, more, n, k)
  <2>1. NameAddsUp(entities, budget, f, more, fewer, n)
    BY <1>2, LevelFacts
  <2> QED
    BY <2>1 DEF NameAddsUp
<1>5. \A k \in 1 .. Len(entities[n]) : At(entities, f, V, left, n, k).ok
  <2>1. FineName(entities, budget, f, left, visiting, n)
    BY <1>1, FinePieces
  <2> QED
    BY <2>1 DEF FineName
<1>6. ASSUME NEW k \in 1 .. Len(entities[n])
      PROVE  At(entities, f, U, more, n, k) = At(entities, f, V, left, n, k)
  <2> DEFINE p == entities[n][k]
  <2>1. CASE p.kind # "ref"
    BY <2>1 DEF At, Worth
  <2>2. CASE p.kind = "ref"
    <3>5. LeadsDown(entities, f, V, left, n, k)
      BY <1>5, <2>2, FineReference
    <3>1. left # 0
      BY <3>5 DEF LeadsDown
    <3>2. more # 0 /\ more - 1 \in left - 1 .. budget.maxEntityDepth
      BY <1>2, <3>1
    <3>3. CASE p.name \notin D
      BY <2>2, <3>1, <3>2, <3>3 DEF At, Worth
    <3>4. CASE p.name \in D
      <4>1. p.name \notin V /\ At(entities, f, V, left, n, k) = f[left - 1][V][p.name]
        BY <3>4, <3>5 DEF LeadsDown
      <4>2. p.name \notin U /\ U \in SUBSET V /\ V \in SUBSET D
        BY <4>1
      <4>3. f[left - 1][V][p.name].ok
        BY <1>5, <4>1
      <4>4. f[more - 1][U][p.name] = f[left - 1][V][p.name]
        BY <3>1, <3>2, <3>4, <4>2, <4>3 DEF Same
      <4>5. At(entities, f, U, more, n, k) = f[more - 1][U][p.name]
        BY <2>2, <3>2, <3>4, <4>2 DEF At, Worth
      <4> QED
        BY <4>1, <4>4, <4>5
    <3> QED
      BY <3>3, <3>4
  <2> QED
    BY <2>1, <2>2
<1>7. u = v
  <2>1. u = [k \in DOMAIN entities[n] |-> u[k]] /\ v = [k \in DOMAIN entities[n] |-> v[k]]
    BY DEF Worths
  <2>2. DOMAIN entities[n] = 1 .. Len(entities[n])
    BY DEF Table
  <2> HIDE DEF u, v
  <2>3. \A k \in 1 .. Len(entities[n]) : u[k] = v[k]
    BY <1>3, <1>4, <1>6
  <2> QED
    BY <2>1, <2>2, <2>3
<1> HIDE DEF u, v
<1> QED
  BY <1>3, <1>4, <1>7

LEMMA AllSame ==
  ASSUME NEW entities, Table(entities), NEW budget, Limits(budget), NEW f,
         Levelled(entities, budget, f)
  PROVE  \A left \in 0 .. budget.maxEntityDepth : Same(entities, budget, f, left)
<1> DEFINE d == budget.maxEntityDepth
           Good == {left \in Nat : left <= d => Same(entities, budget, f, left)}
<1>1. d \in Nat
  BY DEF Limits
<1>2. 0 \in Good
  <2>1. 0 \in 0 .. d
    BY <1>1
  <2>2. Same(entities, budget, f, 0)
    BY <2>1, SameStep
  <2> QED
    BY <2>2
<1>3. ASSUME NEW left \in Nat, left \in Good PROVE left + 1 \in Good
  <2>1. SUFFICES ASSUME left + 1 <= d PROVE Same(entities, budget, f, left + 1)
    OBVIOUS
  <2>2. left + 1 \in 0 .. d /\ left + 1 - 1 = left /\ Same(entities, budget, f, left)
    BY <1>1, <1>3, <2>1
  <2> QED
    BY <2>2, SameStep
<1> HIDE DEF Good
<1>4. \A left \in Nat : left \in Good
  BY <1>2, <1>3, NatSetInduction
<1> QED
  BY <1>1, <1>4 DEF Good

-----------------------------------------------------------------------------
(* A set of numbers that is not empty has a least one.                     *)
LEMMA LeastIsIn ==
  ASSUME NEW S \in SUBSET Nat, S # {}
  PROVE  \E x \in S : \A y \in S : x <= y
<1> DEFINE Bottom(T) == \E x \in T : \A y \in T : x <= y
           Good == {m \in Nat : \A T \in SUBSET Nat : (\E x \in T : x <= m) => Bottom(T)}
<1>1. 0 \in Good
  <2>1. ASSUME NEW T \in SUBSET Nat, NEW x \in T, x <= 0 PROVE Bottom(T)
    <3>1. x = 0
      BY <2>1
    <3> QED
      BY <3>1
  <2> QED
    BY <2>1
<1>2. ASSUME NEW m \in Nat, m \in Good PROVE m + 1 \in Good
  <2>1. SUFFICES ASSUME NEW T \in SUBSET Nat, NEW x \in T, x <= m + 1 PROVE Bottom(T)
    OBVIOUS
  <2>2. CASE \E y \in T : y <= m
    BY <1>2, <2>2
  <2>3. CASE ~ \E y \in T : y <= m
    <3>1. \A y \in T : m + 1 <= y
      BY <2>3
    <3>2. x = m + 1
      BY <2>1, <3>1
    <3> QED
      BY <3>1, <3>2
  <2> QED
    BY <2>2, <2>3
<1> HIDE DEF Good
<1>3. \A m \in Nat : m \in Good
  BY <1>1, <1>2, NatSetInduction
<1>4. PICK m \in S : TRUE
  OBVIOUS
<1>5. m \in Good /\ m <= m
  BY <1>3, <1>4
<1>6. Bottom(S)
  BY <1>4, <1>5 DEF Good
<1> QED
  BY <1>6

(* What no walk finds too large can be ranked: by the least depth at which *)
(* each name is not.                                                       *)
LEMMA RanksExist ==
  ASSUME NEW entities, Table(entities), NEW budget, Limits(budget), NEW f,
         Levelled(entities, budget, f),
         \A n \in DOMAIN entities : f[budget.maxEntityDepth][{}][n].ok
  PROVE  \E rank \in [DOMAIN entities -> 0 .. budget.maxEntityDepth] : Ranked(entities, rank)
<1> DEFINE d == budget.maxEntityDepth
           D == DOMAIN entities
           Fit(n) == {left \in 0 .. d : f[left][{}][n].ok}
           Least(n) == CHOOSE x \in Fit(n) : \A y \in Fit(n) : x <= y
           rank == [n \in D |-> Least(n)]
<1>1. d \in Nat
  BY DEF Limits
<1>2. ASSUME NEW n \in D
      PROVE  /\ Least(n) \in Fit(n)
             /\ \A y \in Fit(n) : Least(n) <= y
  <2>1. d \in Fit(n) /\ Fit(n) \in SUBSET Nat
    BY <1>1
  <2> HIDE DEF Fit
  <2>2. \E x \in Fit(n) : \A y \in Fit(n) : x <= y
    BY <2>1, LeastIsIn
  <2> QED
    BY <2>2
<1>3. \A n \in D : rank[n] = Least(n)
  OBVIOUS
<1>4. rank \in [D -> 0 .. d]
  BY <1>2
<1> HIDE DEF Least, rank
<1>5. ASSUME NEW n \in D, NEW k \in DOMAIN entities[n], entities[n][k].kind = "ref"
      PROVE  /\ rank[n] > 0
             /\ entities[n][k].name \in D => rank[entities[n][k].name] < rank[n]
  <2> DEFINE p == entities[n][k]
             r == rank[n]
  <2>1. r \in 0 .. d /\ f[r][{}][n].ok
    BY <1>2, <1>3
  <2>2. k \in 1 .. Len(entities[n])
    BY DEF Table
  <2>3. {} \cup {n} = {n} /\ {} \in SUBSET D /\ {n} \in SUBSET D
    OBVIOUS
  <2>4. At(entities, f, {n}, r, n, k).ok
    <3>1. \A j \in 1 .. Len(entities[n]) : At(entities, f, {} \cup {n}, r, n, j).ok
      <4>1. FineName(entities, budget, f, r, {}, n)
        BY <2>1, <2>3, FinePieces
      <4> QED
        BY <4>1 DEF FineName
    <3> QED
      BY <2>2, <2>3, <3>1
  <2>5. LeadsDown(entities, f, {n}, r, n, k)
    BY <1>5, <2>4, FineReference
  <2>6. r > 0 /\ r - 1 \in 0 .. d
    BY <1>1, <2>1, <2>5 DEF LeadsDown
  <2>7. ASSUME p.name \in D PROVE rank[p.name] < r
    <3>1. f[r - 1][{n}][p.name].ok
      BY <2>4, <2>5, <2>7 DEF LeadsDown
    <3>2. Same(entities, budget, f, r - 1)
      BY <2>6, AllSame
    <3>3. r - 1 \in r - 1 .. d /\ {} \in SUBSET {n}
      BY <1>1, <2>6
    <3>4. f[r - 1][{}][p.name] = f[r - 1][{n}][p.name]
      BY <2>3, <2>7, <3>1, <3>2, <3>3 DEF Same
    <3>5. r - 1 \in Fit(p.name)
      BY <2>6, <3>1, <3>4
    <3>6. rank[p.name] <= r - 1
      BY <1>2, <1>3, <2>7, <3>5
    <3>7. rank[p.name] \in Nat /\ r \in Nat
      BY <1>1, <1>4, <2>7
    <3> QED
      BY <3>6, <3>7
  <2> QED
    BY <2>6, <2>7
<1>6. Ranked(entities, rank)
  BY <1>5 DEF Ranked
<1> QED
  BY <1>4, <1>6

(* ... and measured, by what the walk itself found.                        *)
LEMMA LengthsExist ==
  ASSUME NEW entities, Table(entities), NEW budget, Limits(budget), NEW f,
         Levelled(entities, budget, f),
         \A n \in DOMAIN entities : f[budget.maxEntityDepth][{}][n].ok
  PROVE  \E length \in [DOMAIN entities -> 0 .. budget.maxExpandedSize] :
           Measured(entities, length)
<1> DEFINE d == budget.maxEntityDepth
           D == DOMAIN entities
           length == [n \in D |-> f[d][{}][n].bytes]
<1>1. d \in Nat /\ d \in 0 .. d
  BY DEF Limits
<1>2. Same(entities, budget, f, d) /\ (d # 0 => Same(entities, budget, f, d - 1))
  <2>1. d # 0 => d - 1 \in 0 .. d
    BY <1>1
  <2> QED
    BY <1>1, <2>1, AllSame
<1>3. ASSUME NEW n \in D
      PROVE  /\ length[n] \in 0 .. budget.maxExpandedSize
             /\ length[n] = SumOver(Weights(entities, length, n), DOMAIN entities[n])
  <2> DEFINE w == Worths(entities, f[d - 1], {} \cup {n}, d, n)
             sum == SumOver(Bytes(w), 1 .. Len(entities[n]))
             weights == Weights(entities, length, n)
  <2>1. {} \in SUBSET D /\ {} \cup {n} = {n} /\ {n} \in SUBSET D /\ f[d][{}][n].ok
    OBVIOUS
  <2>2. /\ \A k \in 1 .. Len(entities[n]) : At(entities, f, {} \cup {n}, d, n, k).ok
        /\ sum <= budget.maxExpandedSize
        /\ f[d][{}][n] = Sized(sum)
    <3>1. FineName(entities, budget, f, d, {}, n)
      BY <1>1, <2>1, FinePieces
    <3> QED
      BY <3>1 DEF FineName
  <2>3. NameAddsUp(entities, budget, f, d, {}, n)
    BY <1>1, <2>1, LevelFacts
  <2>4. /\ DOMAIN w = 1 .. Len(entities[n])
        /\ \A k \in 1 .. Len(entities[n]) : w[k] = At(entities, f, {n}, d, n, k)
        /\ f[d][{}][n] \in Sizings
    BY <2>1, <2>3 DEF NameAddsUp
  <2>5. DOMAIN entities[n] = 1 .. Len(entities[n]) /\ Len(entities[n]) \in Nat
    BY DEF Table
  <2>6. length[n] = sum /\ length[n] \in Nat
    <3>1. length[n] = f[d][{}][n].bytes
      OBVIOUS
    <3>2. f[d][{}][n].bytes = sum
      <4> HIDE DEF sum
      <4> QED
        BY <2>2 DEF Sized
    <3>3. f[d][{}][n].bytes \in Nat
      BY <2>4 DEF Sizings
    <3> QED
      BY <3>1, <3>2, <3>3
  <2>7. \A m \in D : length[m] = f[d][{}][m].bytes
    OBVIOUS
  <2> HIDE DEF w, length
  <2>8. ASSUME NEW k \in 1 .. Len(entities[n]) PROVE Bytes(w)[k] = weights[k]
    <3> DEFINE p == entities[n][k]
    <3>1. Bytes(w)[k] = At(entities, f, {n}, d, n, k).bytes
      BY <2>4 DEF Bytes
    <3>2. At(entities, f, {n}, d, n, k).ok
      BY <2>1, <2>2
    <3>3. weights[k] = IF p.kind # "ref" THEN p.length
                       ELSE IF p.name \in D THEN length[p.name] ELSE 0
      BY <2>5 DEF Weights
    <3>4. CASE p.kind # "ref"
      <4>1. At(entities, f, {n}, d, n, k) = Sized(p.length)
        BY <3>4 DEF At, Worth
      <4> QED
        BY <3>1, <3>3, <3>4, <4>1 DEF Sized
    <3>5. CASE p.kind = "ref" /\ p.name \notin D
      <4>1. LeadsDown(entities, f, {n}, d, n, k)
        BY <3>2, <3>5, FineReference
      <4>2. At(entities, f, {n}, d, n, k) = Sized(0)
        BY <3>5, <4>1 DEF At, Worth, LeadsDown
      <4> QED
        BY <3>1, <3>3, <3>5, <4>2 DEF Sized
    <3>6. CASE p.kind = "ref" /\ p.name \in D
      <4>1. LeadsDown(entities, f, {n}, d, n, k)
        BY <3>2, <3>6, FineReference
      <4>2. /\ d # 0
            /\ At(entities, f, {n}, d, n, k) = f[d - 1][{n}][p.name]
            /\ f[d - 1][{n}][p.name].ok
        BY <3>2, <3>6, <4>1 DEF LeadsDown
      <4>3. d \in d - 1 .. d /\ {} \in SUBSET {n}
        BY <1>1, <4>2
      <4>4. f[d][{}][p.name] = f[d - 1][{n}][p.name]
        BY <1>2, <2>1, <3>6, <4>2, <4>3 DEF Same
      <4>5. length[p.name] = At(entities, f, {n}, d, n, k).bytes
        BY <2>7, <3>6, <4>2, <4>4
      <4> QED
        BY <3>1, <3>3, <3>6, <4>5
    <3> QED
      BY <3>4, <3>5, <3>6
  <2> DEFINE positions == 1 .. Len(entities[n])
  <2>9. IsFiniteSet(positions)
    BY <2>5, FS_Interval
  <2> HIDE DEF weights, positions
  <2>10. SumOver(Bytes(w), positions) = SumOver(weights, positions)
    BY <2>8, <2>9, SumEqual DEF positions
  <2>11. length[n] = SumOver(weights, DOMAIN entities[n])
    BY <2>5, <2>6, <2>10 DEF positions
  <2>12. length[n] \in 0 .. budget.maxExpandedSize
    BY <2>2, <2>6 DEF Limits
  <2> QED
    BY <2>11, <2>12 DEF weights
<1>4. length \in [D -> 0 .. budget.maxExpandedSize]
  BY <1>3
<1> HIDE DEF length
<1>5. Measured(entities, length)
  BY <1>3 DEF Measured, SumOver
<1> QED
  BY <1>4, <1>5

-----------------------------------------------------------------------------
(* Of what can be ranked and measured no walk within the ranks is too      *)
(* large: it never meets a name again, as the ranks fall along the way.    *)
Walked(entities, f, rank, length, left) ==
  \A visiting \in SUBSET DOMAIN entities, n \in DOMAIN entities :
    rank[n] <= left /\ (\A v \in visiting : rank[n] < rank[v]) =>
      f[left][visiting][n] = Sized(length[n])

LEMMA WalkedStep ==
  ASSUME NEW entities, Table(entities), NEW budget, Limits(budget), NEW f,
         Levelled(entities, budget, f), NEW left \in 0 .. budget.maxEntityDepth,
         NEW rank \in [DOMAIN entities -> 0 .. budget.maxEntityDepth], Ranked(entities, rank),
         NEW length \in [DOMAIN entities -> 0 .. budget.maxExpandedSize],
         Measured(entities, length),
         left # 0 => Walked(entities, f, rank, length, left - 1)
  PROVE  Walked(entities, f, rank, length, left)
<1> DEFINE D == DOMAIN entities
<1>1. SUFFICES ASSUME NEW visiting \in SUBSET D, NEW n \in D, rank[n] <= left,
                      \A v \in visiting : rank[n] < rank[v]
               PROVE  f[left][visiting][n] = Sized(length[n])
  BY DEF Walked
<1> DEFINE V == visiting \cup {n}
           w == Worths(entities, f[left - 1], V, left, n)
           weights == Weights(entities, length, n)
           positions == 1 .. Len(entities[n])
<1>2. budget.maxEntityDepth \in Nat /\ left \in Nat /\ \A m \in D : rank[m] \in Nat
  BY DEF Limits
<1>3. V \in SUBSET D /\ \A v \in V : rank[n] <= rank[v]
  <2>1. \A v \in visiting : rank[n] <= rank[v]
    BY <1>1, <1>2
  <2>2. rank[n] <= rank[n]
    BY <1>2
  <2> QED
    BY <2>1, <2>2
<1>4. NameAddsUp(entities, budget, f, left, visiting, n)
  BY LevelFacts
<1>5. /\ f[left][visiting][n] = AddUp(entities[n], w, budget.maxExpandedSize)
      /\ AddsUpTo(entities[n], w, budget.maxExpandedSize)
      /\ DOMAIN w = positions
      /\ \A k \in positions : w[k] = At(entities, f, V, left, n, k)
  BY <1>4 DEF NameAddsUp
<1>6. DOMAIN entities[n] = positions /\ Len(entities[n]) \in Nat
  BY DEF Table
<1> HIDE DEF w
<1>7. ASSUME NEW k \in positions PROVE w[k] = Sized(weights[k])
  <2> DEFINE p == entities[n][k]
  <2>1. weights[k] = IF p.kind # "ref" THEN p.length
                     ELSE IF p.name \in D THEN length[p.name] ELSE 0
    BY <1>6 DEF Weights
  <2>2. CASE p.kind # "ref"
    <3>1. At(entities, f, V, left, n, k) = Sized(p.length)
      BY <2>2 DEF At, Worth
    <3> QED
      BY <1>5, <2>1, <2>2, <3>1
  <2>3. CASE p.kind = "ref"
    <3>1. rank[n] > 0 /\ (p.name \in D => rank[p.name] < rank[n])
      BY <1>6, <2>3 DEF Ranked
    <3>2. left # 0
      BY <1>1, <1>2, <3>1
    <3>3. CASE p.name \notin D
      <4>1. At(entities, f, V, left, n, k) = Sized(0)
        BY <2>3, <3>2, <3>3 DEF At, Worth
      <4> QED
        BY <1>5, <2>1, <2>3, <3>3, <4>1
    <3>4. CASE p.name \in D
      <4>1. \A v \in V : rank[p.name] < rank[v]
        <5>1. ASSUME NEW v \in V PROVE rank[p.name] < rank[v]
          <6>1. rank[n] <= rank[v] /\ rank[p.name] < rank[n] /\ v \in D
            BY <1>3, <3>1, <3>4
          <6>2. rank[v] \in Nat /\ rank[n] \in Nat /\ rank[p.name] \in Nat
            BY <1>2, <3>4, <6>1
          <6> QED
            BY <6>1, <6>2
        <5> QED
          BY <5>1
      <4>2. p.name \notin V
        <5>1. rank[p.name] \in Nat
          BY <1>2, <3>4
        <5>2. ~ (rank[p.name] < rank[p.name])
          BY <5>1
        <5> QED
          BY <4>1, <5>2
      <4>3. rank[p.name] <= left - 1
        BY <1>1, <1>2, <3>1, <3>4
      <4>4. f[left - 1][V][p.name] = Sized(length[p.name])
        BY <1>3, <3>2, <3>4, <4>1, <4>3 DEF Walked
      <4>5. At(entities, f, V, left, n, k) = f[left - 1][V][p.name]
        BY <2>3, <3>2, <3>4, <4>2 DEF At, Worth
      <4> QED
        BY <1>5, <2>1, <2>3, <3>4, <4>4, <4>5
    <3> QED
      BY <3>3, <3>4
  <2> QED
    BY <2>2, <2>3
<1>14. IsFiniteSet(positions)
  <2>1. \A a, b \in Int : IsFiniteSet(a .. b)
    BY FS_Interval
  <2>2. 1 \in Int /\ Len(entities[n]) \in Int
    BY <1>6
  <2> QED
    BY <2>1, <2>2
<1>8. length[n] = SumOver(weights, positions)
  BY <1>6 DEF Measured, SumOver
<1>9. length[n] \in Nat /\ length[n] <= budget.maxExpandedSize
  BY DEF Limits
<1> HIDE DEF weights, positions
<1>10. \A k \in positions : w[k].ok /\ Bytes(w)[k] = weights[k]
  BY <1>5, <1>7 DEF Sized, Bytes
<1>11. SumOver(Bytes(w), positions) = SumOver(weights, positions)
  BY <1>10, <1>14, SumEqual
<1>12. SumOver(Bytes(w), positions) <= budget.maxExpandedSize
  BY <1>8, <1>9, <1>11
<1>13. AddUp(entities[n], w, budget.maxExpandedSize) = Sized(SumOver(Bytes(w), positions))
  BY <1>5, <1>10, <1>12 DEF AddsUpTo, positions
<1> QED
  BY <1>5, <1>8, <1>11, <1>13

LEMMA WalksFit ==
  ASSUME NEW entities, Table(entities), NEW budget, Limits(budget), NEW f,
         Levelled(entities, budget, f),
         NEW rank \in [DOMAIN entities -> 0 .. budget.maxEntityDepth], Ranked(entities, rank),
         NEW length \in [DOMAIN entities -> 0 .. budget.maxExpandedSize],
         Measured(entities, length)
  PROVE  \A n \in DOMAIN entities : f[budget.maxEntityDepth][{}][n].ok
<1> DEFINE d == budget.maxEntityDepth
           Good == {left \in Nat : left <= d => Walked(entities, f, rank, length, left)}
<1>1. d \in Nat
  BY DEF Limits
<1>2. 0 \in Good
  <2>1. 0 \in 0 .. d
    BY <1>1
  <2>2. Walked(entities, f, rank, length, 0)
    BY <2>1, WalkedStep
  <2> QED
    BY <2>2
<1>3. ASSUME NEW left \in Nat, left \in Good PROVE left + 1 \in Good
  <2>1. SUFFICES ASSUME left + 1 <= d PROVE Walked(entities, f, rank, length, left + 1)
    OBVIOUS
  <2>2. left + 1 \in 0 .. d /\ left + 1 - 1 = left /\ Walked(entities, f, rank, length, left)
    BY <1>1, <1>3, <2>1
  <2> QED
    BY <2>2, WalkedStep
<1> HIDE DEF Good
<1>4. d \in Good
  BY <1>1, <1>2, <1>3, NatSetInduction
<1>5. Walked(entities, f, rank, length, d)
  BY <1>1, <1>4 DEF Good
<1>6. ASSUME NEW n \in DOMAIN entities PROVE f[d][{}][n].ok
  <2>1. rank[n] <= d /\ {} \in SUBSET DOMAIN entities
    BY <1>1
  <2>2. f[d][{}][n] = Sized(length[n])
    BY <1>5, <2>1 DEF Walked
  <2> QED
    BY <2>2 DEF Sized
<1> QED
  BY <1>6

(* What a document declares is a table of entities.                        *)
LEMMA EntitiesAreATable ==
  ASSUME NEW decls, IsList(decls),
         \A i \in DOMAIN decls : /\ IsList(decls[i].value)
                                 /\ \A k \in DOMAIN decls[i].value : Piece(decls[i].value[k])
  PROVE  Table(Entities(decls))
<1> DEFINE Places(n) == {i \in Internal(decls) : decls[i].name = n}
<1>1. DOMAIN decls = 1 .. Len(decls) /\ Len(decls) \in Nat
  BY DEF IsList, HasParts
<1>2. \A l : IsList(l) => Len(l) \in Nat /\ DOMAIN l = 1 .. Len(l)
  BY DEF IsList, HasParts
<1>3. ASSUME NEW n \in DOMAIN Entities(decls)
      PROVE  \E i \in DOMAIN decls : Entities(decls)[n] = decls[i].value
  <2>1. n \in {decls[i].name : i \in Internal(decls)}
    BY <1>3 DEF Entities
  <2>2. Entities(decls)[n] = decls[Max(Places(n))].value
    BY <2>1 DEF Entities
  <2>3. Places(n) # {} /\ Places(n) \in SUBSET (1 .. Len(decls))
    BY <1>1, <2>1 DEF Internal, Scanned
  <2> HIDE DEF Places
  <2>4. Max(Places(n)) \in 1 .. Len(decls)
    BY <1>1, <2>3, MaxIsIn
  <2> QED
    BY <1>1, <2>2, <2>4
<1> QED
  BY <1>2, <1>3 DEF Table

(* There are finitely many of them.                                        *)
LEMMA EntitiesAreFinite ==
  ASSUME NEW decls, IsList(decls)
  PROVE  Cardinality(DOMAIN Entities(decls)) \in Nat
<1> DEFINE S == Internal(decls)
           T == DOMAIN Entities(decls)
           name == [i \in S |-> decls[i].name]
<1>1. IsFiniteSet(S)
  <2>1. DOMAIN decls = 1 .. Len(decls) /\ Len(decls) \in Nat
    BY DEF IsList, HasParts
  <2>2. IsFiniteSet(1 .. Len(decls))
    BY <2>1, FS_Interval
  <2>3. S \subseteq 1 .. Len(decls)
    BY <2>1 DEF Internal, Scanned
  <2> QED
    BY <2>2, <2>3, FS_Subset
<1>2. T = {decls[i].name : i \in S}
  BY DEF Entities
<1>3. name \in Surjection(S, T)
  <2> HIDE DEF S
  <2>1. name \in [S -> T]
    BY <1>2
  <2>2. \A t \in T : \E i \in S : name[i] = t
    BY <1>2
  <2> HIDE DEF name, T
  <2> QED
    BY <2>1, <2>2 DEF Surjection
<1> HIDE DEF name, S, T
<1>4. IsFiniteSet(T)
  BY <1>1, <1>3, FS_Surjection
<1> QED
  BY <1>4, FS_CardinalityType DEF T

(* The walk over a document's entities is right.                           *)
LEMMA XmlIsExact ==
  ASSUME NEW decls, NEW budget, IsList(decls), Table(Entities(decls)), Limits(budget)
  PROVE  XmlRisk(decls, budget) <=> ~Expandable(decls, budget)
<1> DEFINE entities == Entities(decls)
<1> HIDE DEF entities
<1>1. Table(entities)
  BY DEF entities
<1>2. PICK f : /\ Levelled(entities, budget, f)
               /\ ExpandedSize(entities, budget) = f[budget.maxEntityDepth][{}]
  BY <1>1, WalkLevels
<1> DEFINE Fits == \A n \in DOMAIN entities : f[budget.maxEntityDepth][{}][n].ok
           Bounded ==
             /\ \E rank \in [DOMAIN entities -> 0 .. budget.maxEntityDepth] :
                  Ranked(entities, rank)
             /\ \E length \in [DOMAIN entities -> 0 .. budget.maxExpandedSize] :
                  Measured(entities, length)
<1>3. Fits => Bounded
  BY <1>1, <1>2, RanksExist, LengthsExist
<1>4. Bounded => Fits
  BY <1>1, <1>2, WalksFit
<1>5. XmlRisk(decls, budget)
        <=> Cardinality(DOMAIN entities) > budget.maxEntityCount \/ ~Fits
  BY <1>2 DEF XmlRisk, entities
<1>6. Expandable(decls, budget)
        <=> Cardinality(DOMAIN entities) <= budget.maxEntityCount /\ Bounded
  BY DEF Expandable, entities
<1>7. Cardinality(DOMAIN entities) \in Nat /\ budget.maxEntityCount \in Nat
  BY EntitiesAreFinite DEF entities, Limits
<1> HIDE DEF Fits, Bounded
<1>8. Cardinality(DOMAIN entities) > budget.maxEntityCount
        <=> ~ (Cardinality(DOMAIN entities) <= budget.maxEntityCount)
  BY <1>7
<1> QED
  BY <1>3, <1>4, <1>5, <1>6, <1>8

-----------------------------------------------------------------------------
(* What a header claims is a width and a height, whenever it can be read.  *)
Legible(claim) == claim.ok => claim.width \in Nat /\ claim.height \in Nat

(* What is found from one marker on, when f says what is from later ones.  *)
FromMarker(tape, f, at) ==
  IF at > Len(tape) THEN Unreadable
  ELSE LET m == tape[at] IN
       CASE m.kind \in {"junk", "fill", "standalone"} -> f[at + 1]
         [] m.kind = "frame"   -> Claim(m.width, m.height)
         [] m.kind = "short"   -> Unreadable
         [] m.kind = "segment" ->
              IF at + 1 + m.owns > Len(tape) THEN Unreadable
              ELSE f[at + 1 + m.owns]

Tape(tape) ==
  /\ Len(tape) \in Nat
  /\ \A at \in 1 .. Len(tape) : Marker(tape[at])

Reads(tape, f, S) == f = [at \in S |-> FromMarker(tape, f, at)]

(* The walk is where one marker leads, and what lies before does not count.*)
LEMMA MarkersLeadOn ==
  ASSUME NEW tape, Tape(tape), NEW at \in 1 .. Len(tape) + 1, NEW f, NEW g,
         \A later \in at + 1 .. Len(tape) + 1 : f[later] = g[later]
  PROVE  /\ FromMarker(tape, f, at) = FromMarker(tape, g, at)
         /\ (\A later \in at + 1 .. Len(tape) + 1 : Legible(f[later]))
              => Legible(FromMarker(tape, f, at))
<1>1. Legible(Unreadable)
  BY DEF Legible, Unreadable
<1>2. CASE at > Len(tape)
  BY <1>1, <1>2 DEF FromMarker
<1>3. CASE ~ (at > Len(tape))
  <2> DEFINE m == tape[at]
  <2>1. at \in 1 .. Len(tape)
    BY <1>3 DEF Tape
  <2>2. /\ m.kind \in {"junk", "fill", "standalone", "frame", "short", "segment"}
        /\ m.width \in Nat /\ m.height \in Nat /\ m.owns \in Nat
    BY <2>1 DEF Tape, Marker
  <2>3. at + 1 \in at + 1 .. Len(tape) + 1
    BY <2>1 DEF Tape
  <2>4. ~ (at + 1 + m.owns > Len(tape)) => at + 1 + m.owns \in at + 1 .. Len(tape) + 1
    BY <2>1, <2>2 DEF Tape
  <2>5. Legible(Claim(m.width, m.height))
    BY <2>2 DEF Legible, Claim
  <2>6. \A h :
          FromMarker(tape, h, at)
            = CASE m.kind \in {"junk", "fill", "standalone"} -> h[at + 1]
                [] m.kind = "frame"   -> Claim(m.width, m.height)
                [] m.kind = "short"   -> Unreadable
                [] m.kind = "segment" ->
                     IF at + 1 + m.owns > Len(tape) THEN Unreadable
                     ELSE h[at + 1 + m.owns]
    BY <1>3 DEF FromMarker
  <2> HIDE DEF m
  <2>7. CASE m.kind \in {"junk", "fill", "standalone"}
    <3>1. \A h : FromMarker(tape, h, at) = h[at + 1]
      BY <2>6, <2>7
    <3> QED
      BY <2>3, <3>1
  <2>8. CASE m.kind = "frame"
    <3>1. \A h : FromMarker(tape, h, at) = Claim(m.width, m.height)
      BY <2>6, <2>8
    <3> QED
      BY <2>5, <3>1
  <2>9. CASE m.kind = "short"
    <3>1. \A h : FromMarker(tape, h, at) = Unreadable
      BY <2>6, <2>9
    <3> QED
      BY <1>1, <3>1
  <2>10. CASE m.kind = "segment"
    <3>1. \A h : FromMarker(tape, h, at)
                   = IF at + 1 + m.owns > Len(tape) THEN Unreadable ELSE h[at + 1 + m.owns]
      BY <2>6, <2>10
    <3>2. CASE at + 1 + m.owns > Len(tape)
      BY <1>1, <3>1, <3>2
    <3>3. CASE ~ (at + 1 + m.owns > Len(tape))
      BY <2>4, <3>1, <3>3
    <3> QED
      BY <3>2, <3>3
  <2> QED
    BY <2>2, <2>7, <2>8, <2>9, <2>10
<1> QED
  BY <1>2, <1>3

(* The frame of a JPEG is found by reading on from marker to marker.       *)
LEMMA JpegIsLegible ==
  ASSUME NEW tape, Tape(tape)
  PROVE  Legible(JpegClaim(tape))
<1> DEFINE n == Len(tape)
           From(k) == n + 2 - k .. n + 1
           Good == {k \in Nat : k <= n + 1 => \E f : Reads(tape, f, From(k))}
<1>1. n \in Nat
  BY DEF Tape
<1>2. 0 \in Good
  <2>1. \E f : Reads(tape, f, From(0))
    <3>1. From(0) = {}
      BY <1>1
    <3>2. Reads(tape, [at \in {} |-> 0], {})
      BY DEF Reads
    <3> QED
      BY <3>1, <3>2
  <2> QED
    BY <2>1
<1>3. ASSUME NEW k \in Nat, k \in Good PROVE k + 1 \in Good
  <2>1. SUFFICES ASSUME k + 1 <= n + 1 PROVE \E f : Reads(tape, f, From(k + 1))
    OBVIOUS
  <2>2. PICK f : Reads(tape, f, From(k))
    BY <1>1, <1>3, <2>1
  <2> DEFINE S == From(k + 1)
             g == [at \in S |-> FromMarker(tape, f, at)]
  <2>3. \A at \in From(k) : f[at] = FromMarker(tape, f, at)
    <3> DEFINE h == [at \in From(k) |-> FromMarker(tape, f, at)]
    <3>1. f = h
      BY <2>2 DEF Reads
    <3>2. \A at \in From(k) : h[at] = FromMarker(tape, f, at)
      OBVIOUS
    <3> HIDE DEF h
    <3> QED
      BY <3>1, <3>2
  <2>4. /\ From(k) \subseteq S /\ S \subseteq 1 .. n + 1
        /\ \A at \in S : at + 1 .. n + 1 \subseteq From(k)
    BY <1>1, <2>1
  <2>5. \A at \in S : g[at] = FromMarker(tape, f, at)
    OBVIOUS
  <2>6. g = [at \in S |-> g[at]]
    OBVIOUS
  <2> HIDE DEF g, S, From
  <2>7. \A at \in From(k) : g[at] = f[at]
    BY <2>3, <2>4, <2>5
  <2>8. \A at \in S : FromMarker(tape, f, at) = FromMarker(tape, g, at)
    <3>1. ASSUME NEW at \in S PROVE FromMarker(tape, f, at) = FromMarker(tape, g, at)
      <4>1. at \in 1 .. n + 1 /\ \A later \in at + 1 .. n + 1 : f[later] = g[later]
        BY <2>4, <2>7
      <4> QED
        BY <4>1, MarkersLeadOn
    <3> QED
      BY <3>1
  <2>9. g = [at \in S |-> FromMarker(tape, g, at)]
    BY <2>5, <2>6, <2>8
  <2>10. Reads(tape, g, S)
    BY <2>9 DEF Reads
  <2> QED
    BY <2>10 DEF S
<1>4. \E f : Reads(tape, f, 1 .. n + 1)
  <2>1. \A k \in Nat : k \in Good
    <3> HIDE DEF Good
    <3> QED
      BY <1>2, <1>3, NatSetInduction
  <2>2. n + 1 \in Good /\ n + 1 \in Nat /\ From(n + 1) = 1 .. n + 1
    BY <1>1, <2>1
  <2> HIDE DEF From
  <2> QED
    BY <2>2
<1> DEFINE f == CHOOSE f : Reads(tape, f, 1 .. n + 1)
<1>5. Reads(tape, f, 1 .. n + 1)
  BY <1>4
<1>6. JpegClaim(tape) = f[1]
  BY DEF JpegClaim, Reads, FromMarker
<1> HIDE DEF f
<1>7. \A at \in 1 .. n + 1 : f[at] = FromMarker(tape, f, at)
  <2> DEFINE h == [at \in 1 .. n + 1 |-> FromMarker(tape, f, at)]
  <2>1. f = h
    BY <1>5 DEF Reads
  <2>2. \A at \in 1 .. n + 1 : h[at] = FromMarker(tape, f, at)
    OBVIOUS
  <2> HIDE DEF h
  <2> QED
    BY <2>1, <2>2
<1> DEFINE Fine == {k \in Nat : \A at \in 1 .. n + 1 : at > n + 1 - k => Legible(f[at])}
<1>8. 0 \in Fine
  BY <1>1
<1>9. ASSUME NEW k \in Nat, k \in Fine PROVE k + 1 \in Fine
  <2>1. SUFFICES ASSUME NEW at \in 1 .. n + 1, at > n + 1 - (k + 1) PROVE Legible(f[at])
    OBVIOUS
  <2>2. \A later \in at + 1 .. n + 1 : Legible(f[later])
    <3>1. \A later \in at + 1 .. n + 1 : later \in 1 .. n + 1 /\ later > n + 1 - k
      BY <1>1, <2>1
    <3> QED
      BY <1>9, <3>1
  <2>3. Legible(FromMarker(tape, f, at))
    BY <2>2, MarkersLeadOn
  <2> QED
    BY <1>7, <2>3
<1>10. \A k \in Nat : k \in Fine
  <2> HIDE DEF Fine
  <2> QED
    BY <1>8, <1>9, NatSetInduction
<1>11. Legible(f[1])
  <2>1. n + 1 \in Fine /\ 1 \in 1 .. n + 1 /\ 1 > n + 1 - (n + 1)
    BY <1>1, <1>10
  <2> QED
    BY <2>1
<1> QED
  BY <1>6, <1>11

(* So are the others.                                                      *)
LEMMA TiffIsLegible ==
  ASSUME NEW directory, IsList(directory),
         \A i \in DOMAIN directory : directory[i].value \in Nat
  PROVE  Legible(TiffClaim(directory))
<1>1. ASSUME NEW tag PROVE TiffField(directory, tag).ok => TiffField(directory, tag).width \in Nat
  <2> DEFINE rows == {i \in DOMAIN directory :
                        directory[i].tag = tag /\ directory[i].type \in {"short", "long"}}
  <2>1. TiffField(directory, tag)
          = IF rows = {} THEN Unreadable ELSE Claim(directory[Max(rows)].value, 0)
    BY DEF TiffField
  <2>2. DOMAIN directory = 1 .. Len(directory) /\ Len(directory) \in Nat
    BY DEF IsList, HasParts
  <2>3. rows \in SUBSET (1 .. Len(directory))
    BY <2>2
  <2> HIDE DEF rows
  <2>4. rows # {} => directory[Max(rows)].value \in Nat
    BY <2>2, <2>3, MaxIsIn
  <2> QED
    BY <2>1, <2>4 DEF Unreadable, Claim
<1>2. TiffClaim(directory) = Unreadable
      \/ /\ TiffField(directory, "width").ok /\ TiffField(directory, "length").ok
         /\ TiffClaim(directory) = Claim(TiffField(directory, "width").width,
                                         TiffField(directory, "length").width)
  BY DEF TiffClaim
<1> QED
  BY <1>1, <1>2 DEF Legible, Unreadable, Claim

LEMMA ImagesAreLegible ==
  ASSUME NEW body, Scannable(body), NEW type
  PROVE  Legible(ImageDimensions(body, type))
<1>1. Legible(Unreadable)
  BY DEF Legible, Unreadable
<1>2. \A w, h \in Nat : Legible(Claim(w, h))
  BY DEF Legible, Claim
<1>3. body.head.width \in Nat /\ body.head.height \in Nat
  BY DEF Scannable
<1>4. Legible(PngClaim(body.head)) /\ Legible(GifClaim(body.head))
  BY <1>1, <1>2, <1>3 DEF PngClaim, GifClaim
<1>5. Legible(WebpClaim(body.head))
  <2>1. Packed \in Nat /\ Packed > 0
    BY DosAssumption
  <2>2. \A x \in Nat : x + 1 \in Nat /\ x % Packed \in Nat /\ (x % Packed) + 1 \in Nat
    BY <2>1
  <2> QED
    BY <1>1, <1>2, <1>3, <2>2 DEF WebpClaim
<1>6. Legible(JpegClaim(body.tape))
  <2>1. Tape(body.tape)
    BY DEF Scannable, IsList, HasParts, Tape
  <2> QED
    BY <2>1, JpegIsLegible
<1>7. Legible(TiffClaim(body.directory))
  BY TiffIsLegible DEF Scannable
<1> QED
  BY <1>1, <1>4, <1>5, <1>6, <1>7 DEF ImageDimensions

(* The product of the sides does not wrap round.                           *)
LEMMA PixelsAreExact ==
  ASSUME NEW body, Scannable(body), NEW type, NEW max \in Nat, max < Word * Word - 1
  PROVE  LET claim == ImageDimensions(body, type) IN
         ImageRisk(body, type, max) <=> claim.ok /\ claim.width * claim.height > max
<1> DEFINE claim == ImageDimensions(body, type)
<1> HIDE DEF claim
<1>1. claim.ok => claim.width \in Nat /\ claim.height \in Nat
  BY ImagesAreLegible DEF Legible, claim
<1>2. \A a, b \in Nat : a * b \in Nat
  OBVIOUS
<1>3. Word * Word - 1 \in Int
  <2>1. Word \in Nat
    BY DosAssumption
  <2>2. Word * Word \in Nat
    BY <1>2, <2>1
  <2> QED
    BY <2>2
<1>4. ImageRisk(body, type, max) <=> claim.ok /\ Pixels(claim) > max
  BY DEF ImageRisk, claim
<1> DEFINE full == Word * Word - 1
           product == claim.width * claim.height
<1>5. Pixels(claim) = IF product > full THEN full ELSE product
  BY DEF Pixels
<1>6. claim.ok => product \in Nat
  BY <1>1, <1>2
<1> HIDE DEF full, product
<1>7. full \in Int /\ max < full
  BY <1>3 DEF full
<1>8. claim.ok => (Pixels(claim) > max <=> product > max)
  BY <1>5, <1>6, <1>7
<1> QED
  BY <1>4, <1>8 DEF claim, product

-----------------------------------------------------------------------------
(* What the scanners measure is what they bound, of every input there may  *)
(* be: a table of entities passes if, and only if, its names can be ranked *)
(* within the depth and measured within the size (expanded_size), and no   *)
(* product of an image's sides wraps round to one that passes (pixels).    *)
THEOREM BudgetsAreExact == Spec => []BudgetsExact
<1>1. ASSUME input \in Inputs PROVE BudgetsExact
  <2>1. Scannable(input.body) /\ Bounds(Policy)
    BY <1>1, InputsAssumption DEF Policy
  <2>2. /\ Limits(Policy.xml) /\ Policy.maxPixels \in Nat
    BY <2>1 DEF Bounds, Limits
  <2>3. IsList(input.body.decls) /\ Table(Entities(input.body.decls))
    BY <2>1, EntitiesAreATable DEF Scannable
  <2>4. XmlRisk(input.body.decls, Policy.xml) <=> ~Expandable(input.body.decls, Policy.xml)
    BY <2>2, <2>3, XmlIsExact
  <2>5. ASSUME NEW type, Policy.maxPixels < Word * Word - 1
        PROVE  LET claim == ImageDimensions(input.body, type) IN
               ImageRisk(input.body, type, Policy.maxPixels)
                 <=> claim.ok /\ claim.width * claim.height > Policy.maxPixels
    BY <2>1, <2>2, <2>5, PixelsAreExact
  <2> QED
    BY <2>4, <2>5 DEF BudgetsExact
<1>2. InputInv => BudgetsExact
  BY <1>1 DEF InputInv
<1> QED
  BY <1>2, InputIsKept, PTL
=============================================================================
