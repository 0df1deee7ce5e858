--------------------------- MODULE PageParseProofs ---------------------------
(***************************************************************************)
(* From the events the kernel records to the records the readers get, for  *)
(* any sizes of words, pages and descriptor lists.  The parser keeps in    *)
(* step with the page: it never takes data for a header (Chained).  Each   *)
(* entry says a time and an event (PageSays), each event is encoded as a   *)
(* record that says the same (RecordSays), and the file is those records   *)
(* one after the other (Laid), where the reader finds them again.          *)
(***************************************************************************)
EXTENDS PageParse, EventSequences, TLAPS

\* The length of the entry with the header at h, as the format defines it.
Size(p, h) ==
    LET type == p[h] % Types IN
        IF type = TimeStamp THEN 3
        ELSE IF type = TimeExtend THEN 2
        ELSE IF type = 0 THEN 2 + p[h + 1]
        ELSE 1 + type

\* After the entry at h comes another header or the end of the page; after padding
\* comes anything.
Linked(p, H, h) ==
    \/ p[h] % Types = Padding
    \/ /\ p[h] % Types = 0 => h < Len(p)
       /\ h + Size(p, h) \in H \cup {Len(p) + 1}

\* H are the headers of page p.
Chained(p, H) ==
    /\ p \in Seq(Nat)
    /\ H \subseteq 1..Len(p)
    /\ p # <<>> => 1 \in H
    /\ \A h \in H : Linked(p, H, h)

\* One entry, or padding and what follows it.
Whole(e) ==
    /\ e \in Seq(Nat) /\ Len(e) >= 1
    /\ \/ e[1] % Types = Padding
       \/ /\ e[1] % Types = 0 => Len(e) >= 2
          /\ Size(e, 1) = Len(e)

\* The constants that are lengths.
LEMMA Sizes ==
    /\ Short \in Nat /\ Short >= Fixed /\ Types \in Nat \ {0}
    /\ DeltaBase \in Nat \ {0} /\ WordBase \in Nat \ {0} /\ U64 \in Nat \ {0}
    /\ Steps \subseteq Nat /\ Tails \subseteq Nat
BY PageAssumption DEF Types, Fixed

\* A multiple and a small number: the quotient and the remainder.
LEMMA Remainder ==
    ASSUME NEW n \in Nat, NEW s \in Nat \ {0}, NEW r \in 0..(s - 1)
    PROVE  n * s + r \in Nat /\ (n * s + r) % s = r /\ (n * s + r) \div s = n
<1> DEFINE x == n * s + r
           q == x \div s
<1>1. n * s \in Nat /\ x \in Nat
  OBVIOUS
<1>2. q \in Nat /\ x % s \in 0..(s - 1) /\ x = (q * s) + (x % s)
  BY <1>1, SMTT(30)
<1>3. q * s \in Nat
  BY <1>2
<1>4. ~(q < n)
  <2> SUFFICES ASSUME q < n PROVE FALSE
    OBVIOUS
  <2>1. (q + 1) * s <= n * s
    BY <1>2, MulMono
  <2>2. (q + 1) * s = q * s + s
    BY <1>2, SMTT(30)
  <2> HIDE DEF x, q
  <2> QED
    BY <1>1, <1>2, <1>3, <2>1, <2>2 DEF x
<1>5. ~(n < q)
  <2> SUFFICES ASSUME n < q PROVE FALSE
    OBVIOUS
  <2>1. (n + 1) * s <= q * s
    BY <1>2, MulMono
  <2>2. (n + 1) * s = n * s + s
    BY SMTT(30)
  <2> HIDE DEF x, q
  <2> QED
    BY <1>1, <1>2, <1>3, <2>1, <2>2 DEF x
<1>6. q = n
  BY <1>2, <1>4, <1>5
<1>7. x % s = r /\ x \div s = n
  <2>1. x \div s = n
    BY <1>6
  <2> HIDE DEF q, x
  <2> QED
    BY <1>1, <1>2, <1>6, <2>1 DEF x
<1> QED
  BY <1>1, <1>7

\* An entry has a length.
LEMMA SizeNat ==
    ASSUME NEW p \in Seq(Nat), NEW h \in 1..Len(p), p[h] % Types = 0 => h < Len(p)
    PROVE  Size(p, h) \in Nat \ {0}
<1>1. p[h] \in Nat /\ p[h] % Types \in Nat
  <2>1. \A n \in Nat : n % Types \in Nat
    BY Sizes
  <2>2. p[h] \in Nat
    OBVIOUS
  <2> QED
    BY <2>1, <2>2, Zenon
<1>2. p[h] % Types = 0 => p[h + 1] \in Nat
  OBVIOUS
<1> QED
  BY <1>1, <1>2 DEF Size

\* Two sequences of words, one after the other.
LEMMA Joined ==
    ASSUME NEW s \in Seq(Nat), NEW t \in Seq(Nat)
    PROVE  /\ s \o t \in Seq(Nat) /\ Len(s \o t) = Len(s) + Len(t)
           /\ \A k \in 1..Len(s) : (s \o t)[k] = s[k]
           /\ \A k \in 1..Len(t) : (s \o t)[Len(s) + k] = t[k]
OBVIOUS

\* A piece of a sequence of words.
LEMMA Slice ==
    ASSUME NEW s \in Seq(Nat), NEW a \in Nat, NEW n \in Nat, a + n <= Len(s)
    PROVE  /\ SubSeq(s, a + 1, a + n) \in Seq(Nat) /\ Len(SubSeq(s, a + 1, a + n)) = n
           /\ \A k \in 1..n : SubSeq(s, a + 1, a + n)[k] = s[a + k]
<1> DEFINE t == SubSeq(s, a + 1, a + n)
<1>1. a + 1 \in Int /\ a + n \in Int /\ \A i \in (a + 1)..(a + n) : s[i] \in Nat
  OBVIOUS
<1>2. /\ t \in Seq(Nat)
      /\ Len(t) = IF a + 1 <= a + n THEN (a + n) - (a + 1) + 1 ELSE 0
      /\ \A k \in 1..((a + n) - (a + 1) + 1) : t[k] = s[(a + 1) + k - 1]
  BY <1>1, SubSeqProperties
<1> HIDE DEF t
<1>3. Len(t) = n
  BY <1>2
<1>4. ASSUME NEW k \in 1..n PROVE t[k] = s[a + k]
  <2>1. k \in 1..((a + n) - (a + 1) + 1) /\ (a + 1) + k - 1 = a + k
    OBVIOUS
  <2> QED
    BY <1>2, <2>1
<1> QED
  BY <1>2, <1>3, <1>4 DEF t

\* A header says its type and its delta.
LEMMA HeaderType ==
    ASSUME NEW type \in 0..(Short + 3), NEW delta \in Nat
    PROVE  /\ Header(type, delta) \in Nat
           /\ Header(type, delta) % Types = type /\ Header(type, delta) \div Types = delta
<1>1. type \in 0..(Types - 1)
  BY Sizes DEF Types
<1> QED
  BY <1>1, Sizes, Remainder DEF Header

\* An event is one entry.
LEMMA EntryWhole ==
    ASSUME NEW data \in Seq(Nat), Len(data) >= 1, NEW delta \in Nat
    PROVE  Whole(Entry(data, delta))
<1> DEFINE e == Entry(data, delta)
<1>1. CASE Len(data) <= Short
  <2>1. e = <<Header(Len(data), delta)>> \o data
    BY <1>1 DEF Entry
  <2>2. Header(Len(data), delta) \in Nat /\ Header(Len(data), delta) % Types = Len(data)
    <3>1. Len(data) \in 0..(Short + 3)
      BY <1>1, Sizes
    <3> QED
      BY <3>1, HeaderType
  <2>3. e \in Seq(Nat) /\ Len(e) = 1 + Len(data) /\ e[1] = Header(Len(data), delta)
    BY <2>1, <2>2
  <2> QED
    <3>1. /\ e[1] % Types = Len(data) /\ Len(data) \in 1..Short /\ Short \in Nat
          /\ e \in Seq(Nat) /\ Len(e) = 1 + Len(data)
      BY <1>1, <2>2, <2>3, Sizes
    <3> QED
      BY <3>1 DEF Whole, Size, TimeStamp, TimeExtend
<1>2. CASE Len(data) > Short
  <2>1. e = <<Header(0, delta), Len(data)>> \o data
    BY <1>2, Sizes DEF Entry
  <2>2. Header(0, delta) \in Nat /\ Header(0, delta) % Types = 0
    <3>1. 0 \in 0..(Short + 3)
      BY Sizes
    <3> QED
      BY <3>1, HeaderType
  <2>3. e \in Seq(Nat) /\ Len(e) = 2 + Len(data) /\ e[1] = Header(0, delta) /\ e[2] = Len(data)
    BY <2>1, <2>2
  <2> QED
    <3>1. /\ e[1] % Types = 0 /\ e[2] = Len(data) /\ Len(data) \in Nat /\ Short \in Nat
          /\ e \in Seq(Nat) /\ Len(e) = 2 + Len(data)
      BY <2>2, <2>3, Sizes
    <3> QED
      BY <3>1 DEF Whole, Size, TimeStamp, TimeExtend
<1> QED
  BY <1>1, <1>2, Sizes

\* A gap is one entry, or none.
LEMMA GapWhole ==
    ASSUME NEW dt \in Nat, NEW t \in Nat, NEW gap \in Gap(dt, t)
    PROVE  gap = <<>> \/ Whole(gap)
<1>1. CASE gap = <<Header(TimeExtend, dt % DeltaBase), dt \div DeltaBase>>
  <2>1. dt % DeltaBase \in Nat /\ dt \div DeltaBase \in Nat
    BY Sizes
  <2>2. Header(TimeExtend, dt % DeltaBase) \in Nat /\ Header(TimeExtend, dt % DeltaBase) % Types = TimeExtend
    <3>1. TimeExtend \in 0..(Short + 3)
      BY Sizes DEF TimeExtend
    <3> QED
      BY <2>1, <3>1, HeaderType
  <2> QED
    BY <1>1, <2>1, <2>2, Sizes DEF Whole, Size, TimeStamp, TimeExtend
<1>2. CASE gap = <<Header(TimeStamp, 0), t % WordBase, t \div WordBase>>
  <2>1. t % WordBase \in Nat /\ t \div WordBase \in Nat
    BY Sizes
  <2>2. Header(TimeStamp, 0) \in Nat /\ Header(TimeStamp, 0) % Types = TimeStamp
    BY Sizes, HeaderType DEF TimeStamp
  <2> QED
    BY <1>2, <2>1, <2>2, Sizes DEF Whole, Size, TimeStamp, TimeExtend
<1> QED
  BY <1>1, <1>2 DEF Gap

\* The page grows by an entry.
LEMMA AddEntry ==
    ASSUME NEW p, NEW H, Chained(p, H), NEW e, Whole(e)
    PROVE  Chained(p \o e, H \cup {Len(p) + 1})
<1> DEFINE q == p \o e
           n == Len(p)
           G == H \cup {n + 1}
<1>1. /\ p \in Seq(Nat) /\ e \in Seq(Nat) /\ n \in Nat /\ Len(e) \in Nat \ {0}
      /\ H \subseteq 1..n
  BY DEF Chained, Whole
<1>2. q \in Seq(Nat) /\ Len(q) = n + Len(e)
  BY <1>1
<1>3. (\A k \in 1..n : q[k] = p[k]) /\ (\A k \in 1..Len(e) : q[n + k] = e[k])
  BY <1>1
<1> HIDE DEF q
<1>4. ASSUME NEW h \in H PROVE Linked(q, G, h)
  <2>1. Linked(p, H, h) /\ q[h] = p[h] /\ h \in 1..n
    BY <1>1, <1>3 DEF Chained
  <2>2. CASE p[h] % Types = Padding
    BY <2>1, <2>2 DEF Linked
  <2>3. CASE p[h] % Types # Padding
    <3>1. (p[h] % Types = 0 => h < n) /\ h + Size(p, h) \in H \cup {n + 1}
      BY <2>1, <2>3 DEF Linked
    <3>2. p[h] % Types = 0 => q[h + 1] = p[h + 1]
      BY <1>1, <1>3, <2>1, <3>1
    <3>3. Size(q, h) = Size(p, h)
      BY <2>1, <3>2 DEF Size
    <3> QED
      BY <1>1, <1>2, <2>1, <3>1, <3>3 DEF Linked
  <2> QED
    BY <2>2, <2>3
<1>5. Linked(q, G, n + 1)
  <2>1. q[n + 1] = e[1]
    BY <1>1, <1>3
  <2>2. CASE e[1] % Types = Padding
    BY <2>1, <2>2 DEF Linked
  <2>3. CASE e[1] % Types # Padding
    <3>1. (e[1] % Types = 0 => Len(e) >= 2) /\ Size(e, 1) = Len(e)
      BY <2>3 DEF Whole
    <3>2. e[1] % Types = 0 => q[(n + 1) + 1] = e[1 + 1]
      BY <1>1, <1>3, <3>1
    <3>3. Size(q, n + 1) = Len(e)
      BY <2>1, <3>1, <3>2 DEF Size
    <3>4. (n + 1) + Len(e) = Len(q) + 1 /\ (Len(e) >= 2 => n + 1 < Len(q))
      BY <1>1, <1>2
    <3> QED
      BY <2>1, <3>1, <3>3, <3>4 DEF Linked
  <2> QED
    BY <2>2, <2>3
<1>6. G \subseteq 1..Len(q)
  <2>1. n + 1 \in 1..Len(q) /\ \A h \in 1..n : h \in 1..Len(q)
    BY <1>1, <1>2
  <2> QED
    BY <1>1, <2>1
<1>7. 1 \in G
  <2>1. CASE p = <<>>
    BY <2>1
  <2>2. CASE p # <<>>
    BY <2>2 DEF Chained
  <2> QED
    BY <2>1, <2>2
<1> QED
  BY <1>2, <1>4, <1>5, <1>6, <1>7 DEF Chained, q

-----------------------------------------------------------------------------

\* The page is a chain of entries, and the parser is at one of its headers.
InStep ==
    /\ now \in Nat
    /\ events \in Nat
    /\ Chained(page, heads)
    /\ pos \in Nat
    /\ phase = "parse" => pos + 1 \in heads \cup {Len(page) + 1}

\* The words of an event.
LEMMA DataWords ==
    ASSUME NEW n \in Nat, NEW e \in EventOf(n)
    PROVE  Data(e) \in Seq(Nat) /\ Len(Data(e)) >= 1
<1>1. CASE e.id = SubmitId
  <2>1. e.cmd = n /\ e.sgl \in {0, 1} /\ e.tail \in Nat
    <3>1. PICK g \in {0, 1}, t \in Tails :
             e = [id |-> SubmitId, cmd |-> n, sgl |-> g, tail |-> t * EntryLen(g)]
      BY <1>1 DEF EventOf, SubmitId, CompleteId, OtherId
    <3>2. t \in Nat /\ EntryLen(g) \in Nat
      BY Sizes DEF EntryLen
    <3>3. t * EntryLen(g) \in Nat
      BY <3>2
    <3> HIDE DEF EntryLen
    <3> QED
      BY <3>1, <3>3
  <2>2. e.tail * WordBase + Fixed \in Nat
    BY <2>1, Sizes DEF Fixed
  <2>3. [k \in 1..e.tail |-> e.cmd + k] \in Seq(Nat)
    BY <2>1
  <2> DEFINE first == <<SubmitId, e.cmd, e.tail * WordBase + Fixed, e.sgl>>
             list  == [k \in 1..e.tail |-> e.cmd + k]
  <2>4. first \in Seq(Nat) /\ Len(first) = 4
    BY <2>1, <2>2 DEF SubmitId
  <2>5. Data(e) = first \o list
    BY <1>1 DEF Data
  <2> HIDE DEF first, list
  <2>6. list \in Seq(Nat)
    BY <2>3 DEF list
  <2>7. first \o list \in Seq(Nat) /\ Len(first \o list) = Len(first) + Len(list)
    BY <2>4, <2>6, Joined
  <2>8. Len(first \o list) >= 1
    <3>1. Len(list) \in Nat
      BY <2>6
    <3> QED
      BY <2>4, <2>7, <3>1
  <2> QED
    BY <2>5, <2>7, <2>8, Zenon
<1>2. CASE e.id # SubmitId
  <2>1. e.cmd = n /\ e.id \in Nat
    BY <1>2 DEF EventOf, CompleteId, OtherId
  <2> QED
    BY <1>2, <2>1 DEF Data
<1> QED
  BY <1>1, <1>2

\* The kernel adds to the chain what it records.
LEMMA HappenInStep ==
    ASSUME InStep, NEW e \in EventOf(events + 1), NEW dt \in Steps, Happen(e, dt)
    PROVE  InStep'
<1>1. dt \in Nat /\ now' = now + dt /\ now' \in Nat
  BY Sizes DEF Happen, InStep
<1>2. Data(e) \in Seq(Nat) /\ Len(Data(e)) >= 1
  BY DataWords DEF InStep
<1>3. PICK gap \in IF page = <<>> THEN {<<>>} ELSE Gap(dt, now') :
         LET delta == IF page = <<>> \/ gap # <<>> THEN 0 ELSE dt IN
         /\ page' = page \o gap \o Entry(Data(e), delta)
         /\ heads' = heads \cup {Len(page) + 1, Len(page) + 1 + Len(gap)}
  BY DEF Happen
<1> DEFINE delta == IF page = <<>> \/ gap # <<>> THEN 0 ELSE dt
           entry == Entry(Data(e), delta)
<1>4. delta \in Nat
  BY <1>1
<1> HIDE DEF delta
<1>5. Whole(entry)
  BY <1>2, <1>4, EntryWhole
<1>6. page' = page \o gap \o entry
  BY <1>3 DEF delta
<1> HIDE DEF entry
<1>7. gap = <<>> \/ Whole(gap)
  BY <1>1, <1>3, GapWhole
<1>8. Chained(page', heads')
  <2>1. CASE gap = <<>>
    <3>1. page' = page \o entry /\ heads' = heads \cup {Len(page) + 1}
      <4>1. page \o gap = page /\ Len(gap) = 0 /\ Len(page) + 1 + 0 = Len(page) + 1
        BY <2>1 DEF InStep, Chained
      <4> QED
        BY <1>3, <1>6, <4>1
    <3> QED
      BY <1>5, <3>1, AddEntry DEF InStep
  <2>2. CASE Whole(gap)
    <3>1. Chained(page \o gap, heads \cup {Len(page) + 1})
      BY <2>2, AddEntry DEF InStep
    <3>2. Chained((page \o gap) \o entry, (heads \cup {Len(page) + 1}) \cup {Len(page \o gap) + 1})
      BY <1>5, <3>1, AddEntry
    <3>3. Len(page \o gap) + 1 = Len(page) + 1 + Len(gap)
      BY <2>2 DEF InStep, Chained, Whole
    <3> QED
      BY <1>3, <1>6, <3>2, <3>3
  <2> QED
    BY <1>7, <2>1, <2>2
<1>9. phase' = "fill" /\ pos' = pos /\ events' \in Nat
  BY DEF Happen, parseVars, InStep
<1> QED
  BY <1>1, <1>8, <1>9 DEF InStep

\* Padding ends the page for the parser.
LEMMA PadInStep ==
    ASSUME InStep, Pad
    PROVE  InStep'
<1> DEFINE e == <<Header(Padding, 0)>> \o Entry(<<CompleteId, 0>>, 0)
<1>1. Header(Padding, 0) \in Nat /\ Header(Padding, 0) % Types = Padding
  BY Sizes, HeaderType DEF Padding
<1>2. Whole(Entry(<<CompleteId, 0>>, 0))
  <2>1. <<CompleteId, 0>> \in Seq(Nat) /\ Len(<<CompleteId, 0>>) >= 1
    BY DEF CompleteId
  <2> QED
    BY <2>1, EntryWhole
<1>3. Whole(e)
  <2>1. Entry(<<CompleteId, 0>>, 0) \in Seq(Nat)
    BY <1>2 DEF Whole
  <2>2. e \in Seq(Nat) /\ Len(e) >= 1 /\ e[1] = Header(Padding, 0)
    BY <1>1, <2>1
  <2> QED
    BY <1>1, <2>2 DEF Whole
<1>4. page' = page \o e /\ heads' = heads \cup {Len(page) + 1}
  BY DEF Pad
<1> HIDE DEF e
<1>5. Chained(page', heads')
  BY <1>3, <1>4, AddEntry DEF InStep
<1>6. pos' = 0 /\ UNCHANGED <<now, events>>
  BY DEF Pad, Parse
<1>7. pos' + 1 \in heads' \cup {Len(page') + 1}
  BY <1>5, <1>6 DEF Chained
<1> QED
  BY <1>5, <1>6, <1>7 DEF InStep

\* The parser goes from the header it is at to the next one, or to the end.
LEMMA EntryInStep ==
    ASSUME InStep, phase = "parse", Has(1), Type # Padding,
           pos' = pos + Size(page, pos + 1),
           UNCHANGED <<now, events, page, heads>>
    PROVE  InStep'
<1>1. pos < Len(page) /\ pos \in Nat /\ page \in Seq(Nat)
  BY DEF InStep, Has, Chained
<1>2. pos + 1 \in heads
  BY <1>1 DEF InStep, Chained
<1>3. (pos + 1) + Size(page, pos + 1) \in heads \cup {Len(page) + 1}
  BY <1>2 DEF InStep, Chained, Linked, Type, Word
<1>4. Size(page, pos + 1) \in Nat
  <2>1. \A n \in Nat : n % Types \in Nat
    BY Sizes
  <2>2. page[pos + 1] \in Nat
    BY <1>1
  <2>3. page[pos + 1] % Types = 0 => page[(pos + 1) + 1] \in Nat
    <3>1. page[pos + 1] % Types = 0 => pos + 1 < Len(page)
      BY <1>2 DEF InStep, Chained, Linked, Type, Word, Padding
    <3> QED
      BY <1>1, <3>1
  <2> QED
    BY <2>1, <2>2, <2>3 DEF Size
<1>5. pos' \in Nat /\ pos' + 1 \in heads \cup {Len(page) + 1}
  <2> DEFINE size == Size(page, pos + 1)
  <2>1. pos \in Nat /\ size \in Nat /\ pos' = pos + size
        /\ (pos + 1) + size \in heads \cup {Len(page) + 1}
    BY <1>1, <1>3, <1>4
  <2> HIDE DEF size
  <2>2. pos' + 1 = (pos + 1) + size
    BY <2>1
  <2> QED
    BY <2>1, <2>2
<1> QED
  BY <1>5 DEF InStep

\* Every step leaves the parser in step with the page.
LEMMA NextInStep == InStep /\ [Next]_vars => InStep'
<1> SUFFICES ASSUME InStep, [Next]_vars PROVE InStep'
  OBVIOUS
<1>1. ASSUME NEW e \in EventOf(events + 1), NEW dt \in Steps, Happen(e, dt) PROVE InStep'
  BY <1>1, HappenInStep
<1>2. CASE Pad
  BY <1>2, PadInStep
<1>3. CASE ReadPage
  <2>1. pos' = 0 /\ UNCHANGED <<now, events, page, heads>>
    BY <1>3 DEF ReadPage, Parse, kernelVars
  <2> QED
    BY <2>1 DEF InStep, Chained
<1>4. CASE Leave
  <2>1. UNCHANGED <<now, events, pos>> /\ phase' # "parse"
    BY <1>4 DEF Leave, WritePage, WriteFails, parseVars
  <2>2. UNCHANGED <<page, heads>> \/ (page' = <<>> /\ heads' = {})
    BY <1>4 DEF Leave, WritePage, WriteFails
  <2>3. Chained(<<>>, {})
    BY DEF Chained
  <2>4. Chained(page', heads')
    <3>1. CASE UNCHANGED <<page, heads>>
      BY <3>1 DEF InStep
    <3>2. CASE page' = <<>> /\ heads' = {}
      BY <2>3, <3>2
    <3> QED
      BY <2>2, <3>1, <3>2
  <2> QED
    BY <2>1, <2>4 DEF InStep
<1>5. CASE ParseTimeStamp
  <2>1. /\ phase = "parse" /\ Has(1) /\ Type = TimeStamp /\ pos' = pos + 3
        /\ UNCHANGED <<now, events, page, heads>>
    BY <1>5 DEF ParseTimeStamp, kernelVars
  <2>2. Size(page, pos + 1) = 3 /\ Type # Padding
    BY <2>1, Sizes DEF Size, Type, Word, TimeStamp, Padding
  <2> QED
    BY <2>1, <2>2, EntryInStep
<1>6. CASE ParseTimeExtend
  <2>1. /\ phase = "parse" /\ Has(1) /\ Type = TimeExtend /\ pos' = pos + 2
        /\ UNCHANGED <<now, events, page, heads>>
    BY <1>6 DEF ParseTimeExtend, kernelVars
  <2>2. Size(page, pos + 1) = 2 /\ Type # Padding
    BY <2>1, Sizes DEF Size, Type, Word, TimeExtend, TimeStamp, Padding
  <2> QED
    BY <2>1, <2>2, EntryInStep
<1>7. CASE ParseLong
  <2>1. /\ phase = "parse" /\ Has(1) /\ Type = 0 /\ pos' = pos + 2 + Word(2)
        /\ UNCHANGED <<now, events, page, heads>>
    BY <1>7 DEF ParseLong, kernelVars
  <2>2. Size(page, pos + 1) = 2 + page[(pos + 1) + 1] /\ Type # Padding
    BY <2>1, Sizes DEF Size, Type, Word, TimeExtend, TimeStamp, Padding
  <2>3. Word(2) = page[(pos + 1) + 1] /\ Word(2) \in Nat
    <3>1. pos + 2 \in 1..Len(page) /\ page \in Seq(Nat) /\ (pos + 1) + 1 = pos + 2
      BY <1>7 DEF ParseLong, Has, InStep, Chained
    <3> QED
      BY <3>1 DEF Word
  <2>4. pos' = pos + Size(page, pos + 1)
    BY <2>1, <2>2, <2>3 DEF InStep
  <2> QED
    BY <2>1, <2>2, <2>4, EntryInStep
<1>8. CASE ParseShort
  <2>1. /\ phase = "parse" /\ Has(1) /\ Type \in 1..Short /\ pos' = pos + 1 + Type
        /\ UNCHANGED <<now, events, page, heads>>
    BY <1>8 DEF ParseShort, kernelVars
  <2>2. Size(page, pos + 1) = 1 + Type /\ Type # Padding
    BY <2>1, Sizes DEF Size, Type, Word, TimeExtend, TimeStamp, Padding
  <2>3. pos' = pos + Size(page, pos + 1)
    BY <2>1, <2>2, Sizes DEF InStep
  <2> QED
    BY <2>1, <2>2, <2>3, EntryInStep
<1>9. CASE ScanRecord \/ ScanFails \/ ScanEnds
  <2>1. UNCHANGED <<now, events, page, heads, pos>> /\ phase' # "parse"
    BY <1>9 DEF ScanRecord, ScanFails, ScanEnds, kernelVars, parseVars
  <2> QED
    BY <2>1 DEF InStep
<1>10. CASE UNCHANGED vars
  BY <1>10 DEF vars, kernelVars, parseVars, InStep
<1> QED
  BY <1>1, <1>2, <1>3, <1>4, <1>5, <1>6, <1>7, <1>8, <1>9, <1>10 DEF Next

\* The parser takes no word for a header that was not written as one, whatever the
\* sizes, the gaps between events, the lengths of their lists and the page's padding.
THEOREM ParserInSync == Spec => []InSync
<1>1. Init => InStep
  BY DEF Init, InStep, Chained
<1>2. InStep => InSync
  BY DEF InStep, InSync, Chained
<1> QED
  BY <1>1, <1>2, NextInStep, PTL DEF Spec
-----------------------------------------------------------------------------
(* What the encoder makes of an event, and the reader of a record.         *)

\* The events that fit on a page.
Events == {e \in UNION {EventOf(n) : n \in Nat} : Len(Data(e)) <= PageWords}
Recorded == [event : {e \in Events : IsOurs(e)}, ts : 0..(U64 - 1)]

\* The words of a record.
Words(w) == Dispatch(Data(w.event), w.ts)

\* The fields of an event; a list of descriptors holds whole ones.
LEMMA EventParts ==
    ASSUME NEW e \in Events
    PROVE  /\ e.id \in {SubmitId, CompleteId, OtherId}
           /\ e.cmd \in Nat /\ e.sgl \in {0, 1} /\ e.tail \in Nat
           /\ e.id # SubmitId => e.sgl = 0 /\ e.tail = 0
           /\ e.tail \div EntryLen(e.sgl) \in Nat
           /\ (e.tail \div EntryLen(e.sgl)) * EntryLen(e.sgl) = e.tail
<1>1. PICK n \in Nat : e \in EventOf(n)
  BY DEF Events
<1>2. CASE \E i \in {CompleteId, OtherId} : e = [id |-> i, cmd |-> n, sgl |-> 0, tail |-> 0]
  <2>1. e.id \in {CompleteId, OtherId} /\ e.cmd = n /\ e.sgl = 0 /\ e.tail = 0
    BY <1>2
  <2> QED
    BY <2>1 DEF EntryLen
<1>3. CASE \E g \in {0, 1}, t \in Tails : e = [id |-> SubmitId, cmd |-> n, sgl |-> g, tail |-> t * EntryLen(g)]
  <2>1. PICK g \in {0, 1}, t \in Tails : e = [id |-> SubmitId, cmd |-> n, sgl |-> g, tail |-> t * EntryLen(g)]
    BY <1>3
  <2>2. e.id = SubmitId /\ e.cmd = n /\ e.sgl = g /\ e.tail = t * EntryLen(g)
    BY <2>1
  <2>3. t \in Nat
    BY Sizes
  <2>4. EntryLen(g) \in {1, 2}
    BY DEF EntryLen
  <2>5. t * EntryLen(g) \in Nat /\ (t * EntryLen(g)) \div EntryLen(g) = t
    BY <2>3, <2>4
  <2> QED
    BY <2>2, <2>3, <2>5
<1> QED
  BY <1>1, <1>2, <1>3 DEF EventOf

\* The descriptors are found again in the data of a submission.
LEMMA SubmitData ==
    ASSUME NEW e \in Events, e.id = SubmitId
    PROVE  /\ Len(Data(e)) = Fixed + e.tail
           /\ Data(e)[1] = SubmitId /\ Data(e)[2] = e.cmd /\ Data(e)[4] = e.sgl
           /\ Descriptors(Data(e)) = [k \in 1..e.tail |-> e.cmd + k]
<1> DEFINE loc   == e.tail * WordBase + Fixed
           first == <<SubmitId, e.cmd, loc, e.sgl>>
           list  == [k \in 1..e.tail |-> e.cmd + k]
           data  == first \o list
<1>1. e.cmd \in Nat /\ e.sgl \in Nat /\ e.tail \in Nat /\ Fixed = 4 /\ WordBase \in Nat \ {0} /\ Fixed < WordBase
  BY EventParts, PageAssumption DEF Fixed
<1>2. Data(e) = data
  BY DEF Data
<1>3. loc \in Nat /\ loc % WordBase = Fixed /\ loc \div WordBase = e.tail
  <2>1. e.tail * WordBase \in Nat
    BY <1>1
  <2>2. loc \in Nat
    BY <1>1, <2>1
  <2> DEFINE n == loc
  <2> HIDE DEF n
  <2>3. loc = (WordBase * (loc \div WordBase)) + (loc % WordBase) /\ loc % WordBase \in Nat /\ loc % WordBase < WordBase
        /\ loc \div WordBase \in Nat
    <3> HIDE DEF loc
    <3> QED
      BY <1>1, <2>2, DivMod
  <2>4. WordBase * e.tail + Fixed = loc
    BY <1>1
  <2>5. loc \div WordBase \in Int /\ loc % WordBase \in 0..(WordBase - 1) /\ Fixed \in 0..(WordBase - 1)
    BY <1>1, <2>3
  <2>6. WordBase * (loc \div WordBase) + (loc % WordBase) = WordBase * e.tail + Fixed
    BY <2>3, <2>4
  <2> HIDE DEF loc
  <2> QED
    BY <1>1, <2>2, <2>5, <2>6, DivUnique
<1> HIDE DEF loc
<1>4. first \in Seq(Nat) /\ Len(first) = 4 /\ list \in Seq(Nat) /\ Len(list) = e.tail
  BY <1>1, <1>3 DEF SubmitId
<1>5. first[1] = SubmitId /\ first[2] = e.cmd /\ first[3] = loc /\ first[4] = e.sgl
  OBVIOUS
<1> HIDE DEF first, list
<1>6. data \in Seq(Nat) /\ Len(data) = 4 + e.tail /\ \A k \in 1..4 : data[k] = first[k]
  <2>1. /\ data \in Seq(Nat) /\ Len(data) = Len(first) + Len(list)
        /\ \A k \in 1..Len(first) : data[k] = first[k]
    BY <1>4, Joined
  <2> HIDE DEF data
  <2> QED
    BY <1>4, <2>1
<1>7. \A k \in 1..e.tail : data[4 + k] = list[k]
  <2>1. \A k \in 1..Len(list) : data[Len(first) + k] = list[k]
    BY <1>4, Joined
  <2> HIDE DEF data
  <2> QED
    BY <1>4, <2>1
<1> HIDE DEF data
<1>8. data[1] = SubmitId /\ data[2] = e.cmd /\ data[3] = loc /\ data[4] = e.sgl
  BY <1>5, <1>6
<1> USE DEF list
<1>9. Descriptors(data) = list
  <2>1. CASE e.tail = 0
    <3>1. Descriptors(data) = <<>>
      BY <1>3, <1>8, <2>1 DEF Descriptors
    <3>2. list = <<>>
      BY <2>1
    <3> QED
      BY <3>1, <3>2
  <2>2. CASE e.tail > 0
    <3>1. Descriptors(data) = SubSeq(data, 4 + 1, 4 + e.tail)
      <4>1. data[3] \div WordBase = e.tail /\ data[3] % WordBase = 4
        BY <1>1, <1>3, <1>8
      <4>2. e.tail > 0 /\ 4 + e.tail <= Len(data)
        BY <1>1, <1>6, <2>2
      <4> QED
        BY <4>1, <4>2, Zenon DEF Descriptors
    <3> DEFINE s == SubSeq(data, 4 + 1, 4 + e.tail)
    <3>2. s \in Seq(Nat) /\ Len(s) = e.tail /\ \A k \in 1..e.tail : s[k] = data[4 + k]
      <4> DEFINE t == e.tail
      <4>1. t \in Nat /\ 4 \in Nat /\ 4 + t <= Len(data) /\ data \in Seq(Nat)
        BY <1>1, <1>6
      <4> HIDE DEF t
      <4>2. SubSeq(data, 4 + 1, 4 + t) \in Seq(Nat) /\ Len(SubSeq(data, 4 + 1, 4 + t)) = t
            /\ \A k \in 1..t : SubSeq(data, 4 + 1, 4 + t)[k] = data[4 + k]
        BY <4>1, Slice
      <4> QED
        BY <4>2 DEF t
    <3> HIDE DEF s
    <3>3. \A k \in 1..e.tail : s[k] = list[k]
      BY <1>7, <3>2
    <3> HIDE DEF list
    <3>4. s = list
      <4>1. /\ s \in Seq(Nat) /\ list \in Seq(Nat) /\ Len(s) = Len(list)
            /\ \A k \in 1..Len(s) : s[k] = list[k]
        BY <1>4, <3>2, <3>3
      <4> QED
        BY <4>1, SeqEqual
    <3> QED
      BY <3>1, <3>4 DEF s
  <2> QED
    BY <1>1, <2>1, <2>2
<1> QED
  BY <1>1, <1>2, <1>6, <1>8, <1>9

\* What is written for an event is a record that the reader accepts, and it says the
\* event's time, command and descriptors.
LEMMA RecordSays ==
    ASSUME NEW w \in Recorded
    PROVE  /\ Words(w) \in Seq(Nat) /\ Len(Words(w)) >= HeaderLen
           /\ Words(w)[1] = Magic /\ Words(w)[3] = Len(Words(w))
           /\ \/ /\ Words(w)[2] = SubmitId /\ Len(Words(w)) >= SubmitFixed
                 /\ Len(Words(w)) - SubmitFixed = Words(w)[7] * EntryLen(Words(w)[6])
              \/ Words(w)[2] = CompleteId /\ Len(Words(w)) = CompleteLen
           /\ Decode(Words(w)) = Expected(w)
<1> DEFINE e == w.event
           W == Words(w)
           list == [k \in 1..e.tail |-> e.cmd + k]
<1>1. e \in Events /\ IsOurs(e) /\ w.ts \in Nat
  BY Sizes DEF Recorded
<1>2. /\ e.cmd \in Nat /\ e.sgl \in {0, 1} /\ e.tail \in Nat
      /\ e.id # SubmitId => e.sgl = 0 /\ e.tail = 0
      /\ e.tail \div EntryLen(e.sgl) \in Nat
      /\ (e.tail \div EntryLen(e.sgl)) * EntryLen(e.sgl) = e.tail
  BY <1>1, EventParts
<1>3. list \in Seq(Nat) /\ Len(list) = e.tail
  BY <1>2
<1>4. Len(Data(e)) <= PageWords /\ PageWords \in Nat /\ U16 \in Nat \ {0} /\ SubmitFixed + PageWords < U16
  BY <1>1, PageAssumption DEF Events
<1>5. CASE e.id = SubmitId
  <2> DEFINE n == e.tail \div EntryLen(e.sgl)
             first == <<Magic, SubmitId, SubmitFixed + e.tail, w.ts, e.cmd, e.sgl, n>>
  <2>1. /\ Len(Data(e)) = 4 + e.tail /\ Data(e)[1] = SubmitId /\ Data(e)[2] = e.cmd /\ Data(e)[4] = e.sgl
        /\ Descriptors(Data(e)) = list
    BY <1>1, <1>5, SubmitData DEF Fixed
  <2>2. W = EncodeSubmit(Data(e), w.ts)
    <3>1. Len(Data(e)) >= Fixed
      BY <1>2, <2>1 DEF Fixed
    <3> QED
      BY <2>1, <3>1 DEF Words, Dispatch
  <2>3. n \in Nat /\ n <= e.tail
    <3>1. EntryLen(e.sgl) \in {1, 2}
      BY DEF EntryLen
    <3>2. n \in Nat /\ n * EntryLen(e.sgl) = e.tail
      BY <1>2
    <3> HIDE DEF n
    <3> QED
      BY <1>2, <3>1, <3>2
  <2>4. n % U16 = n /\ (SubmitFixed + e.tail) % U16 = SubmitFixed + e.tail
    <3> HIDE DEF n
    <3>1. e.tail \in Nat /\ 4 + e.tail <= PageWords /\ SubmitFixed \in Nat
      BY <1>2, <1>4, <2>1 DEF SubmitFixed
    <3>2. n < U16 /\ SubmitFixed + e.tail < U16 /\ SubmitFixed + e.tail \in Nat
      BY <1>4, <2>3, <3>1
    <3>3. \A x \in Nat : x < U16 => x % U16 = x
      BY <1>4
    <3> QED
      BY <2>3, <3>2, <3>3
  <2>5. W = first \o list
    <3> HIDE DEF list, n
    <3>1. Len(Descriptors(Data(e))) \div EntryLen(Data(e)[4]) = n
      BY <1>3, <2>1 DEF n
    <3> QED
      BY <1>3, <2>1, <2>2, <2>4, <3>1 DEF EncodeSubmit
  <2>6. first \in Seq(Nat) /\ Len(first) = 7 /\ SubmitFixed = 7 /\ HeaderLen = 5
    <3> HIDE DEF n
    <3> QED
      BY <1>1, <1>2, <2>3 DEF Magic, SubmitId, SubmitFixed, HeaderLen
  <2>7. /\ first[1] = Magic /\ first[2] = SubmitId /\ first[3] = SubmitFixed + e.tail /\ first[4] = w.ts
        /\ first[5] = e.cmd /\ first[6] = e.sgl /\ first[7] = n
    OBVIOUS
  <2> HIDE DEF first, list, W
  <2>8. /\ W \in Seq(Nat) /\ Len(W) = 7 + e.tail
        /\ \A k \in 1..7 : W[k] = first[k]
        /\ \A k \in 1..e.tail : W[7 + k] = list[k]
    <3>1. /\ W \in Seq(Nat) /\ Len(W) = Len(first) + Len(list)
          /\ \A k \in 1..Len(first) : W[k] = first[k]
          /\ \A k \in 1..Len(list) : W[Len(first) + k] = list[k]
      BY <1>3, <2>5, <2>6, Joined
    <3> QED
      BY <1>3, <2>6, <3>1
  <2>9. /\ W[1] = Magic /\ W[2] = SubmitId /\ W[3] = SubmitFixed + e.tail /\ W[4] = w.ts
        /\ W[5] = e.cmd /\ W[6] = e.sgl /\ W[7] = n
    BY <2>7, <2>8
  <2>10. SubSeq(W, 7 + 1, Len(W)) = list
    <3> DEFINE t == e.tail
               s == SubSeq(W, 7 + 1, 7 + t)
    <3>1. t \in Nat /\ W \in Seq(Nat) /\ Len(W) = 7 + t /\ 7 + t <= Len(W)
      <4>1. e.tail \in Nat /\ W \in Seq(Nat) /\ Len(W) = 7 + e.tail
        BY <1>2, <2>8, Zenon
      <4> QED
        BY <4>1
    <3> HIDE DEF t
    <3>2. s \in Seq(Nat) /\ Len(s) = t /\ \A k \in 1..t : s[k] = W[7 + k]
      BY <3>1, Slice
    <3>3. \A k \in 1..t : s[k] = list[k]
      BY <2>8, <3>2 DEF t
    <3> HIDE DEF s
    <3>4. list \in Seq(Nat) /\ Len(s) = Len(list) /\ \A k \in 1..Len(s) : s[k] = list[k]
      BY <1>3, <3>2, <3>3 DEF t
    <3>5. s = list
      BY <3>2, <3>4, SeqEqual
    <3> QED
      BY <3>1, <3>5 DEF s
  <2>11. Decode(W) = Expected(w)
    <3>1. Decode(W) = [id |-> SubmitId, ts |-> w.ts, cmd |-> e.cmd, sgl |-> e.sgl, tail |-> list]
      BY <2>6, <2>9, <2>10 DEF Decode
    <3> QED
      BY <1>5, <3>1 DEF Expected, list
  <2>12. Len(W) >= HeaderLen /\ Len(W) >= SubmitFixed /\ W[3] = Len(W)
         /\ Len(W) - SubmitFixed = W[7] * EntryLen(W[6])
    <3>1. n * EntryLen(e.sgl) = e.tail
      BY <1>2
    <3> HIDE DEF n
    <3>2. W[7] * EntryLen(W[6]) = e.tail
      BY <2>9, <3>1, Zenon
    <3>3. Len(W) = 7 + e.tail /\ e.tail \in Nat /\ W[3] = 7 + e.tail
      BY <1>2, <2>6, <2>8, <2>9
    <3>4. Len(W) >= HeaderLen /\ Len(W) >= SubmitFixed /\ W[3] = Len(W) /\ Len(W) - SubmitFixed = e.tail
      BY <2>6, <3>3
    <3> QED
      BY <3>2, <3>4
  <2> QED
    BY <2>8, <2>9, <2>11, <2>12 DEF W
<1>6. CASE e.id = CompleteId
  <2>1. Data(e) = <<CompleteId, e.cmd>>
    BY <1>6 DEF Data, SubmitId, CompleteId
  <2>2. W = <<Magic, CompleteId, CompleteLen, w.ts, e.cmd>>
    BY <2>1 DEF Words, Dispatch, EncodeComplete, SubmitId, CompleteId
  <2>3. e.tail = 0 /\ e.sgl = 0
    BY <1>2, <1>6 DEF SubmitId, CompleteId
  <2>4. list = <<>>
    BY <2>3
  <2>5. Decode(W) = Expected(w)
    <3>1. Decode(W) = [id |-> CompleteId, ts |-> w.ts, cmd |-> e.cmd, sgl |-> 0, tail |-> <<>>]
      BY <2>2 DEF Decode, SubmitId, CompleteId
    <3> QED
      BY <1>6, <2>3, <2>4, <3>1 DEF Expected
  <2> QED
    BY <1>1, <1>2, <2>2, <2>5 DEF Magic, CompleteId, CompleteLen, HeaderLen
<1> QED
  BY <1>1, <1>5, <1>6 DEF IsOurs

\* Other events add nothing.
LEMMA OthersAddNothing ==
    ASSUME NEW e \in Events, ~IsOurs(e), NEW t
    PROVE  Dispatch(Data(e), t) = <<>>
<1>1. e.id = OtherId
  BY EventParts DEF IsOurs
<1>2. Data(e) = <<OtherId, e.cmd>>
  BY <1>1 DEF Data, OtherId, SubmitId
<1> QED
  BY <1>2 DEF Dispatch, OtherId, SubmitId, CompleteId
-----------------------------------------------------------------------------
(* Records one after the other.                                            *)

\* Record i of w ends at at[i]: the words are those of the records after a, up to b.
LaidAt(words, w, a, b, at) ==
    /\ at \in [a..b -> 0..Len(words)]
    /\ at[a] = 0 /\ at[b] = Len(words)
    /\ \A i \in a..b : at[i] = Len(words) => i = b
    /\ \A i \in a..(b - 1) :
          /\ at[i + 1] = at[i] + Len(Words(w[i + 1]))
          /\ \A k \in 1..Len(Words(w[i + 1])) : words[at[i] + k] = Words(w[i + 1])[k]

Laid(words, w, a, b) ==
    /\ words \in Seq(Nat)
    /\ a \in Nat /\ b \in Nat /\ a <= b /\ b <= Len(w)
    /\ \E at : LaidAt(words, w, a, b, at)

\* No records are no words.
LEMMA LaidNone ==
    ASSUME NEW w \in Seq(Recorded), NEW a \in 0..Len(w)
    PROVE  Laid(<<>>, w, a, a)
<1> DEFINE at == [i \in a..a |-> 0]
<1>1. a \in Nat /\ Len(w) \in Nat /\ a \in a..a /\ \A i \in a..a : i = a
  OBVIOUS
<1>2. <<>> \in Seq(Nat) /\ Len(<<>>) = 0
  OBVIOUS
<1>3. at[a] = 0 /\ at \in [a..a -> 0..0]
  BY <1>1
<1>4. \A i : i \notin a..(a - 1)
  BY <1>1
<1> HIDE DEF at
<1>5. LaidAt(<<>>, w, a, a, at)
  BY <1>1, <1>2, <1>3, <1>4 DEF LaidAt
<1> QED
  BY <1>1, <1>2, <1>5 DEF Laid

\* The words of one record are one record.
LEMMA LaidOne ==
    ASSUME NEW w \in Seq(Recorded), NEW a \in Nat, a + 1 <= Len(w)
    PROVE  Laid(Words(w[a + 1]), w, a, a + 1)
<1> DEFINE words == Words(w[a + 1])
           at == [i \in a..(a + 1) |-> IF i = a THEN 0 ELSE Len(words)]
<1>1. words \in Seq(Nat) /\ Len(words) > 0 /\ Len(words) \in Nat
  <2>1. w[a + 1] \in Recorded
    OBVIOUS
  <2>2. words \in Seq(Nat) /\ Len(words) >= 5
    BY <2>1, RecordSays DEF HeaderLen
  <2> HIDE DEF words
  <2> QED
    BY <2>2
<1>2. \A i \in a..(a + 1) : i = a \/ i = a + 1
  OBVIOUS
<1>3. a..(a + 1 - 1) = {a} /\ a \in a..(a + 1) /\ a + 1 \in a..(a + 1) /\ a + 1 # a
  OBVIOUS
<1> HIDE DEF words
<1>4. at \in [a..(a + 1) -> 0..Len(words)] /\ at[a] = 0 /\ at[a + 1] = Len(words)
  BY <1>1, <1>3
<1> HIDE DEF at
<1>5. \A k \in 1..Len(words) : words[at[a] + k] = words[k]
  BY <1>4
<1>6. at[a + 1] = at[a] + Len(words)
  BY <1>1, <1>4
<1>7. \A i \in a..(a + 1) : at[i] = Len(words) => i = a + 1
  BY <1>1, <1>2, <1>4
<1>8. LaidAt(words, w, a, a + 1, at)
  <2>1. ASSUME NEW i \in a..(a + 1 - 1)
        PROVE  /\ at[i + 1] = at[i] + Len(Words(w[i + 1]))
               /\ \A k \in 1..Len(Words(w[i + 1])) : words[at[i] + k] = Words(w[i + 1])[k]
    <3>1. i = a
      BY <1>3, <2>1
    <3> QED
      BY <1>5, <1>6, <3>1 DEF words
  <2> QED
    BY <1>4, <1>7, <2>1 DEF LaidAt
<1> QED
  BY <1>1, <1>8 DEF Laid, words

\* Records after records are records.
LEMMA LaidJoin ==
    ASSUME NEW w \in Seq(Recorded), NEW f, NEW r, NEW a, NEW m, NEW b, Laid(f, w, a, m), Laid(r, w, m, b)
    PROVE  Laid(f \o r, w, a, b)
<1>1. /\ f \in Seq(Nat) /\ r \in Seq(Nat) /\ a \in Nat /\ m \in Nat /\ b \in Nat
      /\ a <= m /\ m <= b /\ b <= Len(w) /\ Len(w) \in Nat
  BY DEF Laid
<1>2. PICK x : LaidAt(f, w, a, m, x)
  BY DEF Laid
<1>3. PICK y : LaidAt(r, w, m, b, y)
  BY DEF Laid
<1> DEFINE F == Len(f)
           R == Len(r)
           s == f \o r
           at == [i \in a..b |-> IF i <= m THEN x[i] ELSE F + y[i]]
<1>4. F \in Nat /\ R \in Nat
  BY <1>1
<1>5. /\ s \in Seq(Nat) /\ Len(s) = F + R
      /\ \A k \in 1..F : s[k] = f[k]
      /\ \A k \in 1..R : s[F + k] = r[k]
  BY <1>1, Joined
<1>6. /\ \A i \in a..m : x[i] \in 0..F /\ (x[i] = F => i = m)
      /\ x[a] = 0 /\ x[m] = F
  BY <1>2 DEF LaidAt
<1>7. /\ \A i \in m..b : y[i] \in 0..R /\ (y[i] = R => i = b)
      /\ y[m] = 0 /\ y[b] = R
  BY <1>3 DEF LaidAt
<1> HIDE DEF F, R, s
<1>8. (\A i \in a..m : at[i] = x[i]) /\ (\A i \in m..b : at[i] = F + y[i])
  <2>1. ASSUME NEW i \in a..m PROVE at[i] = x[i]
    BY <1>1
  <2>2. ASSUME NEW i \in m..b PROVE at[i] = F + y[i]
    <3>1. CASE i = m
      BY <1>1, <1>4, <1>6, <1>7, <3>1
    <3>2. CASE i # m
      BY <1>1, <3>2
    <3> QED
      BY <3>1, <3>2
  <2> QED
    BY <2>1, <2>2
<1>9. at \in [a..b -> 0..Len(s)]
  <2>1. ASSUME NEW i \in a..b PROVE at[i] \in 0..Len(s)
    <3>1. CASE i \in a..m
      BY <1>4, <1>5, <1>6, <1>8, <3>1
    <3>2. CASE i \in m..b
      <4>1. at[i] = F + y[i] /\ y[i] \in 0..R
        BY <1>7, <1>8, <3>2
      <4> QED
        BY <1>4, <1>5, <4>1
    <3>3. i \in a..m \/ i \in m..b
      BY <1>1
    <3> QED
      BY <3>1, <3>2, <3>3
  <2>2. at = [i \in a..b |-> at[i]]
    OBVIOUS
  <2> HIDE DEF at
  <2> QED
    BY <2>1, <2>2
<1> HIDE DEF at
<1>10. at[a] = 0 /\ at[b] = Len(s)
  <2>1. a \in a..m /\ b \in m..b
    BY <1>1
  <2> QED
    BY <1>5, <1>6, <1>7, <1>8, <2>1
<1>11. ASSUME NEW i \in a..b, at[i] = Len(s) PROVE i = b
  <2>1. CASE i \in a..m
    <3>1. x[i] \in 0..F /\ x[i] = F + R
      BY <1>5, <1>6, <1>8, <1>11, <2>1
    <3>2. R = 0 /\ x[i] = F
      BY <1>4, <3>1
    <3>3. i = m
      BY <1>6, <2>1, <3>2
    <3>4. m = b
      <4>1. m \in m..b
        BY <1>1
      <4> QED
        BY <1>7, <3>2, <4>1
    <3> QED
      BY <3>3, <3>4
  <2>2. CASE i \in m..b
    <3>1. y[i] \in 0..R /\ F + y[i] = F + R
      BY <1>5, <1>7, <1>8, <1>11, <2>2
    <3>2. y[i] = R
      BY <1>4, <3>1
    <3> QED
      BY <1>7, <2>2, <3>2
  <2>3. i \in a..m \/ i \in m..b
    BY <1>1
  <2> QED
    BY <2>1, <2>2, <2>3
<1>12. ASSUME NEW i \in a..(b - 1)
       PROVE  /\ at[i + 1] = at[i] + Len(Words(w[i + 1]))
              /\ \A k \in 1..Len(Words(w[i + 1])) : s[at[i] + k] = Words(w[i + 1])[k]
  <2> DEFINE W == Words(w[i + 1])
             n == Len(W)
  <2>1. n \in Nat
    <3>1. w[i + 1] \in Recorded
      BY <1>1
    <3>2. W \in Seq(Nat)
      BY <3>1, RecordSays
    <3> HIDE DEF W
    <3> QED
      BY <3>2
  <2>2. CASE i \in a..(m - 1)
    <3>1. i \in a..m /\ i + 1 \in a..m
      BY <1>1, <2>2
    <3>2. /\ x[i + 1] = x[i] + n
          /\ \A k \in 1..n : f[x[i] + k] = W[k]
      BY <1>2, <2>2 DEF LaidAt
    <3>3. at[i] = x[i] /\ at[i + 1] = x[i + 1] /\ x[i] \in Nat /\ x[i + 1] \in 0..F
      BY <1>6, <1>8, <3>1
    <3> HIDE DEF n, W
    <3>4. \A k \in 1..n : x[i] + k \in 1..F
      BY <1>4, <2>1, <3>2, <3>3
    <3>5. \A k \in 1..n : s[x[i] + k] = W[k]
      BY <1>5, <3>2, <3>4
    <3> QED
      BY <3>2, <3>3, <3>5 DEF n, W
  <2>3. CASE i \in m..(b - 1)
    <3>1. i \in m..b /\ i + 1 \in m..b
      BY <1>1, <2>3
    <3>2. /\ y[i + 1] = y[i] + n
          /\ \A k \in 1..n : r[y[i] + k] = W[k]
      BY <1>3, <2>3 DEF LaidAt
    <3>3. at[i] = F + y[i] /\ at[i + 1] = F + y[i + 1] /\ y[i] \in Nat /\ y[i + 1] \in 0..R
      BY <1>7, <1>8, <3>1
    <3> HIDE DEF n, W
    <3>4. \A k \in 1..n : y[i] + k \in 1..R /\ (F + y[i]) + k = F + (y[i] + k)
      <4> DEFINE yi == y[i]
                 yn == y[i + 1]
      <4>1. n \in Nat /\ F \in Nat /\ R \in Nat /\ yi \in Nat /\ yn <= R /\ yn = yi + n
        BY <1>4, <2>1, <3>2, <3>3
      <4> HIDE DEF yi, yn
      <4>2. \A k \in 1..n : yi + k \in 1..R /\ (F + yi) + k = F + (yi + k)
        BY <4>1
      <4> QED
        BY <4>2 DEF yi
    <3>5. \A k \in 1..n : s[at[i] + k] = W[k]
      BY <1>5, <3>2, <3>3, <3>4
    <3>6. at[i + 1] = at[i] + n
      BY <1>4, <2>1, <3>2, <3>3
    <3> QED
      BY <3>5, <3>6 DEF n, W
  <2>4. i \in a..(m - 1) \/ i \in m..(b - 1)
    BY <1>1
  <2> QED
    BY <2>2, <2>3, <2>4
<1>13. LaidAt(s, w, a, b, at)
  BY <1>9, <1>10, <1>11, <1>12 DEF LaidAt
<1>14. a <= b
  BY <1>1
<1> QED
  BY <1>1, <1>5, <1>13, <1>14 DEF Laid, s

\* What is laid stays when more is recorded.
LEMMA LaidStays ==
    ASSUME NEW w \in Seq(Recorded), NEW y \in Recorded, NEW words, NEW a, NEW b, Laid(words, w, a, b)
    PROVE  Laid(words, Append(w, y), a, b)
<1> DEFINE v == Append(w, y)
<1>1. Len(w) \in Nat /\ Len(v) = Len(w) + 1 /\ \A i \in 1..Len(w) : v[i] = w[i]
  OBVIOUS
<1> HIDE DEF v
<1>2. words \in Seq(Nat) /\ a \in Nat /\ b \in Nat /\ a <= b /\ b <= Len(w) /\ b <= Len(v)
  BY <1>1 DEF Laid
<1>3. PICK at : LaidAt(words, w, a, b, at)
  BY DEF Laid
<1>4. \A i \in a..(b - 1) : i + 1 \in 1..Len(w)
  BY <1>1, <1>2
<1>5. \A i \in a..(b - 1) : v[i + 1] = w[i + 1]
  BY <1>1, <1>4
<1>6. LaidAt(words, v, a, b, at)
  BY <1>3, <1>5 DEF LaidAt
<1> QED
  BY <1>2, <1>6 DEF Laid, v
-----------------------------------------------------------------------------
(* What the entries of a page say.                                         *)

\* The type of the entry at h.
TypeAt(p, h) == p[h] % Types

\* The data of the event at h.
DataOf(p, h) ==
    LET type == TypeAt(p, h) IN
        IF type = 0 THEN SubSeq(p, h + 1 + 1, h + 1 + p[h + 1]) ELSE SubSeq(p, h + 1, h + type)

\* With event e at time t, the first b of the recorded events have been seen, and not
\* the first a only.
Takes(w, e, t, a, b) ==
    IF IsOurs(e) THEN b = a + 1 /\ b <= Len(w) /\ w[b] = [event |-> e, ts |-> t] ELSE b = a

\* The entry at h takes the time from t to u, and what has been seen from a to b.
EntrySays(p, w, h, t, u, a, b) ==
    LET type == TypeAt(p, h) IN
    \/ type = TimeStamp /\ u = p[h + 1] + p[h + 2] * WordBase /\ b = a
    \/ type = TimeExtend /\ u = t + (p[h + 1] * DeltaBase + p[h] \div Types) /\ b = a
    \/ /\ type \in 0..Short
       /\ u = t + p[h] \div Types
       /\ \E e \in Events : DataOf(p, h) = Data(e) /\ Takes(w, e, u, a, b)

\* At each header of the page: the time before the entry, and how many events have
\* been seen.  Padding comes after all of them.
PageSays(p, H, w, time, seen) ==
    /\ time \in [H \cup {Len(p) + 1} -> 0..(U64 - 1)]
    /\ seen \in [H \cup {Len(p) + 1} -> 0..Len(w)]
    /\ \A h \in H :
          IF TypeAt(p, h) = Padding THEN seen[h] = Len(w)
          ELSE LET g == h + Size(p, h) IN EntrySays(p, w, h, time[h], time[g], seen[h], seen[g])

\* Equal pieces of two pages, d words apart.
LEMMA SameSlice ==
    ASSUME NEW s \in Seq(Nat), NEW t \in Seq(Nat), NEW i \in Nat \ {0}, NEW j \in Nat, NEW d \in Int,
           i <= j + 1, j <= Len(s), i + d > 0, j + d <= Len(t), \A k \in i..j : s[k] = t[k + d]
    PROVE  SubSeq(s, i, j) = SubSeq(t, i + d, j + d)
<1> DEFINE a == i - 1
           b == i + d - 1
           n == j - a
<1>1. a \in Nat /\ b \in Nat /\ n \in Nat /\ a + n <= Len(s) /\ b + n <= Len(t)
      /\ i = a + 1 /\ j = a + n /\ i + d = b + 1 /\ j + d = b + n
  OBVIOUS
<1>2. \A k \in 1..n : s[a + k] = t[b + k]
  <2> TAKE k \in 1..n
  <2>1. a + k \in i..j /\ (a + k) + d = b + k
    OBVIOUS
  <2>2. s[a + k] = t[(a + k) + d]
    BY <2>1
  <2> QED
    BY <2>1, <2>2
<1> HIDE DEF a, b, n
<1> DEFINE u == SubSeq(s, a + 1, a + n)
           v == SubSeq(t, b + 1, b + n)
<1>3. u \in Seq(Nat) /\ Len(u) = n /\ \A k \in 1..n : u[k] = s[a + k]
  BY <1>1, Slice
<1>4. v \in Seq(Nat) /\ Len(v) = n /\ \A k \in 1..n : v[k] = t[b + k]
  BY <1>1, Slice
<1> HIDE DEF u, v
<1>5. Len(u) = Len(v) /\ \A k \in 1..Len(u) : u[k] = v[k]
  BY <1>2, <1>3, <1>4
<1>6. u = v
  BY <1>3, <1>4, <1>5, SeqEqual
<1> QED
  BY <1>1, <1>6, Zenon DEF u, v

\* What a header can say.
LEMMA Remainders ==
    ASSUME NEW n \in Nat
    PROVE  n % Types \in 0..(Short + 3) /\ n \div Types \in Nat
<1>1. Types \in Nat \ {0} /\ Types = Short + 4 /\ Short \in Nat
  BY Sizes DEF Types
<1>2. n % Types \in Nat /\ n % Types < Types /\ n \div Types \in Nat
  BY <1>1, DivMod
<1> QED
  BY <1>1, <1>2

\* The words of the entry at h of page p are also at g of q.
Copied(p, h, q, g) ==
    /\ h \in 1..Len(p) /\ g \in 1..Len(q)
    /\ TypeAt(p, h) # Padding
    /\ TypeAt(p, h) = 0 => h < Len(p)
    /\ h + Size(p, h) <= Len(p) + 1 /\ g + Size(p, h) <= Len(q) + 1
    /\ \A k \in 0..(Size(p, h) - 1) : q[g + k] = p[h + k]

\* An entry says the same wherever it is.
LEMMA SameEntry ==
    ASSUME NEW p \in Seq(Nat), NEW q \in Seq(Nat), NEW h, NEW g, Copied(p, h, q, g)
    PROVE  /\ q[g] = p[h] /\ Size(q, g) = Size(p, h)
           /\ \A w, t, u, a, b : EntrySays(p, w, h, t, u, a, b) => EntrySays(q, w, g, t, u, a, b)
<1> DEFINE type == TypeAt(p, h)
           z == Size(p, h)
<1>0. Short \in Nat /\ TimeStamp = Short + 2 /\ TimeExtend = Short + 1 /\ Padding = Short + 3
  BY Sizes DEF TimeStamp, TimeExtend, Padding
<1>1. type \in 0..(Short + 3)
  <2>1. p[h] \in Nat
    BY DEF Copied
  <2> QED
    BY <2>1, Remainders DEF TypeAt
<1>2. type = 0 => p[h + 1] \in Nat
  BY DEF Copied
<1>3. z = IF type = TimeStamp THEN 3 ELSE IF type = TimeExtend THEN 2
          ELSE IF type = 0 THEN 2 + p[h + 1] ELSE 1 + type
  BY DEF Size, TypeAt
<1>4. h + z <= Len(p) + 1 /\ g + z <= Len(q) + 1 /\ \A k \in 0..(z - 1) : q[g + k] = p[h + k]
  BY DEF Copied
<1>5. type # Padding /\ (type = 0 => h < Len(p))
  BY DEF Copied
<1>6. h \in Nat \ {0} /\ g \in Nat \ {0} /\ Len(p) \in Nat /\ Len(q) \in Nat
  BY DEF Copied
<1> HIDE DEF z
<1>7. z \in Nat \ {0}
  <2> HIDE DEF type
  <2>1. CASE type = 0
    <3>1. type # TimeStamp /\ type # TimeExtend
      BY <1>0, <2>1
    <3>2. z = 2 + p[h + 1]
      BY <1>3, <2>1, <3>1
    <3>3. p[h + 1] \in Nat
      BY <1>2, <2>1
    <3> QED
      BY <3>2, <3>3
  <2>2. CASE type # 0
    BY <1>0, <1>1, <1>3, <2>2
  <2> QED
    BY <2>1, <2>2
<1>8. q[g] = p[h] /\ TypeAt(q, g) = type
  <2>1. 0 \in 0..(z - 1)
    BY <1>7
  <2>2. q[g + 0] = p[h + 0]
    BY <1>4, <2>1
  <2>3. g + 0 = g /\ h + 0 = h
    BY <1>6
  <2> QED
    BY <2>2, <2>3 DEF TypeAt
<1>9. z >= 2 => q[g + 1] = p[h + 1]
  BY <1>4, <1>7
<1>10. z >= 3 => q[g + 2] = p[h + 2]
  BY <1>4, <1>7
<1>11. Size(q, g) = z
  <2>1. type = 0 => q[g + 1] = p[h + 1]
    <3> HIDE DEF type
    <3> QED
      BY <1>0, <1>2, <1>3, <1>9
  <2>2. Size(q, g) = IF type = TimeStamp THEN 3 ELSE IF type = TimeExtend THEN 2
                     ELSE IF type = 0 THEN 2 + q[g + 1] ELSE 1 + type
    BY <1>8 DEF Size, TypeAt
  <2> HIDE DEF type
  <2> QED
    BY <1>3, <2>1, <2>2
<1>12. type \in 0..Short => DataOf(q, g) = DataOf(p, h)
  <2> DEFINE d == g - h
  <2>1. ASSUME NEW i \in Nat, NEW j \in Nat, h <= i, i <= j + 1, i # 0, j < h + z
        PROVE  SubSeq(p, i, j) = SubSeq(q, i + d, j + d)
    <3>1. i \in Nat \ {0} /\ d \in Int /\ j <= Len(p) /\ i + d > 0 /\ j + d <= Len(q)
      BY <1>4, <1>6, <1>7, <2>1
    <3>2. \A k \in i..j : p[k] = q[k + d]
      <4> TAKE k \in i..j
      <4>1. k - h \in 0..(z - 1) /\ h + (k - h) = k /\ g + (k - h) = k + d
        BY <1>6, <1>7, <2>1
      <4>2. q[g + (k - h)] = p[h + (k - h)]
        BY <1>4, <4>1
      <4> QED
        BY <4>1, <4>2
    <3> HIDE DEF d
    <3> QED
      BY <2>1, <3>1, <3>2, SameSlice
  <2>2. CASE type = 0
    <3> DEFINE n == p[h + 1]
    <3>1. n \in Nat /\ z = 2 + n /\ q[g + 1] = n
      <4> HIDE DEF type
      <4> QED
        BY <1>0, <1>2, <1>3, <1>9, <2>2
    <3>2. DataOf(p, h) = SubSeq(p, h + 1 + 1, h + 1 + n)
      BY <2>2 DEF DataOf
    <3> HIDE DEF n
    <3>3. DataOf(q, g) = SubSeq(q, g + 1 + 1, g + 1 + n)
      BY <1>8, <2>2, <3>1 DEF DataOf
    <3>4. /\ h + 1 + 1 \in Nat /\ h + 1 + n \in Nat /\ h + 1 + n < h + z
          /\ h <= h + 1 + 1 /\ h + 1 + 1 <= h + 1 + n + 1 /\ h + 1 + 1 # 0
          /\ (h + 1 + 1) + d = g + 1 + 1 /\ (h + 1 + n) + d = g + 1 + n
      BY <1>6, <3>1
    <3>5. SubSeq(p, h + 1 + 1, h + 1 + n) = SubSeq(q, (h + 1 + 1) + d, (h + 1 + n) + d)
      <4> HIDE DEF d
      <4> QED
        BY <2>1, <3>4
    <3> QED
      BY <3>2, <3>3, <3>4, <3>5
  <2>3. CASE type \in 1..Short
    <3>1. DataOf(q, g) = SubSeq(q, g + 1, g + type) /\ DataOf(p, h) = SubSeq(p, h + 1, h + type)
      <4>1. type # 0
        BY <2>3
      <4> QED
        BY <1>8, <4>1 DEF DataOf
    <3> HIDE DEF type
    <3>2. z = 1 + type
      BY <1>0, <1>3, <2>3
    <3>3. /\ h + 1 \in Nat /\ h + type \in Nat /\ h + type < h + z
          /\ h <= h + 1 /\ h + 1 <= h + type + 1 /\ h + 1 # 0
          /\ (h + 1) + d = g + 1 /\ (h + type) + d = g + type
      BY <1>6, <2>3, <3>2
    <3>4. SubSeq(p, h + 1, h + type) = SubSeq(q, (h + 1) + d, (h + type) + d)
      <4> HIDE DEF d
      <4> QED
        BY <2>1, <3>3
    <3> QED
      BY <3>1, <3>3, <3>4
  <2> QED
    BY <1>0, <2>2, <2>3
<1>13. ASSUME NEW w, NEW t, NEW u, NEW a, NEW b, EntrySays(p, w, h, t, u, a, b)
       PROVE  EntrySays(q, w, g, t, u, a, b)
  <2>1. CASE type = TimeStamp /\ u = p[h + 1] + p[h + 2] * WordBase /\ b = a
    <3>1. z = 3
      BY <1>3, <2>1
    <3>2. q[g + 1] = p[h + 1] /\ q[g + 2] = p[h + 2]
      BY <1>9, <1>10, <3>1
    <3>3. u = q[g + 1] + q[g + 2] * WordBase
      BY <2>1, <3>2, Zenon
    <3> QED
      BY <1>8, <2>1, <3>3, Zenon DEF EntrySays
  <2>2. CASE type = TimeExtend /\ u = t + (p[h + 1] * DeltaBase + p[h] \div Types) /\ b = a
    <3>1. z = 2
      BY <1>0, <1>3, <2>2
    <3>2. q[g + 1] = p[h + 1]
      BY <1>9, <3>1
    <3>3. u = t + (q[g + 1] * DeltaBase + q[g] \div Types)
      BY <1>8, <2>2, <3>2, Zenon
    <3> QED
      BY <1>8, <2>2, <3>3, Zenon DEF EntrySays
  <2>3. CASE /\ type \in 0..Short /\ u = t + p[h] \div Types
             /\ \E e \in Events : DataOf(p, h) = Data(e) /\ Takes(w, e, u, a, b)
    BY <1>8, <1>12, <2>3, Zenon DEF EntrySays
  <2> QED
    BY <1>13, <2>1, <2>2, <2>3, Zenon DEF EntrySays
<1> QED
  BY <1>8, <1>11, <1>13 DEF z

\* v has all that w has.
Extends(w, v) ==
    Len(w) \in Nat /\ Len(v) \in Nat /\ Len(w) <= Len(v) /\ \A k \in 1..Len(w) : v[k] = w[k]

\* An entry says the same of a longer list of events.
LEMMA StillSays ==
    ASSUME NEW w, NEW v, Extends(w, v), NEW p, NEW h, NEW t, NEW u, NEW a \in Nat, NEW b,
           EntrySays(p, w, h, t, u, a, b)
    PROVE  EntrySays(p, v, h, t, u, a, b)
<1>1. ASSUME NEW e, Takes(w, e, u, a, b) PROVE Takes(v, e, u, a, b)
  <2>1. CASE IsOurs(e)
    <3>1. b = a + 1 /\ b <= Len(w) /\ w[b] = [event |-> e, ts |-> u]
      BY <1>1, <2>1 DEF Takes
    <3>2. b \in 1..Len(w) /\ b <= Len(v) /\ v[b] = w[b]
      BY <3>1 DEF Extends
    <3> QED
      BY <2>1, <3>1, <3>2 DEF Takes
  <2>2. CASE ~IsOurs(e)
    BY <1>1, <2>2 DEF Takes
  <2> QED
    BY <2>1, <2>2
<1> QED
  BY <1>1, Zenon DEF EntrySays

\* Entry x can follow on the page: it takes the time to t and what has been seen to s.
Fits(p, H, x, w, v, time, seen, t, s) ==
    /\ Chained(p, H) /\ Whole(x) /\ Extends(w, v) /\ PageSays(p, H, w, time, seen)
    /\ t \in 0..(U64 - 1) /\ s \in 0..Len(v)
    /\ v = w \/ \A h \in H : TypeAt(p, h) # Padding
    /\ IF TypeAt(x, 1) = Padding THEN seen[Len(p) + 1] = Len(v)
       ELSE EntrySays(x, v, 1, time[Len(p) + 1], t, seen[Len(p) + 1], s)

\* The page with entry x says that, and starts as before.
Follows(p, H, x, v, time, seen, t, s) ==
    \E time1, seen1 :
        /\ PageSays(p \o x, H \cup {Len(p) + 1}, v, time1, seen1)
        /\ time1[Len(p \o x) + 1] = t /\ seen1[Len(p \o x) + 1] = s
        /\ time1[1] = time[1] /\ seen1[1] = seen[1]

\* The page says more with an entry more, and the same as before at the headers it had.
LEMMA PageMore ==
    ASSUME NEW p, NEW H, NEW x, NEW w, NEW v, NEW time, NEW seen, NEW t, NEW s,
           Fits(p, H, x, w, v, time, seen, t, s)
    PROVE  Follows(p, H, x, v, time, seen, t, s)
<1> DEFINE q == p \o x
           n == Len(p) + 1
           G == H \cup {n}
           end == Len(q) + 1
           T == [h \in G \cup {end} |-> IF h = end THEN t ELSE time[h]]
           S == [h \in G \cup {end} |-> IF h = end THEN s ELSE seen[h]]
<1>0. /\ Chained(p, H) /\ Whole(x) /\ Extends(w, v) /\ PageSays(p, H, w, time, seen)
      /\ t \in 0..(U64 - 1) /\ s \in 0..Len(v)
      /\ v = w \/ \A h \in H : TypeAt(p, h) # Padding
      /\ IF TypeAt(x, 1) = Padding THEN seen[Len(p) + 1] = Len(v)
         ELSE EntrySays(x, v, 1, time[Len(p) + 1], t, seen[Len(p) + 1], s)
  BY DEF Fits
<1>1. p \in Seq(Nat) /\ x \in Seq(Nat) /\ Len(p) \in Nat /\ Len(x) \in Nat /\ Len(x) >= 1 /\ H \subseteq 1..Len(p)
  BY <1>0 DEF Chained, Whole
<1>2. /\ q \in Seq(Nat) /\ Len(q) = Len(p) + Len(x)
      /\ \A k \in 1..Len(p) : q[k] = p[k]
      /\ \A k \in 1..Len(x) : q[Len(p) + k] = x[k]
  BY <1>1, Joined
<1> HIDE DEF q
<1>3. end \notin G /\ end > n /\ n \in Nat /\ end \in Nat /\ \A h \in G : h \in Nat /\ h < end
  BY <1>1, <1>2
<1>4. /\ \A h \in G : T[h] = time[h] /\ S[h] = seen[h]
      /\ T[end] = t /\ S[end] = s
  BY <1>3
<1>5. /\ \A h \in G : time[h] \in 0..(U64 - 1) /\ seen[h] \in 0..Len(w) /\ seen[h] \in Nat
      /\ Len(w) \in Nat /\ Len(v) \in Nat /\ Len(w) <= Len(v)
  BY <1>0 DEF PageSays, Extends
<1>6. T \in [G \cup {end} -> 0..(U64 - 1)] /\ S \in [G \cup {end} -> 0..Len(v)]
  <2>1. \A h \in G \cup {end} : (IF h = end THEN t ELSE time[h]) \in 0..(U64 - 1)
    BY <1>0, <1>3, <1>5
  <2>2. \A h \in G : seen[h] \in 0..Len(v)
    BY <1>5
  <2>3. \A h \in G \cup {end} : (IF h = end THEN s ELSE seen[h]) \in 0..Len(v)
    BY <1>0, <1>3, <2>2
  <2> HIDE DEF G, end
  <2> QED
    BY <2>1, <2>3
<1> HIDE DEF T, S
<1>7. ASSUME NEW h \in H
      PROVE  IF TypeAt(q, h) = Padding THEN S[h] = Len(v)
             ELSE LET g == h + Size(q, h) IN EntrySays(q, v, h, T[h], T[g], S[h], S[g])
  <2>1. h \in 1..Len(p) /\ h \in G /\ h \in 1..Len(q) /\ q[h] = p[h] /\ TypeAt(q, h) = TypeAt(p, h)
    BY <1>1, <1>2 DEF TypeAt
  <2>2. CASE TypeAt(p, h) = Padding
    <3>1. v = w
      BY <1>0, <2>2
    <3>2. seen[h] = Len(w)
      BY <1>0, <2>2 DEF PageSays
    <3> QED
      BY <1>4, <2>1, <2>2, <3>1, <3>2
  <2>3. CASE TypeAt(p, h) # Padding
    <3> DEFINE g == h + Size(p, h)
    <3>1. EntrySays(p, w, h, time[h], time[g], seen[h], seen[g])
      BY <1>0, <2>3 DEF PageSays
    <3>2. EntrySays(p, v, h, time[h], time[g], seen[h], seen[g])
      <4>1. seen[h] \in Nat
        BY <1>5, <2>1
      <4> HIDE DEF g
      <4> QED
        BY <1>0, <3>1, <4>1, StillSays
    <3>3. (TypeAt(p, h) = 0 => h < Len(p)) /\ g \in G
      BY <1>0, <2>3 DEF Chained, Linked, TypeAt
    <3>4. g \in Nat /\ g <= Len(p) + 1 /\ g <= Len(q) + 1
      <4> HIDE DEF g
      <4>1. g \in 1..Len(p) \/ g = Len(p) + 1
        BY <1>1, <3>3
      <4>2. Len(p) \in Nat /\ Len(x) \in Nat /\ Len(q) = Len(p) + Len(x)
        BY <1>1, <1>2
      <4> QED
        BY <4>1, <4>2
    <3>5. Copied(p, h, q, h)
      <4>1. \A k \in 0..(Size(p, h) - 1) : q[h + k] = p[h + k]
        <5> TAKE k \in 0..(Size(p, h) - 1)
        <5>1. Size(p, h) \in Nat /\ h + Size(p, h) <= Len(p) + 1
          BY <1>1, <2>1, <3>3, <3>4, SizeNat DEF TypeAt
        <5>2. h + k \in 1..Len(p)
          BY <1>1, <2>1, <5>1
        <5> QED
          BY <1>2, <5>2
      <4> QED
        BY <2>1, <2>3, <3>3, <3>4, <4>1 DEF Copied
    <3>6. Size(q, h) = Size(p, h) /\ EntrySays(q, v, h, time[h], time[g], seen[h], seen[g])
      <4> HIDE DEF g
      <4> QED
        BY <1>1, <1>2, <3>2, <3>5, SameEntry
    <3>7. T[h] = time[h] /\ T[g] = time[g] /\ S[h] = seen[h] /\ S[g] = seen[g]
      BY <1>4, <2>1, <3>3
    <3> HIDE DEF g
    <3>8. EntrySays(q, v, h, T[h], T[g], S[h], S[g])
      BY <3>6, <3>7
    <3> QED
      BY <2>1, <2>3, <3>6, <3>8 DEF g
  <2> QED
    BY <2>2, <2>3
<1>8. IF TypeAt(q, n) = Padding THEN S[n] = Len(v)
      ELSE LET g == n + Size(q, n) IN EntrySays(q, v, n, T[n], T[g], S[n], S[g])
  <2>1. 1 \in 1..Len(x) /\ q[n] = x[1] /\ TypeAt(q, n) = TypeAt(x, 1) /\ n \in 1..Len(q) /\ n \in G
    BY <1>1, <1>2 DEF TypeAt
  <2>2. CASE TypeAt(x, 1) = Padding
    BY <1>0, <1>4, <2>1, <2>2
  <2>3. CASE TypeAt(x, 1) # Padding
    <3>1. (TypeAt(x, 1) = 0 => Len(x) >= 2) /\ Size(x, 1) = Len(x)
      BY <1>0, <2>3 DEF Whole, TypeAt
    <3>2. \A k \in 0..(Len(x) - 1) : q[n + k] = x[1 + k]
      <4> TAKE k \in 0..(Len(x) - 1)
      <4>1. 1 + k \in 1..Len(x) /\ n + k = Len(p) + (1 + k)
        BY <1>1
      <4> QED
        BY <1>2, <4>1
    <3>3. Copied(x, 1, q, n)
      BY <1>1, <1>2, <2>1, <2>3, <3>1, <3>2 DEF Copied
    <3>4. EntrySays(x, v, 1, time[n], t, seen[n], s)
      BY <1>0, <2>3
    <3>5. Size(q, n) = Len(x) /\ EntrySays(q, v, n, time[n], t, seen[n], s)
      <4> HIDE DEF n
      <4> QED
        BY <1>1, <1>2, <3>1, <3>3, <3>4, SameEntry
    <3>6. n + Size(q, n) = end
      <4>1. Size(q, n) = Len(x)
        BY <3>5
      <4>2. n + Len(x) = end
        BY <1>1, <1>2
      <4> QED
        BY <4>1, <4>2
    <3>7. T[n] = time[n] /\ S[n] = seen[n] /\ T[end] = t /\ S[end] = s
      BY <1>4, <2>1
    <3> HIDE DEF n, end
    <3>8. EntrySays(q, v, n, T[n], T[end], S[n], S[end])
      BY <3>5, <3>7
    <3> QED
      BY <2>1, <2>3, <3>6, <3>8
  <2> QED
    BY <2>2, <2>3
<1>9. PageSays(q, G, v, T, S)
  <2>1. \A h \in G : IF TypeAt(q, h) = Padding THEN S[h] = Len(v)
             ELSE LET g == h + Size(q, h) IN EntrySays(q, v, h, T[h], T[g], S[h], S[g])
    BY <1>7, <1>8
  <2> QED
    BY <1>6, <2>1 DEF PageSays
<1>10. 1 \in G
  <2>1. CASE p = <<>>
    BY <2>1
  <2>2. CASE p # <<>>
    BY <1>0, <2>2 DEF Chained
  <2> QED
    BY <2>1, <2>2
<1>11. T[1] = time[1] /\ S[1] = seen[1]
  BY <1>4, <1>10
<1> QED
  BY <1>4, <1>9, <1>11 DEF q, Follows

\* A gap takes the time to that of the event.
LEMMA GapSays ==
    ASSUME NEW dt \in Nat, NEW t \in Nat, NEW gap \in Gap(dt, t + dt), gap # <<>>, NEW w, NEW a
    PROVE  EntrySays(gap, w, 1, t, t + dt, a, a) /\ TypeAt(gap, 1) # Padding
<1> DEFINE u == t + dt
<1>1. u \in Nat
  OBVIOUS
<1>2. CASE gap = <<Header(TimeExtend, dt % DeltaBase), dt \div DeltaBase>>
  <2>1. dt % DeltaBase \in Nat /\ dt \div DeltaBase \in Nat
        /\ dt = (DeltaBase * (dt \div DeltaBase)) + (dt % DeltaBase)
    BY Sizes, DivMod
  <2>2. TimeExtend \in 0..(Short + 3) /\ TimeExtend # Padding
    BY Sizes DEF TimeExtend, Padding
  <2>3. Header(TimeExtend, dt % DeltaBase) % Types = TimeExtend
        /\ Header(TimeExtend, dt % DeltaBase) \div Types = dt % DeltaBase
    BY <2>1, <2>2, HeaderType
  <2>4. gap[1] = Header(TimeExtend, dt % DeltaBase) /\ gap[1 + 1] = dt \div DeltaBase
    BY <1>2
  <2>5. TypeAt(gap, 1) = TimeExtend /\ gap[1] \div Types = dt % DeltaBase
    BY <2>3, <2>4 DEF TypeAt
  <2>6. u = t + (gap[1 + 1] * DeltaBase + gap[1] \div Types)
    <3>1. gap[1 + 1] * DeltaBase + gap[1] \div Types = ((dt \div DeltaBase) * DeltaBase) + (dt % DeltaBase)
      BY <2>4, <2>5, Zenon
    <3>2. (dt \div DeltaBase) * DeltaBase = DeltaBase * (dt \div DeltaBase)
      BY <2>1, Sizes
    <3>3. ((dt \div DeltaBase) * DeltaBase) + (dt % DeltaBase) = dt
      BY <2>1, <3>2
    <3> QED
      BY <3>1, <3>3
  <2> QED
    BY <2>2, <2>5, <2>6 DEF EntrySays
<1>3. CASE gap = <<Header(TimeStamp, 0), u % WordBase, u \div WordBase>>
  <2>1. TimeStamp \in 0..(Short + 3) /\ TimeStamp # Padding
    BY Sizes DEF TimeStamp, Padding
  <2>2. Header(TimeStamp, 0) % Types = TimeStamp
    BY <2>1, HeaderType
  <2>3. gap[1] = Header(TimeStamp, 0) /\ gap[1 + 1] = u % WordBase /\ gap[1 + 2] = u \div WordBase
    BY <1>3
  <2> HIDE DEF u
  <2>4. TypeAt(gap, 1) = TimeStamp
    BY <2>2, <2>3 DEF TypeAt
  <2>5. u = gap[1 + 1] + gap[1 + 2] * WordBase
    <3>1. u % WordBase \in Nat /\ u \div WordBase \in Nat /\ WordBase * (u \div WordBase) \in Nat
          /\ u = (WordBase * (u \div WordBase)) + (u % WordBase)
      BY <1>1, Sizes, DivMod
    <3>2. (u \div WordBase) * WordBase = WordBase * (u \div WordBase)
      BY <3>1, Sizes
    <3>3. (u % WordBase) + ((u \div WordBase) * WordBase) = u
      BY <3>1, <3>2
    <3> QED
      BY <2>3, <3>3, Zenon
  <2> QED
    BY <2>1, <2>4, <2>5 DEF EntrySays, u
<1> QED
  BY <1>2, <1>3 DEF Gap

\* An event's entry says the event.
LEMMA EventSays ==
    ASSUME NEW e \in Events, NEW delta \in Nat, NEW w, NEW t \in Nat, NEW a, NEW b,
           Takes(w, e, t + delta, a, b)
    PROVE  /\ EntrySays(Entry(Data(e), delta), w, 1, t, t + delta, a, b)
           /\ TypeAt(Entry(Data(e), delta), 1) # Padding
<1> DEFINE data == Data(e)
           x == Entry(data, delta)
<1>1. data \in Seq(Nat) /\ Len(data) \in Nat /\ Len(data) >= 1
  <2>1. PICK n \in Nat : e \in EventOf(n)
    BY DEF Events
  <2> QED
    BY <2>1, DataWords
<1> HIDE DEF data
<1>2. Short \in Nat /\ Padding = Short + 3
  BY Sizes DEF Padding
<1>3. /\ TypeAt(x, 1) \in 0..Short /\ x[1] \div Types = delta
      /\ DataOf(x, 1) = data
  <2>1. CASE Len(data) <= Short
    <3> DEFINE h == Header(Len(data), delta)
    <3>1. Len(data) \in 0..(Short + 3)
      BY <1>1, <1>2, <2>1
    <3>2. h \in Nat /\ h % Types = Len(data) /\ h \div Types = delta
      BY <3>1, HeaderType
    <3> HIDE DEF h
    <3>3. x = <<h>> \o data
      BY <2>1 DEF Entry, h
    <3> HIDE DEF x
    <3>4. /\ x \in Seq(Nat) /\ Len(x) = 1 + Len(data) /\ x[1] = h
          /\ \A k \in 1..Len(data) : x[1 + k] = data[k]
      BY <1>1, <3>2, <3>3
    <3>5. TypeAt(x, 1) = Len(data) /\ x[1] \div Types = delta
      BY <3>2, <3>4 DEF TypeAt
    <3>6. DataOf(x, 1) = SubSeq(x, 1 + 1, 1 + Len(data))
      BY <1>1, <3>5 DEF DataOf
    <3>7. /\ SubSeq(x, 1 + 1, 1 + Len(data)) \in Seq(Nat) /\ Len(SubSeq(x, 1 + 1, 1 + Len(data))) = Len(data)
          /\ \A k \in 1..Len(data) : SubSeq(x, 1 + 1, 1 + Len(data))[k] = x[1 + k]
      <4>1. 1 \in Nat /\ 1 + Len(data) <= Len(x)
        BY <1>1, <3>4
      <4> QED
        BY <1>1, <3>4, <4>1, Slice
    <3>8. DataOf(x, 1) = data
      <4> DEFINE s == SubSeq(x, 1 + 1, 1 + Len(data))
      <4>1. s \in Seq(Nat) /\ Len(s) = Len(data) /\ \A k \in 1..Len(data) : s[k] = data[k]
        BY <3>4, <3>7
      <4> HIDE DEF s
      <4>2. s = data
        <5>1. /\ s \in Seq(Nat) /\ data \in Seq(Nat) /\ Len(s) = Len(data)
              /\ \A k \in 1..Len(s) : s[k] = data[k]
          BY <1>1, <4>1
        <5> QED
          BY <5>1, SeqEqual
      <4> QED
        BY <3>6, <4>2 DEF s
    <3> QED
      BY <1>1, <2>1, <3>5, <3>8
  <2>2. CASE Len(data) > Short
    <3> DEFINE h == Header(0, delta)
    <3>1. 0 \in 0..(Short + 3)
      BY <1>2
    <3>2. h \in Nat /\ h % Types = 0 /\ h \div Types = delta
      BY <3>1, HeaderType
    <3> HIDE DEF h
    <3>3. x = <<h, Len(data)>> \o data
      BY <1>1, <1>2, <2>2 DEF Entry, h
    <3> HIDE DEF x
    <3>4. /\ x \in Seq(Nat) /\ Len(x) = 2 + Len(data) /\ x[1] = h /\ x[1 + 1] = Len(data)
          /\ \A k \in 1..Len(data) : x[2 + k] = data[k]
      BY <1>1, <3>2, <3>3
    <3>5. TypeAt(x, 1) = 0 /\ x[1] \div Types = delta
      BY <3>2, <3>4 DEF TypeAt
    <3>6. DataOf(x, 1) = SubSeq(x, 2 + 1, 2 + Len(data))
      <4>1. DataOf(x, 1) = SubSeq(x, 1 + 1 + 1, 1 + 1 + Len(data))
        BY <3>4, <3>5 DEF DataOf
      <4> QED
        BY <4>1
    <3>7. /\ SubSeq(x, 2 + 1, 2 + Len(data)) \in Seq(Nat) /\ Len(SubSeq(x, 2 + 1, 2 + Len(data))) = Len(data)
          /\ \A k \in 1..Len(data) : SubSeq(x, 2 + 1, 2 + Len(data))[k] = x[2 + k]
      <4>1. 2 \in Nat /\ 2 + Len(data) <= Len(x)
        BY <1>1, <3>4
      <4> QED
        BY <1>1, <3>4, <4>1, Slice
    <3>8. DataOf(x, 1) = data
      <4> DEFINE s == SubSeq(x, 2 + 1, 2 + Len(data))
      <4>1. s \in Seq(Nat) /\ Len(s) = Len(data) /\ \A k \in 1..Len(data) : s[k] = data[k]
        BY <3>4, <3>7
      <4> HIDE DEF s
      <4>2. s = data
        <5>1. /\ s \in Seq(Nat) /\ data \in Seq(Nat) /\ Len(s) = Len(data)
              /\ \A k \in 1..Len(s) : s[k] = data[k]
          BY <1>1, <4>1
        <5> QED
          BY <5>1, SeqEqual
      <4> QED
        BY <3>6, <4>2 DEF s
    <3> QED
      BY <1>2, <3>5, <3>8
  <2> QED
    BY <1>1, <1>2, <2>1, <2>2
<1> HIDE DEF x
<1>4. EntrySays(x, w, 1, t, t + delta, a, b)
  BY <1>3, Zenon DEF EntrySays, data
<1>5. TypeAt(x, 1) # Padding
  BY <1>2, <1>3
<1> QED
  BY <1>4, <1>5 DEF x, data

\* No entry of the page is padding.
Unpadded(p, H) == \A h \in H : TypeAt(p, h) # Padding

\* A page stays unpadded with an entry that is no padding.
LEMMA StillUnpadded ==
    ASSUME NEW p, NEW H, Chained(p, H), Unpadded(p, H), NEW x, Whole(x), TypeAt(x, 1) # Padding
    PROVE  Unpadded(p \o x, H \cup {Len(p) + 1})
<1> DEFINE q == p \o x
<1>1. p \in Seq(Nat) /\ x \in Seq(Nat) /\ Len(p) \in Nat /\ Len(x) >= 1 /\ H \subseteq 1..Len(p)
  BY DEF Chained, Whole
<1>2. /\ \A k \in 1..Len(p) : q[k] = p[k]
      /\ \A k \in 1..Len(x) : q[Len(p) + k] = x[k]
  BY <1>1, Joined
<1> HIDE DEF q
<1>3. \A h \in H : TypeAt(q, h) = TypeAt(p, h)
  BY <1>1, <1>2 DEF TypeAt
<1>4. TypeAt(q, Len(p) + 1) = TypeAt(x, 1)
  <2>1. 1 \in 1..Len(x)
    BY <1>1
  <2> QED
    BY <1>2, <2>1 DEF TypeAt
<1> QED
  BY <1>3, <1>4 DEF Unpadded, q

\* A page that can take more: what is on it takes the time from first to t, and what has
\* been seen from a to all of w.
Open(p, H, w, t, first, a) ==
    /\ Chained(p, H) /\ Unpadded(p, H)
    /\ \E time, seen :
           /\ PageSays(p, H, w, time, seen)
           /\ time[1] = first /\ time[Len(p) + 1] = t
           /\ seen[1] = a /\ seen[Len(p) + 1] = Len(w)

\* A page without entries says nothing.
LEMMA EmptySays ==
    ASSUME NEW w, Len(w) \in Nat, NEW t \in 0..(U64 - 1)
    PROVE  Open(<<>>, {}, w, t, t, Len(w))
<1> DEFINE time == [h \in {1} |-> t]
           seen == [h \in {1} |-> Len(w)]
<1>1. Len(<<>>) + 1 = 1 /\ {} \cup {1} = {1} /\ Len(w) \in 0..Len(w)
  OBVIOUS
<1>2. time \in [{1} -> 0..(U64 - 1)] /\ seen \in [{1} -> 0..Len(w)] /\ time[1] = t /\ seen[1] = Len(w)
  BY <1>1
<1> HIDE DEF time, seen
<1>3. PageSays(<<>>, {}, w, time, seen)
  BY <1>1, <1>2 DEF PageSays
<1>4. Chained(<<>>, {}) /\ Unpadded(<<>>, {})
  BY DEF Chained, Unpadded
<1>5. time[Len(<<>>) + 1] = t /\ seen[Len(<<>>) + 1] = Len(w)
  BY <1>1, <1>2
<1> QED
  BY <1>2, <1>3, <1>4, <1>5 DEF Open

\* The page with an entry more.
LEMMA EntryAdded ==
    ASSUME NEW p, NEW H, NEW w, NEW t0, NEW first, NEW a, Open(p, H, w, t0, first, a),
           NEW x, Whole(x), TypeAt(x, 1) # Padding, NEW v, Extends(w, v),
           NEW t \in 0..(U64 - 1), EntrySays(x, v, 1, t0, t, Len(w), Len(v))
    PROVE  Open(p \o x, H \cup {Len(p) + 1}, v, t, first, a)
<1>1. PICK time, seen : /\ PageSays(p, H, w, time, seen)
                        /\ time[1] = first /\ time[Len(p) + 1] = t0
                        /\ seen[1] = a /\ seen[Len(p) + 1] = Len(w)
  BY DEF Open
<1>2. Chained(p, H) /\ Unpadded(p, H)
  BY DEF Open
<1>3. Follows(p, H, x, v, time, seen, t, Len(v))
  <2>1. Len(v) \in 0..Len(v)
    BY DEF Extends
  <2>2. v = w \/ \A h \in H : TypeAt(p, h) # Padding
    BY <1>2 DEF Unpadded
  <2>3. IF TypeAt(x, 1) = Padding THEN seen[Len(p) + 1] = Len(v)
        ELSE EntrySays(x, v, 1, time[Len(p) + 1], t, seen[Len(p) + 1], Len(v))
    BY <1>1
  <2>4. Fits(p, H, x, w, v, time, seen, t, Len(v))
    BY <1>1, <1>2, <2>1, <2>2, <2>3 DEF Fits
  <2> QED
    BY <2>4, PageMore
<1>4. Chained(p \o x, H \cup {Len(p) + 1}) /\ Unpadded(p \o x, H \cup {Len(p) + 1})
  BY <1>2, AddEntry, StillUnpadded
<1> QED
  BY <1>1, <1>3, <1>4 DEF Follows, Open

\* What has been recorded with event e.
WithEvent(w, e, t) == IF IsOurs(e) THEN Append(w, [event |-> e, ts |-> t]) ELSE w

\* The page with the entry of an event more.
LEMMA EventAdded ==
    ASSUME NEW w \in Seq(Recorded), NEW e \in Events, NEW t0 \in Nat, NEW delta \in Nat, t0 + delta < U64,
           NEW p, NEW H, NEW first, NEW a, Open(p, H, w, t0, first, a)
    PROVE  Open(p \o Entry(Data(e), delta), H \cup {Len(p) + 1}, WithEvent(w, e, t0 + delta), t0 + delta, first, a)
<1> DEFINE t == t0 + delta
           v == WithEvent(w, e, t)
           x == Entry(Data(e), delta)
<1>1. t \in 0..(U64 - 1)
  BY Sizes
<1>2. Data(e) \in Seq(Nat) /\ Len(Data(e)) >= 1
  <2>1. PICK n \in Nat : e \in EventOf(n)
    BY DEF Events
  <2> QED
    BY <2>1, DataWords
<1>3. Whole(x)
  BY <1>2, EntryWhole
<1>4. Extends(w, v) /\ Takes(v, e, t, Len(w), Len(v))
  <2>1. CASE IsOurs(e)
    <3> DEFINE y == [event |-> e, ts |-> t]
    <3>1. y \in Recorded
      BY <1>1, <2>1 DEF Recorded
    <3>2. v = Append(w, y)
      BY <2>1 DEF WithEvent
    <3> HIDE DEF v
    <3>3. /\ Len(v) = Len(w) + 1 /\ v[Len(w) + 1] = y /\ Len(w) \in Nat
          /\ \A k \in 1..Len(w) : v[k] = w[k]
      BY <3>1, <3>2
    <3> QED
      BY <2>1, <3>3 DEF Extends, Takes
  <2>2. CASE ~IsOurs(e)
    BY <2>2 DEF Extends, Takes, WithEvent
  <2> QED
    BY <2>1, <2>2
<1> HIDE DEF v
<1>5. EntrySays(x, v, 1, t0, t, Len(w), Len(v)) /\ TypeAt(x, 1) # Padding
  BY <1>4, EventSays
<1> HIDE DEF x, t
<1>6. Open(p \o x, H \cup {Len(p) + 1}, v, t, first, a)
  BY <1>1, <1>3, <1>4, <1>5, EntryAdded
<1> QED
  BY <1>6 DEF v, x, t

\* A recorded event is added, or is not one of ours.
LEMMA WithEventIs ==
    ASSUME NEW w \in Seq(Recorded), NEW e \in Events, NEW t \in 0..(U64 - 1)
    PROVE  /\ WithEvent(w, e, t) \in Seq(Recorded)
           /\ WithEvent(w, e, t) = w \/ \E y \in Recorded : WithEvent(w, e, t) = Append(w, y)
<1>1. CASE IsOurs(e)
  <2> DEFINE y == [event |-> e, ts |-> t]
  <2>1. y \in Recorded
    BY <1>1 DEF Recorded
  <2>2. WithEvent(w, e, t) = Append(w, y)
    BY <1>1 DEF WithEvent
  <2> HIDE DEF y
  <2> QED
    BY <2>1, <2>2
<1>2. CASE ~IsOurs(e)
  BY <1>2 DEF WithEvent
<1> QED
  BY <1>1, <1>2

\* The page with a gap more.
LEMMA GapAdded ==
    ASSUME NEW w \in Seq(Recorded), NEW t0 \in Nat, NEW dt \in Nat, t0 + dt < U64,
           NEW gap \in Gap(dt, t0 + dt), gap # <<>>,
           NEW p, NEW H, NEW first, NEW a, Open(p, H, w, t0, first, a)
    PROVE  Open(p \o gap, H \cup {Len(p) + 1}, w, t0 + dt, first, a)
<1> DEFINE t == t0 + dt
<1>1. t \in 0..(U64 - 1) /\ t \in Nat
  BY Sizes
<1>2. Whole(gap)
  <2>1. gap \in Gap(dt, t)
    OBVIOUS
  <2> HIDE DEF t
  <2> QED
    BY <1>1, <2>1, GapWhole
<1>3. EntrySays(gap, w, 1, t0, t, Len(w), Len(w)) /\ TypeAt(gap, 1) # Padding
  BY GapSays
<1>4. Extends(w, w)
  BY DEF Extends
<1> HIDE DEF t
<1>5. Open(p \o gap, H \cup {Len(p) + 1}, w, t, first, a)
  BY <1>1, <1>2, <1>3, <1>4, EntryAdded
<1> QED
  BY <1>5 DEF t
-----------------------------------------------------------------------------
(* The invariant: what is on the page, and what is in the file, say what   *)
(* has been recorded.                                                      *)

Typed ==
    /\ now \in 0..(U64 - 1) /\ start \in 0..now
    /\ written \in Seq(Recorded)
    /\ Len(page) <= PageWords
    /\ pages \in 1..MaxPages
    /\ phase \in {"fill", "parse", "scan", "done", "err"}
    /\ pos \in 0..PageWords
    /\ ts \in 0..(U64 - 1)
    /\ records \in Seq(Nat) /\ file \in Seq(Nat)
    /\ cut \in BOOLEAN
    /\ offset \in 0..Len(file)

Unread == ~cut /\ got = <<>> /\ offset = 0

\* The page takes up what is recorded where the file ends.
Filling ==
    phase = "fill" =>
        /\ Unread
        /\ \E t, a : /\ Open(page, heads, written, t, start, a) /\ Laid(file, written, 0, a)
                     /\ page # <<>> => t = now

\* The parser has the time of the header it is at, and the records of what came before.
AtHeader(time, seen) ==
    /\ PageSays(page, heads, written, time, seen)
    /\ seen[Len(page) + 1] = Len(written)
    /\ ts = time[pos + 1]
    /\ Laid(file, written, 0, seen[1]) /\ Laid(records, written, seen[1], seen[pos + 1])

Parsing == phase = "parse" => Unread /\ \E time, seen : AtHeader(time, seen)

\* The file is the first n of the recorded events, or what was written of them, and the
\* reader has the first j.
FileHolds(n, full, at, j) ==
    /\ n \in 0..Len(written) /\ j \in 0..n
    /\ full \in Seq(Nat) /\ LaidAt(full, written, 0, n, at)
    /\ Len(file) <= Len(full) /\ \A k \in 1..Len(file) : file[k] = full[k]
    /\ ~cut => Len(file) = Len(full) /\ n = Len(written)
    /\ got = [i \in 1..j |-> Expected(written[i])]
    /\ at[j] <= Len(file)
    /\ phase \in {"scan", "done"} => offset = at[j]
    /\ phase = "done" => at[j] = Len(file)
    /\ phase = "err" => cut

Scanning ==
    phase \in {"scan", "done", "err"} => \E n, full, at, j : FileHolds(n, full, at, j)

Inv == InStep /\ Typed /\ Filling /\ Parsing /\ Scanning

\* The first page is empty, and so is the file.
LEMMA InitInv == Init => Inv
<1> SUFFICES ASSUME Init PROVE Inv
  OBVIOUS
<1>1. InStep
  BY DEF Init, InStep, Chained
<1>2. Typed
  <2>1. 0 \in 0..(U64 - 1) /\ 0 \in 0..PageWords /\ 1 \in 1..MaxPages /\ 0 <= PageWords
    BY PageAssumption
  <2>2. <<>> \in Seq(Recorded) /\ <<>> \in Seq(Nat) /\ Len(<<>>) = 0 /\ 0 \in 0..0
    OBVIOUS
  <2> QED
    BY <2>1, <2>2 DEF Init, Typed
<1>3. Filling
  <2>1. /\ page = <<>> /\ heads = {} /\ written = <<>> /\ file = <<>> /\ start = 0
        /\ Len(written) = 0 /\ Len(written) \in Nat /\ 0 \in 0..(U64 - 1)
    BY PageAssumption DEF Init
  <2>2. Open(page, heads, written, start, start, 0)
    <3>1. Open(<<>>, {}, written, start, start, Len(written))
      BY <2>1, EmptySays
    <3> QED
      BY <2>1, <3>1
  <2>3. Laid(file, written, 0, 0)
    <3>1. written \in Seq(Recorded) /\ 0 \in 0..Len(written)
      BY <2>1
    <3> QED
      BY <2>1, <3>1, LaidNone
  <2>4. Unread
    BY DEF Init, Unread
  <2> QED
    BY <2>1, <2>2, <2>3, <2>4 DEF Filling
<1> QED
  BY <1>1, <1>2, <1>3 DEF Inv, Parsing, Scanning, Init

\* An entry is longer than its data.
LEMMA EntryLonger ==
    ASSUME NEW data \in Seq(Nat), NEW delta \in Nat
    PROVE  Len(Entry(data, delta)) > Len(data)
<1>1. Header(Len(data), delta) \in Nat /\ Header(0, delta) \in Nat
  BY Sizes DEF Header
<1> QED
  BY <1>1 DEF Entry

\* What is recorded is on the page.
LEMMA HappenInv ==
    ASSUME Inv, NEW e \in EventOf(events + 1), NEW dt \in Steps, Happen(e, dt)
    PROVE  Inv'
<1>1. InStep'
  BY HappenInStep DEF Inv
<1>2. /\ phase = "fill" /\ phase' = "fill" /\ dt \in Nat /\ now' = now + dt /\ now + dt < U64
      /\ start' = IF page = <<>> THEN now' ELSE start
      /\ Len(page') <= PageWords
      /\ written' = WithEvent(written, e, now')
      /\ UNCHANGED <<pages, pos, ts, records, file, cut, offset, got>>
  BY Sizes DEF Happen, parseVars, fileVars, scanVars, WithEvent
<1>3. now \in Nat /\ now' \in 0..(U64 - 1) /\ start \in 0..now /\ written \in Seq(Recorded) /\ U64 \in Nat
  BY <1>2, Sizes DEF Inv, Typed
<1>4. PICK gap \in IF page = <<>> THEN {<<>>} ELSE Gap(dt, now') :
         LET delta == IF page = <<>> \/ gap # <<>> THEN 0 ELSE dt IN
         /\ page' = page \o gap \o Entry(Data(e), delta)
         /\ heads' = heads \cup {Len(page) + 1, Len(page) + 1 + Len(gap)}
  BY DEF Happen
<1> DEFINE delta == IF page = <<>> \/ gap # <<>> THEN 0 ELSE dt
<1>5. delta \in Nat /\ page' = page \o gap \o Entry(Data(e), delta)
      /\ heads' = heads \cup {Len(page) + 1, Len(page) + 1 + Len(gap)}
  BY <1>2, <1>4
<1>6. PICK t, a : /\ Open(page, heads, written, t, start, a) /\ Laid(file, written, 0, a)
                  /\ page # <<>> => t = now
  BY <1>2 DEF Inv, Filling
<1>7. page \in Seq(Nat) /\ Len(page) \in Nat /\ heads \subseteq 1..Len(page)
  BY DEF Chained, Inv, InStep
<1>8. gap \in Seq(Nat)
  <2>1. now' \in Nat /\ (gap = <<>> \/ gap \in Gap(dt, now'))
    BY <1>3, <1>4
  <2>2. gap = <<>> \/ Whole(gap)
    BY <1>2, <2>1, GapWhole
  <2>3. <<>> \in Seq(Nat)
    OBVIOUS
  <2>4. Whole(gap) => gap \in Seq(Nat)
    BY Zenon DEF Whole
  <2> QED
    BY <2>2, <2>3, <2>4, Zenon
<1>9. e \in Events
  <2>1. Data(e) \in Seq(Nat) /\ Len(Data(e)) >= 1
    BY DataWords DEF Inv, InStep
  <2> HIDE DEF delta
  <2> DEFINE x == Entry(Data(e), delta)
  <2>2. x \in Seq(Nat) /\ Len(x) > Len(Data(e))
    BY <1>5, <2>1, EntryWhole, EntryLonger DEF Whole
  <2> HIDE DEF x
  <2>3. Len(page') = Len(page) + Len(gap) + Len(x)
    BY <1>5, <1>7, <1>8, <2>2 DEF x
  <2>4. Len(Data(e)) <= PageWords
    <3>1. Len(x) \in Nat /\ Len(Data(e)) \in Nat /\ Len(gap) \in Nat /\ PageWords \in Nat
      <4>1. \A s \in Seq(Nat) : Len(s) \in Nat
        OBVIOUS
      <4>2. PageWords \in Nat
        BY PageAssumption
      <4> QED
        BY <1>8, <2>1, <2>2, <4>1, <4>2, Zenon
    <3>2. Len(page) + Len(gap) + Len(x) <= PageWords
      BY <1>2, <2>3
    <3>3. Len(x) > Len(Data(e))
      BY <2>2
    <3> QED
      BY <1>7, <3>1, <3>2, <3>3
  <2>5. \E n \in Nat : e \in EventOf(n)
    BY DEF Inv, InStep
  <2> QED
    BY <2>4, <2>5 DEF Events
<1>10. Open(page', heads', written', now', start', a)
  <2>1. CASE page = <<>>
    <3>1. gap = <<>> /\ delta = 0 /\ heads = {} /\ start' = now'
      BY <1>2, <1>4, <1>7, <2>1
    <3>2. page' = page \o Entry(Data(e), 0) /\ heads' = heads \cup {Len(page) + 1}
      <4>1. page \o gap = page /\ Len(page) + 1 + Len(gap) = Len(page) + 1
        BY <2>1, <3>1
      <4> QED
        BY <1>5, <3>1, <4>1
    <3>3. Open(page, heads, written, now', now', Len(written))
      <4>1. Len(written) \in Nat
        BY <1>3
      <4> QED
        BY <1>3, <2>1, <3>1, <4>1, EmptySays
    <3>4. a = Len(written)
      <4>1. Len(page) + 1 = 1
        BY <2>1
      <4> QED
        BY <1>6, <4>1 DEF Open
    <3>5. now' \in Nat /\ 0 \in Nat /\ now' + 0 = now' /\ now' < U64
      BY <1>2, <1>3
    <3>6. Open(page \o Entry(Data(e), 0), heads \cup {Len(page) + 1}, WithEvent(written, e, now' + 0), now' + 0, now', a)
      BY <1>3, <1>9, <3>3, <3>4, <3>5, EventAdded
    <3> QED
      BY <1>2, <3>1, <3>2, <3>5, <3>6
  <2>2. CASE page # <<>> /\ gap = <<>>
    <3>1. delta = dt /\ start' = start /\ t = now
      BY <1>2, <1>6, <2>2
    <3>2. page' = page \o Entry(Data(e), dt) /\ heads' = heads \cup {Len(page) + 1}
      <4>1. page \o gap = page /\ Len(page) + 1 + Len(gap) = Len(page) + 1
        BY <1>7, <2>2
      <4> QED
        BY <1>5, <3>1, <4>1
    <3>3. Open(page, heads, written, now, start, a)
      BY <1>6, <3>1
    <3>4. Open(page \o Entry(Data(e), dt), heads \cup {Len(page) + 1}, WithEvent(written, e, now + dt), now + dt, start, a)
      BY <1>2, <1>3, <1>9, <3>3, EventAdded
    <3> QED
      BY <1>2, <3>1, <3>2, <3>4
  <2>3. CASE page # <<>> /\ gap # <<>>
    <3>1. delta = 0 /\ start' = start /\ t = now /\ gap \in Gap(dt, now + dt)
      BY <1>2, <1>4, <1>6, <2>3
    <3> DEFINE p == page \o gap
               H == heads \cup {Len(page) + 1}
    <3>2. Len(page) + 1 + Len(gap) = Len(p) + 1
      BY <1>7, <1>8
    <3>3. page' = p \o Entry(Data(e), 0) /\ heads' = H \cup {Len(p) + 1}
      <4> HIDE DEF delta, p
      <4>1. heads' = heads \cup {Len(page) + 1, Len(p) + 1}
        BY <1>5, <3>2
      <4> QED
        BY <1>5, <3>1, <4>1 DEF p
    <3>4. Open(p, H, written, now + dt, start, a)
      <4>1. Open(page, heads, written, now, start, a)
        BY <1>6, <3>1
      <4> QED
        BY <1>2, <1>3, <2>3, <3>1, <4>1, GapAdded
    <3> HIDE DEF p, H
    <3>5. now' \in Nat /\ 0 \in Nat /\ now' + 0 = now' /\ now' < U64 /\ now + dt = now'
      BY <1>2, <1>3
    <3>6. Open(p \o Entry(Data(e), 0), H \cup {Len(p) + 1}, WithEvent(written, e, now' + 0), now' + 0, start, a)
      <4>1. Open(p, H, written, now', start, a)
        BY <3>4, <3>5
      <4> QED
        BY <1>3, <1>9, <3>5, <4>1, EventAdded
    <3> QED
      BY <1>2, <3>1, <3>3, <3>5, <3>6
  <2> QED
    BY <2>1, <2>2, <2>3
<1>11. written' \in Seq(Recorded) /\ Laid(file', written', 0, a)
  <2>1. /\ written' \in Seq(Recorded)
        /\ written' = written \/ \E y \in Recorded : written' = Append(written, y)
    BY <1>2, <1>3, <1>9, WithEventIs
  <2>2. Laid(file, written', 0, a)
    BY <1>3, <1>6, <2>1, LaidStays
  <2> QED
    BY <1>2, <2>1, <2>2
<1>12. Typed'
  <2>1. start' \in 0..now'
    BY <1>2, <1>3
  <2> QED
    BY <1>2, <1>3, <1>11, <2>1 DEF Inv, Typed
<1>13. Filling'
  <2>1. Unread'
    BY <1>2 DEF Inv, Filling, Unread
  <2> QED
    BY <1>10, <1>11, <2>1 DEF Filling
<1> QED
  BY <1>1, <1>2, <1>12, <1>13 DEF Inv, Parsing, Scanning

\* The parser starts on a page.
LEMMA ParseBegins ==
    ASSUME Inv, phase = "fill", Parse, InStep', Len(page') <= PageWords,
           UNCHANGED <<now, written, start, pages, file, cut, offset, got>>,
           NEW time, NEW seen, PageSays(page', heads', written, time, seen),
           seen[Len(page') + 1] = Len(written), time[1] = start, Laid(file, written, 0, seen[1])
    PROVE  Inv'
<1>1. phase' = "parse" /\ pos' = 0 /\ ts' = start /\ records' = <<>> /\ 0 + 1 = 1
  BY DEF Parse
<1>2. Typed'
  <2>1. now \in 0..(U64 - 1) /\ start \in 0..now
    BY DEF Inv, Typed
  <2>2. U64 \in Nat /\ PageWords \in Nat
    BY PageAssumption
  <2>3. start \in 0..(U64 - 1) /\ 0 \in 0..PageWords
    BY <2>1, <2>2
  <2>4. <<>> \in Seq(Nat)
    OBVIOUS
  <2> QED
    BY <1>1, <2>3, <2>4 DEF Inv, Typed
<1>3. Laid(<<>>, written, seen[1], seen[1])
  <2>1. written \in Seq(Recorded) /\ seen[1] \in 0..Len(written)
    BY DEF Inv, Typed, Laid
  <2> QED
    BY <2>1, LaidNone
<1>4. Unread'
  BY DEF Inv, Filling, Unread
<1>5. AtHeader(time, seen)'
  BY <1>1, <1>3 DEF AtHeader
<1>6. Parsing'
  BY <1>4, <1>5 DEF Parsing
<1> QED
  BY <1>1, <1>2, <1>6 DEF Inv, Filling, Scanning

\* A page is read as it is.
LEMMA ReadPageInv ==
    ASSUME Inv, ReadPage
    PROVE  Inv'
<1>1. /\ phase = "fill" /\ Parse
      /\ UNCHANGED <<now, events, written, start, page, heads, pages, file, cut, offset, got>>
  BY DEF ReadPage, kernelVars, fileVars, scanVars
<1>2. InStep'
  BY NextInStep DEF Inv, Next
<1>3. PICK t, a : Open(page, heads, written, t, start, a) /\ Laid(file, written, 0, a)
  BY <1>1 DEF Inv, Filling
<1>4. PICK time, seen : /\ PageSays(page, heads, written, time, seen)
                        /\ time[1] = start /\ seen[1] = a /\ seen[Len(page) + 1] = Len(written)
  BY <1>3 DEF Open
<1>5. Len(page') <= PageWords
  BY <1>1 DEF Inv, Typed
<1> QED
  BY <1>1, <1>2, <1>3, <1>4, <1>5, ParseBegins

\* A page is read with padding at its end.
LEMMA PadInv ==
    ASSUME Inv, Pad
    PROVE  Inv'
<1> DEFINE x == <<Header(Padding, 0)>> \o Entry(<<CompleteId, 0>>, 0)
<1>1. /\ phase = "fill" /\ Parse /\ Len(page') <= PageWords
      /\ page' = page \o x /\ heads' = heads \cup {Len(page) + 1}
      /\ UNCHANGED <<now, written, start, pages, file, cut, offset, got>>
  BY DEF Pad, fileVars, scanVars
<1>2. InStep'
  BY PadInStep DEF Inv
<1>3. PICK t, a : Open(page, heads, written, t, start, a) /\ Laid(file, written, 0, a)
  BY <1>1 DEF Inv, Filling
<1>4. PICK time, seen : /\ PageSays(page, heads, written, time, seen)
                        /\ time[1] = start /\ seen[1] = a /\ seen[Len(page) + 1] = Len(written)
  BY <1>3 DEF Open
<1>5. Whole(x) /\ TypeAt(x, 1) = Padding
  <2>1. Padding \in 0..(Short + 3)
    BY Sizes DEF Padding
  <2>2. Header(Padding, 0) \in Nat /\ Header(Padding, 0) % Types = Padding
    BY <2>1, HeaderType
  <2>3. Entry(<<CompleteId, 0>>, 0) \in Seq(Nat)
    <3>1. <<CompleteId, 0>> \in Seq(Nat) /\ Len(<<CompleteId, 0>>) >= 1
      BY DEF CompleteId
    <3> QED
      BY <3>1, EntryWhole DEF Whole
  <2>4. x \in Seq(Nat) /\ Len(x) >= 1 /\ x[1] = Header(Padding, 0)
    BY <2>2, <2>3
  <2> QED
    BY <2>2, <2>4 DEF Whole, TypeAt
<1> HIDE DEF x
<1>6. Follows(page, heads, x, written, time, seen, start, Len(written))
  <2>1. Chained(page, heads)
    BY DEF Inv, InStep
  <2>2. Extends(written, written) /\ Len(written) \in 0..Len(written)
    BY DEF Extends, Inv, Typed
  <2>3. start \in 0..(U64 - 1)
    BY Sizes DEF Inv, Typed
  <2>4. Fits(page, heads, x, written, written, time, seen, start, Len(written))
    BY <1>4, <1>5, <2>1, <2>2, <2>3 DEF Fits
  <2> QED
    BY <2>4, PageMore
<1>7. PICK time1, seen1 : /\ PageSays(page', heads', written, time1, seen1)
                          /\ seen1[Len(page') + 1] = Len(written)
                          /\ time1[1] = time[1] /\ seen1[1] = seen[1]
  BY <1>1, <1>6 DEF Follows
<1> QED
  BY <1>1, <1>2, <1>3, <1>4, <1>7, ParseBegins

\* What the entry says that the parser is at.
LEMMA EntryMeans ==
    ASSUME Inv, phase = "parse", Has(1), Type # Padding, NEW time, NEW seen, AtHeader(time, seen)
    PROVE  LET h == pos + 1
               g == h + Size(page, h)
           IN  /\ h \in heads /\ g \in heads \cup {Len(page) + 1}
               /\ TypeAt(page, h) = Type /\ Type \in 0..(Short + 3) /\ (Type = 0 => h < Len(page))
               /\ page[h] \in Nat /\ h \in 1..Len(page) /\ page \in Seq(Nat)
               /\ EntrySays(page, written, h, ts, time[g], seen[h], seen[g])
               /\ ts \in Nat /\ time[g] \in 0..(U64 - 1)
               /\ seen[h] \in 0..Len(written) /\ seen[g] \in 0..Len(written)
<1> DEFINE h == pos + 1
           g == h + Size(page, h)
<1>1. pos < Len(page) /\ pos \in Nat /\ page \in Seq(Nat) /\ ts \in Nat
  BY Sizes DEF Inv, InStep, Typed, Has, Chained
<1>2. h \in heads /\ h \in 1..Len(page)
  BY <1>1 DEF Inv, InStep, Chained
<1>3. TypeAt(page, h) = Type /\ page[h] \in Nat
  BY <1>1, <1>2 DEF TypeAt, Type, Word
<1>4. Type \in 0..(Short + 3)
  BY <1>3, Remainders DEF TypeAt
<1>5. (Type = 0 => h < Len(page)) /\ g \in heads \cup {Len(page) + 1}
  <2>1. Linked(page, heads, h)
    BY <1>2 DEF Inv, InStep, Chained
  <2> QED
    BY <1>3, <2>1 DEF Linked, TypeAt
<1>6. PageSays(page, heads, written, time, seen) /\ ts = time[h]
  BY DEF AtHeader
<1>7. EntrySays(page, written, h, time[h], time[g], seen[h], seen[g])
  BY <1>2, <1>3, <1>6 DEF PageSays
<1>8. time[g] \in 0..(U64 - 1) /\ seen[h] \in 0..Len(written) /\ seen[g] \in 0..Len(written)
  <2> HIDE DEF g, h
  <2> QED
    BY <1>2, <1>5, <1>6 DEF PageSays
<1> QED
  BY <1>1, <1>2, <1>3, <1>4, <1>5, <1>6, <1>7, <1>8, Zenon

\* The parser takes the entry it is at for what it says.
LEMMA EntryInv ==
    ASSUME Inv, phase = "parse", Has(1), Type # Padding, NEW time, NEW seen, AtHeader(time, seen),
           pos' = pos + Size(page, pos + 1), phase' = "parse",
           UNCHANGED <<now, events, written, start, page, heads, pages, file, cut, offset, got>>,
           ts' = time[(pos + 1) + Size(page, pos + 1)],
           Laid(records', written, seen[1], seen[(pos + 1) + Size(page, pos + 1)])
    PROVE  Inv'
<1> DEFINE z == Size(page, pos + 1)
<1>1. InStep'
  <2>1. InStep /\ UNCHANGED <<now, events, page, heads>>
    BY DEF Inv
  <2> QED
    BY <2>1, EntryInStep
<1>2. z \in Nat /\ pos \in Nat
  <2>1. pos + 1 \in 1..Len(page) /\ page \in Seq(Nat) /\ (TypeAt(page, pos + 1) = 0 => pos + 1 < Len(page))
    BY EntryMeans
  <2>2. z \in Nat
    BY <2>1, SizeNat DEF TypeAt
  <2> QED
    BY <2>2 DEF Inv, InStep
<1>3. pos' \in 0..PageWords
  <2>1. pos' \in Nat /\ pos' + 1 \in heads \cup {Len(page) + 1} /\ heads \subseteq 1..Len(page) /\ page \in Seq(Nat)
    BY <1>1 DEF InStep, Chained
  <2>2. Len(page) <= PageWords /\ PageWords \in Nat /\ Len(page) \in Nat
    BY <2>1, PageAssumption DEF Inv, Typed
  <2>3. pos' <= Len(page)
    <3>1. pos' + 1 \in 1..Len(page) \/ pos' + 1 = Len(page) + 1
      BY <2>1
    <3> QED
      BY <2>1, <2>2, <3>1
  <2> QED
    BY <2>1, <2>2, <2>3
<1>4. Typed'
  <2>1. ts' \in 0..(U64 - 1)
    BY EntryMeans
  <2>2. records' \in Seq(Nat)
    BY DEF Laid
  <2> QED
    BY <1>3, <2>1, <2>2 DEF Inv, Typed
<1>5. pos' + 1 = (pos + 1) + z
  <2> HIDE DEF z
  <2> QED
    BY <1>2 DEF z
<1>6. AtHeader(time, seen)'
  <2> HIDE DEF z
  <2>1. ts' = time[pos' + 1] /\ Laid(records', written, seen[1], seen[pos' + 1])
    BY <1>5 DEF z
  <2>2. PageSays(page, heads, written, time, seen) /\ seen[Len(page) + 1] = Len(written) /\ Laid(file, written, 0, seen[1])
    BY DEF AtHeader
  <2> QED
    BY <2>1, <2>2 DEF AtHeader
<1>7. Parsing'
  <2>1. Unread'
    BY DEF Inv, Parsing, Unread
  <2> QED
    BY <1>6, <2>1 DEF Parsing
<1> QED
  BY <1>1, <1>4, <1>7 DEF Inv, Filling, Scanning

\* The event that the parser is at is encoded as it was recorded.
LEMMA EventMeans ==
    ASSUME Inv, phase = "parse", Has(1), Type \in 0..Short, NEW time, NEW seen, AtHeader(time, seen)
    PROVE  LET h == pos + 1
               g == h + Size(page, h)
           IN  /\ Later(Delta) = time[g]
               /\ DataOf(page, h) \in Seq(Nat) /\ Len(DataOf(page, h)) >= 1
               /\ Laid(records \o Dispatch(DataOf(page, h), time[g]), written, seen[1], seen[g])
<1> DEFINE h == pos + 1
           g == h + Size(page, h)
           a == seen[h]
           b == seen[g]
           u == time[g]
           d == page[h] \div Types
<1>1. Short \in Nat /\ TimeStamp = Short + 2 /\ TimeExtend = Short + 1 /\ Padding = Short + 3 /\ U64 \in Nat \ {0}
  BY Sizes DEF TimeStamp, TimeExtend, Padding
<1>2. Type # Padding /\ Type # TimeStamp /\ Type # TimeExtend
  BY <1>1
<1>3. /\ TypeAt(page, h) = Type /\ page[h] \in Nat
      /\ EntrySays(page, written, h, ts, u, a, b)
      /\ ts \in Nat /\ u \in 0..(U64 - 1) /\ a \in 0..Len(written) /\ b \in 0..Len(written)
  BY <1>2, EntryMeans
<1>4. Delta = d /\ d \in Nat
  BY <1>3, Remainders DEF Delta, Word
<1> HIDE DEF a, b, u, d, g
<1>5. u = ts + d /\ \E e \in Events : DataOf(page, h) = Data(e) /\ Takes(written, e, u, a, b)
  BY <1>2, <1>3 DEF EntrySays, d
<1>6. Later(Delta) = u
  <2>1. \A n \in 0..(U64 - 1) : n % U64 = n
    BY <1>1
  <2>2. u % U64 = u
    BY <1>3, <2>1
  <2> QED
    BY <1>4, <1>5, <2>2 DEF Later
<1>7. PICK e \in Events : DataOf(page, h) = Data(e) /\ Takes(written, e, u, a, b)
  BY <1>5
<1>8. Data(e) \in Seq(Nat) /\ Len(Data(e)) >= 1
  <2>1. PICK n \in Nat : e \in EventOf(n)
    BY DEF Events
  <2> QED
    BY <2>1, DataWords
<1>9. written \in Seq(Recorded) /\ Laid(records, written, seen[1], a)
  BY DEF Inv, Typed, AtHeader, a
<1>10. Laid(records \o Dispatch(Data(e), u), written, seen[1], b)
  <2>1. CASE IsOurs(e)
    <3>1. b = a + 1 /\ b <= Len(written) /\ written[b] = [event |-> e, ts |-> u]
      BY <1>7, <2>1 DEF Takes
    <3>2. Dispatch(Data(e), u) = Words(written[a + 1])
      BY <3>1 DEF Words
    <3>3. Laid(Words(written[a + 1]), written, a, a + 1)
      <4>1. a \in Nat /\ a + 1 <= Len(written)
        BY <1>3, <3>1
      <4> QED
        BY <1>9, <4>1, LaidOne
    <3>4. Laid(Dispatch(Data(e), u), written, a, b)
      BY <3>1, <3>2, <3>3
    <3> QED
      BY <1>9, <3>4, LaidJoin
  <2>2. CASE ~IsOurs(e)
    <3>1. Dispatch(Data(e), u) = <<>>
      BY <2>2, OthersAddNothing
    <3>2. b = a
      BY <1>7, <2>2 DEF Takes
    <3>3. records \o <<>> = records
      <4>1. records \in Seq(Nat)
        BY <1>9 DEF Laid
      <4> QED
        BY <4>1
    <3> QED
      BY <1>9, <3>1, <3>2, <3>3
  <2> QED
    BY <2>1, <2>2
<1>11. DataOf(page, h) \in Seq(Nat) /\ Len(DataOf(page, h)) >= 1
       /\ Laid(records \o Dispatch(DataOf(page, h), u), written, seen[1], b)
  BY <1>7, <1>8, <1>10
<1> QED
  BY <1>6, <1>11 DEF a, b, u, g

\* An absolute time takes the place of the parser's.
LEMMA ParseTimeStampInv ==
    ASSUME Inv, ParseTimeStamp
    PROVE  Inv'
<1> DEFINE h == pos + 1
           g == h + Size(page, h)
<1>1. /\ phase = "parse" /\ phase' = "parse" /\ Has(1) /\ Type = TimeStamp /\ Has(3)
      /\ ts' = Word(2) + Word(3) * WordBase /\ pos' = pos + 3
      /\ UNCHANGED <<now, events, written, start, page, heads, pages, records, file, cut, offset, got>>
  BY DEF ParseTimeStamp, kernelVars, fileVars, scanVars
<1>2. PICK time, seen : AtHeader(time, seen)
  BY <1>1 DEF Inv, Parsing
<1>3. Short \in Nat /\ TimeStamp = Short + 2 /\ TimeExtend = Short + 1 /\ Padding = Short + 3
  BY Sizes DEF TimeStamp, TimeExtend, Padding
<1>4. Type # Padding /\ Type # TimeExtend /\ Type \notin 0..Short
  BY <1>1, <1>3
<1>5. TypeAt(page, h) = Type /\ EntrySays(page, written, h, ts, time[g], seen[h], seen[g])
  BY <1>1, <1>2, <1>4, EntryMeans
<1>6. time[g] = page[h + 1] + page[h + 2] * WordBase /\ seen[g] = seen[h]
  <2> HIDE DEF g
  <2> QED
    BY <1>1, <1>4, <1>5 DEF EntrySays
<1>7. Word(2) = page[h + 1] /\ Word(3) = page[h + 2] /\ Size(page, h) = 3
  <2>1. pos + 2 = h + 1 /\ pos + 3 = h + 2
    BY DEF Inv, Typed
  <2>2. Size(page, h) = 3
    BY <1>1, <1>5 DEF Size, TypeAt
  <2> QED
    BY <2>1, <2>2 DEF Word
<1>8. ts' = time[g] /\ pos' = pos + Size(page, h)
  BY <1>1, <1>6, <1>7, Zenon
<1>9. Laid(records', written, seen[1], seen[g])
  BY <1>1, <1>2, <1>6 DEF AtHeader
<1> QED
  BY <1>1, <1>2, <1>4, <1>8, <1>9, EntryInv

\* A long gap is added to the parser's time.
LEMMA ParseTimeExtendInv ==
    ASSUME Inv, ParseTimeExtend
    PROVE  Inv'
<1> DEFINE h == pos + 1
           g == h + Size(page, h)
<1>1. /\ phase = "parse" /\ phase' = "parse" /\ Has(1) /\ Type = TimeExtend /\ Has(2)
      /\ ts' = Later(Word(2) * DeltaBase + Delta) /\ pos' = pos + 2
      /\ UNCHANGED <<now, events, written, start, page, heads, pages, records, file, cut, offset, got>>
  BY DEF ParseTimeExtend, kernelVars, fileVars, scanVars
<1>2. PICK time, seen : AtHeader(time, seen)
  BY <1>1 DEF Inv, Parsing
<1>3. Short \in Nat /\ TimeStamp = Short + 2 /\ TimeExtend = Short + 1 /\ Padding = Short + 3 /\ U64 \in Nat \ {0}
  BY Sizes DEF TimeStamp, TimeExtend, Padding
<1>4. Type # Padding /\ Type # TimeStamp /\ Type \notin 0..Short
  BY <1>1, <1>3
<1>5. TypeAt(page, h) = Type /\ EntrySays(page, written, h, ts, time[g], seen[h], seen[g])
      /\ time[g] \in 0..(U64 - 1)
  BY <1>1, <1>2, <1>4, EntryMeans
<1>6. time[g] = ts + (page[h + 1] * DeltaBase + page[h] \div Types) /\ seen[g] = seen[h]
  <2> HIDE DEF g
  <2> QED
    BY <1>1, <1>4, <1>5 DEF EntrySays
<1>7. Word(2) = page[h + 1] /\ Delta = page[h] \div Types /\ Size(page, h) = 2
  <2>1. pos + 2 = h + 1
    BY DEF Inv, Typed
  <2>2. Size(page, h) = 2
    BY <1>1, <1>3, <1>5 DEF Size, TypeAt
  <2> QED
    BY <2>1, <2>2 DEF Word, Delta
<1>8. ts' = time[g] /\ pos' = pos + Size(page, h)
  <2>1. ts' = time[g] % U64
    BY <1>1, <1>6, <1>7, Zenon DEF Later
  <2>2. \A n \in 0..(U64 - 1) : n % U64 = n
    BY <1>3
  <2>3. time[g] % U64 = time[g]
    BY <1>5, <2>2, Zenon
  <2>4. ts' = time[g]
    BY <2>1, <2>3, Zenon
  <2> QED
    BY <1>1, <1>7, <2>4, Zenon
<1>9. Laid(records', written, seen[1], seen[g])
  BY <1>1, <1>2, <1>6 DEF AtHeader
<1> QED
  BY <1>1, <1>2, <1>4, <1>8, <1>9, EntryInv

\* An event whose length is in a word of its own.
LEMMA ParseLongInv ==
    ASSUME Inv, ParseLong
    PROVE  Inv'
<1> DEFINE h == pos + 1
           g == h + Size(page, h)
<1>1. /\ phase = "parse" /\ phase' = "parse" /\ Has(1) /\ Type = 0
      /\ ts' = Later(Delta) /\ pos' = pos + 2 + Word(2)
      /\ records' = records \o Dispatch(SubSeq(page, pos + 3, pos + 2 + Word(2)), ts')
      /\ UNCHANGED <<now, events, written, start, page, heads, pages, file, cut, offset, got>>
  BY DEF ParseLong, kernelVars, fileVars, scanVars
<1>2. PICK time, seen : AtHeader(time, seen)
  BY <1>1 DEF Inv, Parsing
<1>3. Type \in 0..Short /\ Type # Padding
  BY <1>1, Sizes DEF Padding
<1>4. TypeAt(page, h) = 0 /\ h < Len(page) /\ h \in 1..Len(page) /\ page \in Seq(Nat) /\ pos \in Nat
  BY <1>1, <1>2, <1>3, EntryMeans DEF Inv, InStep
<1>5. ts' = time[g] /\ Laid(records \o Dispatch(DataOf(page, h), time[g]), written, seen[1], seen[g])
  BY <1>1, <1>2, <1>3, EventMeans
<1>6. Word(2) = page[h + 1] /\ page[h + 1] \in Nat /\ Size(page, h) = 2 + page[h + 1]
  <2>1. pos + 2 = h + 1 /\ page[h + 1] \in Nat
    BY <1>4
  <2>2. TimeStamp # 0 /\ TimeExtend # 0
    BY Sizes DEF TimeStamp, TimeExtend
  <2> QED
    BY <1>4, <2>1, <2>2 DEF Size, TypeAt, Word
<1>7. pos' = pos + Size(page, h)
  BY <1>1, <1>4, <1>6
<1>8. DataOf(page, h) = SubSeq(page, pos + 3, pos + 2 + Word(2))
  <2>1. DataOf(page, h) = SubSeq(page, h + 1 + 1, h + 1 + page[h + 1])
    BY <1>4 DEF DataOf
  <2>2. h + 1 + 1 = pos + 3 /\ h + 1 + page[h + 1] = pos + 2 + Word(2)
    BY <1>4, <1>6
  <2> QED
    BY <2>1, <2>2
<1>9. Laid(records', written, seen[1], seen[g])
  BY <1>1, <1>5, <1>8, Zenon
<1> QED
  BY <1>1, <1>2, <1>3, <1>5, <1>7, <1>9, EntryInv

\* An event whose length is in its header.
LEMMA ParseShortInv ==
    ASSUME Inv, ParseShort
    PROVE  Inv'
<1> DEFINE h == pos + 1
           g == h + Size(page, h)
<1>1. /\ phase = "parse" /\ phase' = "parse" /\ Has(1) /\ Type \in 1..Short
      /\ ts' = Later(Delta) /\ pos' = pos + 1 + Type
      /\ records' = records \o Dispatch(SubSeq(page, pos + 2, pos + 1 + Type), ts')
      /\ UNCHANGED <<now, events, written, start, page, heads, pages, file, cut, offset, got>>
  BY DEF ParseShort, kernelVars, fileVars, scanVars
<1>2. PICK time, seen : AtHeader(time, seen)
  BY <1>1 DEF Inv, Parsing
<1>3. Short \in Nat /\ Type \in 0..Short /\ Type # Padding /\ Type # TimeStamp /\ Type # TimeExtend /\ Type # 0
  BY <1>1, Sizes DEF Padding, TimeStamp, TimeExtend
<1>4. TypeAt(page, h) = Type /\ pos \in Nat
  BY <1>1, <1>2, <1>3, EntryMeans DEF Inv, InStep
<1>5. ts' = time[g] /\ Laid(records \o Dispatch(DataOf(page, h), time[g]), written, seen[1], seen[g])
  BY <1>1, <1>2, <1>3, EventMeans
<1>6. Size(page, h) = 1 + Type
  BY <1>3, <1>4 DEF Size, TypeAt
<1>7. pos' = pos + Size(page, h)
  <2> DEFINE n == Type
  <2>1. n \in Nat
    BY <1>3
  <2> HIDE DEF n
  <2>2. pos + 1 + n = pos + (1 + n)
    BY <1>4, <2>1
  <2> QED
    BY <1>1, <1>6, <2>2, Zenon DEF n
<1>8. DataOf(page, h) = SubSeq(page, pos + 2, pos + 1 + Type)
  <2>1. DataOf(page, h) = SubSeq(page, h + 1, h + Type)
    BY <1>3, <1>4 DEF DataOf
  <2>2. h + 1 = pos + 2
    BY <1>4
  <2> QED
    BY <2>1, <2>2
<1>9. Laid(records', written, seen[1], seen[g])
  BY <1>1, <1>5, <1>8, Zenon
<1> QED
  BY <1>1, <1>2, <1>3, <1>5, <1>7, <1>9, EntryInv

\* The parser leaves a page only when it has seen all that is on it: no entry is cut short.
LEMMA LeavesAtTheEnd ==
    ASSUME Inv, Leave, NEW time, NEW seen, AtHeader(time, seen)
    PROVE  seen[pos + 1] = Len(written)
<1> DEFINE h == pos + 1
           z == Size(page, h)
<1>1. phase = "parse" /\ pos \in Nat /\ page \in Seq(Nat) /\ Len(page) \in Nat /\ heads \subseteq 1..Len(page)
      /\ h \in heads \cup {Len(page) + 1}
  BY DEF Leave, Inv, InStep, Chained
<1>2. PageSays(page, heads, written, time, seen) /\ seen[Len(page) + 1] = Len(written)
  BY DEF AtHeader
<1>3. CASE ~Has(1)
  <2>1. h = Len(page) + 1
    BY <1>1, <1>3 DEF Has
  <2> QED
    BY <1>2, <2>1
<1>4. CASE Has(1) /\ Type = Padding
  <2>1. h \in heads
    BY <1>1, <1>4 DEF Has
  <2>2. TypeAt(page, h) = Padding
    BY <1>4 DEF TypeAt, Type, Word
  <2> QED
    BY <1>2, <2>1, <2>2 DEF PageSays
<1>5. CASE Has(1) /\ Type # Padding
  <2>1. /\ h + z \in heads \cup {Len(page) + 1}
        /\ TypeAt(page, h) = Type /\ Type \in 0..(Short + 3) /\ (Type = 0 => h < Len(page))
        /\ h \in 1..Len(page)
    BY <1>1, <1>5, EntryMeans
  <2>2. z \in Nat
    BY <1>1, <2>1, SizeNat DEF TypeAt
  <2>3. pos + z <= Len(page)
    <3> HIDE DEF z
    <3> QED
      BY <1>1, <2>1, <2>2
  <2>4. Short \in Nat /\ TimeStamp = Short + 2 /\ TimeExtend = Short + 1 /\ Padding = Short + 3
    BY Sizes DEF TimeStamp, TimeExtend, Padding
  <2>5. z = IF Type = TimeStamp THEN 3 ELSE IF Type = TimeExtend THEN 2
            ELSE IF Type = 0 THEN 2 + page[h + 1] ELSE 1 + Type
    BY <2>1 DEF Size, TypeAt
  <2> HIDE DEF z
  <2>6. CASE Type = TimeStamp /\ ~Has(3)
    BY <2>3, <2>5, <2>6 DEF Has
  <2>7. CASE Type = TimeExtend /\ ~Has(2)
    BY <2>3, <2>4, <2>5, <2>7 DEF Has
  <2>8. CASE Type = 0 /\ (~Has(2) \/ Word(2) = 0 \/ ~Has(2 + Word(2)))
    <3>1. Word(2) = page[h + 1] /\ page[h + 1] \in Nat /\ z = 2 + page[h + 1]
      <4>1. pos + 2 = h + 1 /\ page[h + 1] \in Nat
        BY <1>1, <2>1, <2>8
      <4> QED
        BY <2>4, <2>5, <2>8, <4>1 DEF Word
    <3>2. Has(2) /\ Has(2 + Word(2))
      BY <1>1, <2>3, <3>1 DEF Has
    <3>3. DataOf(page, h) \in Seq(Nat) /\ Len(DataOf(page, h)) >= 1
      <4>1. Type \in 0..Short
        BY <2>4, <2>8
      <4> QED
        BY <1>1, <1>5, <4>1, EventMeans
    <3>4. DataOf(page, h) = SubSeq(page, h + 1 + 1, h + 1 + Word(2))
      BY <2>1, <2>8, <3>1 DEF DataOf
    <3>5. Word(2) # 0
      <4> SUFFICES ASSUME Word(2) = 0 PROVE FALSE
        OBVIOUS
      <4>1. SubSeq(page, (h + 1) + 1, (h + 1) + 0) \in Seq(Nat) /\ Len(SubSeq(page, (h + 1) + 1, (h + 1) + 0)) = 0
        <5>1. h + 1 \in Nat /\ h + 1 + 0 <= Len(page)
          BY <1>1, <2>1, <2>8
        <5> QED
          BY <1>1, <5>1, Slice
      <4> HIDE DEF h
      <4> QED
        BY <3>3, <3>4, <4>1
    <3> QED
      BY <2>8, <3>2, <3>5
  <2>9. CASE Type \in 1..Short /\ ~Has(1 + Type)
    <3>1. z = 1 + Type
      BY <2>4, <2>5, <2>9
    <3> QED
      BY <2>3, <2>9, <3>1 DEF Has
  <2> QED
    BY <1>5, <2>6, <2>7, <2>8, <2>9 DEF Leave
<1> QED
  BY <1>3, <1>4, <1>5

\* The records of a page follow those in the file, as far as they are written.
LEMMA LeaveInv ==
    ASSUME Inv, Leave
    PROVE  Inv'
<1>1. InStep'
  BY NextInStep DEF Inv, Next
<1>2. /\ phase = "parse" /\ (WritePage \/ WriteFails)
      /\ UNCHANGED <<now, events, written, start, pos, ts, records, offset, got>>
  BY DEF Leave, parseVars, scanVars
<1>3. Unread /\ \E time, seen : AtHeader(time, seen)
  BY <1>2 DEF Inv, Parsing
<1>4. PICK time, seen : AtHeader(time, seen)
  BY <1>3
<1>5. PICK n, full : n = Len(written) /\ full = file \o records
  OBVIOUS
<1>6. Laid(full, written, 0, n) /\ written \in Seq(Recorded) /\ n \in Nat
  <2>1. Laid(file, written, 0, seen[1]) /\ Laid(records, written, seen[1], n)
    BY <1>4, <1>5, LeavesAtTheEnd DEF AtHeader
  <2>2. written \in Seq(Recorded)
    BY DEF Inv, Typed
  <2>3. Laid(full, written, 0, n)
    BY <1>5, <2>1, <2>2, LaidJoin
  <2> QED
    BY <1>5, <2>2, <2>3
<1>7. file \in Seq(Nat) /\ records \in Seq(Nat)
  BY DEF Inv, Typed
<1>8. full \in Seq(Nat) /\ Len(full) = Len(file) + Len(records)
      /\ (\A k \in 1..Len(file) : full[k] = file[k])
      /\ (\A k \in 1..Len(records) : full[Len(file) + k] = records[k])
  BY <1>5, <1>7, Joined
<1>9. start \in 0..(U64 - 1) /\ offset = 0 /\ got = <<>> /\ ~cut
  BY <1>3, Sizes DEF Inv, Typed, Unread
<1>10. PICK at : LaidAt(full, written, 0, n, at)
  BY <1>6 DEF Laid
<1>11. at[0] = 0
  BY <1>10 DEF LaidAt
\* whatever has reached the file, nothing of it has been read
<1>12. ASSUME file' \in Seq(Nat), Len(file') <= Len(full), \A k \in 1..Len(file') : file'[k] = full[k],
              phase' = "scan", ~cut' => Len(file') = Len(full)
       PROVE  Scanning'
  <2>1. [i \in 1..0 |-> Expected(written'[i])] = <<>> /\ got' = <<>> /\ offset' = 0 /\ written' = written
    BY <1>2, <1>9
  <2>2. 0 <= Len(file') /\ 0 \in 0..n /\ n \in 0..n
    BY <1>6, <1>12
  <2>3. FileHolds(n, full, at, 0)'
    <3>1. got' = [i \in 1..0 |-> Expected(written'[i])]
      BY <2>1
    <3>2. n \in 0..Len(written') /\ LaidAt(full, written', 0, n, at) /\ (~cut' => n = Len(written'))
      BY <1>5, <1>10, <2>1, <2>2
    <3>3. at[0] <= Len(file') /\ offset' = at[0]
      BY <1>11, <2>1, <2>2
    <3> QED
      BY <1>8, <1>12, <2>2, <3>1, <3>2, <3>3 DEF FileHolds
  <2> QED
    BY <2>3 DEF Scanning
<1>13. CASE WritePage
  <2>1. file' = full /\ UNCHANGED cut
    BY <1>5, <1>13 DEF WritePage
  <2>2. CASE phase' = "scan" /\ UNCHANGED <<page, heads, pages>>
    <3>1. Scanning'
      BY <1>8, <1>12, <2>1, <2>2
    <3>2. Typed'
      <4>1. offset' \in 0..Len(file')
        BY <1>2, <1>8, <1>9, <2>1
      <4> QED
        BY <1>2, <1>8, <2>1, <2>2, <4>1 DEF Inv, Typed
    <3> QED
      BY <1>1, <2>2, <3>1, <3>2 DEF Inv, Filling, Parsing
  <2>3. CASE pages < MaxPages /\ phase' = "fill" /\ page' = <<>> /\ heads' = {} /\ pages' = pages + 1
    <3>1. Open(page', heads', written', start, start', n)
      <4>1. Open(<<>>, {}, written, start, start, n)
        BY <1>5, <1>6, <1>9, EmptySays
      <4> QED
        BY <1>2, <2>3, <4>1
    <3>2. Filling'
      <4>1. Unread'
        BY <1>2, <1>9, <2>1 DEF Unread
      <4>2. Laid(file', written', 0, n)
        BY <1>2, <1>6, <2>1
      <4> QED
        BY <2>3, <3>1, <4>1, <4>2 DEF Filling
    <3>3. Typed'
      <4>1. offset' \in 0..Len(file') /\ Len(page') <= PageWords /\ pages' \in 1..MaxPages
        <5>1. pages \in 1..MaxPages /\ MaxPages \in Nat /\ PageWords \in Nat
          BY PageAssumption DEF Inv, Typed
        <5> QED
          BY <1>2, <1>8, <1>9, <2>1, <2>3, <5>1
      <4> QED
        BY <1>2, <1>8, <2>1, <2>3, <4>1 DEF Inv, Typed
    <3> QED
      BY <1>1, <2>3, <3>2, <3>3 DEF Inv, Parsing, Scanning
  <2> QED
    BY <1>13, <2>2, <2>3 DEF WritePage
<1>14. CASE WriteFails
  <2>1. PICK m \in 0..(Len(records) - 1) : file' = file \o SubSeq(records, 1, m)
    BY <1>14 DEF WriteFails
  <2>2. cut' = TRUE /\ phase' = "scan" /\ UNCHANGED <<page, heads, pages>>
    BY <1>14 DEF WriteFails
  <2>3. m \in Nat /\ m <= Len(records)
    BY <1>7, <2>1
  <2> DEFINE r == SubSeq(records, 0 + 1, 0 + m)
  <2>4. r \in Seq(Nat) /\ Len(r) = m /\ \A k \in 1..m : r[k] = records[0 + k]
    BY <1>7, <2>3, Slice
  <2>5. file' = file \o r
    BY <2>1, <2>3
  <2> HIDE DEF r
  <2>6. /\ file' \in Seq(Nat) /\ Len(file') = Len(file) + m
        /\ \A k \in 1..Len(file) : file'[k] = file[k]
        /\ \A k \in 1..m : file'[Len(file) + k] = r[k]
    BY <1>7, <2>4, <2>5, Joined
  <2>7. Len(file') <= Len(full) /\ \A k \in 1..Len(file') : file'[k] = full[k]
    <3>1. Len(file) \in Nat /\ Len(records) \in Nat
      BY <1>7
    <3>2. ASSUME NEW k \in 1..Len(file') PROVE file'[k] = full[k]
      <4>1. CASE k \in 1..Len(file)
        BY <1>8, <2>6, <4>1
      <4>2. CASE k \notin 1..Len(file)
        <5> DEFINE i == k - Len(file)
        <5>1. i \in 1..m /\ i \in 1..Len(records) /\ k = Len(file) + i
          BY <2>3, <2>6, <3>1, <4>2
        <5> HIDE DEF i
        <5>2. file'[k] = r[i] /\ full[k] = records[i] /\ 0 + i = i
          BY <1>8, <2>6, <5>1
        <5>3. r[i] = records[i]
          BY <2>4, <5>1, <5>2
        <5> QED
          BY <5>2, <5>3
      <4> QED
        BY <4>1, <4>2
    <3> QED
      BY <1>8, <2>3, <2>6, <3>1, <3>2
  <2>8. Scanning'
    BY <1>12, <2>2, <2>6, <2>7
  <2>9. Typed'
    <3>1. offset' \in 0..Len(file')
      BY <1>2, <1>9, <2>6
    <3> QED
      BY <1>2, <2>2, <2>6, <3>1 DEF Inv, Typed
  <2> QED
    BY <1>1, <2>2, <2>8, <2>9 DEF Inv, Filling, Parsing
<1> QED
  BY <1>2, <1>13, <1>14

\* Where the reader is in a file that has more, a record begins.
LEMMA RecordAt ==
    ASSUME Inv, phase = "scan", Rest > 0, NEW n, NEW full, NEW at, NEW j, FileHolds(n, full, at, j)
    PROVE  LET w == written[j + 1]
               W == Words(w)
           IN  /\ n \in Nat /\ j \in Nat /\ j < n /\ w \in Recorded
               /\ offset \in Nat /\ Len(file) \in Nat /\ file \in Seq(Nat) /\ offset = at[j]
               /\ W \in Seq(Nat) /\ Len(W) \in Nat
               /\ at[j + 1] = offset + Len(W) /\ at[j + 1] <= Len(full)
               /\ \A k \in 1..Len(W) : offset + k <= Len(file) => file[offset + k] = W[k]
<1> DEFINE w == written[j + 1]
           W == Words(w)
           L == Len(W)
<1>1. /\ n \in 0..Len(written) /\ j \in 0..n /\ full \in Seq(Nat)
      /\ LaidAt(full, written, 0, n, at) /\ offset = at[j]
      /\ Len(file) <= Len(full) /\ \A k \in 1..Len(file) : file[k] = full[k]
  BY DEF FileHolds
<1>2. written \in Seq(Recorded) /\ file \in Seq(Nat) /\ offset \in 0..Len(file)
      /\ Len(file) \in Nat /\ Len(full) \in Nat /\ Len(written) \in Nat
  BY <1>1 DEF Inv, Typed
<1>3. offset < Len(file) /\ offset \in Nat
  BY <1>2 DEF Rest
<1>4. n \in Nat /\ j \in Nat /\ j < n
  <2>1. at[n] = Len(full)
    BY <1>1 DEF LaidAt
  <2>2. j # n
    BY <1>1, <1>2, <1>3, <2>1
  <2> QED
    BY <1>1, <1>2, <2>2
<1>5. w \in Recorded
  BY <1>1, <1>2, <1>4
<1>6. W \in Seq(Nat) /\ L \in Nat
  <2>1. W \in Seq(Nat)
    BY <1>5, RecordSays
  <2> HIDE DEF W
  <2> QED
    BY <2>1
<1>7. at[j + 1] = at[j] + L /\ \A k \in 1..L : full[at[j] + k] = W[k]
  <2>1. j \in 0..(n - 1)
    BY <1>4
  <2> QED
    BY <1>1, <2>1 DEF LaidAt
<1>8. at[j + 1] <= Len(full)
  <2>1. j + 1 \in 0..n
    BY <1>4
  <2>2. at[j + 1] \in 0..Len(full)
    BY <1>1, <2>1 DEF LaidAt
  <2> QED
    BY <1>2, <2>2
<1> HIDE DEF L, W, w
<1>9. ASSUME NEW k \in 1..L, offset + k <= Len(file) PROVE file[offset + k] = W[k]
  <2>1. offset + k \in 1..Len(file)
    BY <1>2, <1>3, <1>6, <1>9
  <2> QED
    BY <1>1, <1>7, <2>1
<1>10. at[j + 1] = offset + L
  BY <1>1, <1>7
<1> QED
  BY <1>1, <1>2, <1>3, <1>4, <1>5, <1>6, <1>8, <1>9, <1>10, Zenon DEF L, W, w

\* The reader takes the words of one record, and they say what was recorded.
LEMMA ScanRecordInv ==
    ASSUME Inv, ScanRecord
    PROVE  Inv'
<1>1. /\ phase = "scan" /\ phase' = "scan" /\ Rest > 0 /\ Parses
      /\ got' = Append(got, Decode(SubSeq(file, offset + 1, offset + Field(3))))
      /\ offset' = offset + Field(3)
      /\ UNCHANGED <<now, events, written, start, page, heads, pages, pos, ts, records, file, cut>>
  BY DEF ScanRecord, kernelVars, parseVars, fileVars
<1>2. InStep'
  BY NextInStep DEF Inv, Next
<1>3. PICK n, full, at, j : FileHolds(n, full, at, j)
  BY <1>1 DEF Inv, Scanning
<1> DEFINE w == written[j + 1]
           W == Words(w)
<1>4. /\ n \in Nat /\ j \in Nat /\ j < n /\ w \in Recorded
      /\ offset \in Nat /\ Len(file) \in Nat /\ file \in Seq(Nat) /\ offset = at[j]
      /\ W \in Seq(Nat) /\ Len(W) \in Nat
      /\ at[j + 1] = offset + Len(W) /\ at[j + 1] <= Len(full)
      /\ \A k \in 1..Len(W) : offset + k <= Len(file) => file[offset + k] = W[k]
  BY <1>1, <1>3, RecordAt
<1>5. Len(W) >= 5 /\ W[3] = Len(W) /\ Decode(W) = Expected(w)
  BY <1>4, RecordSays DEF HeaderLen
<1> HIDE DEF W
<1>6. Field(3) = Len(W) /\ offset + Len(W) <= Len(file)
  <2>1. Len(file) - offset >= 5 /\ Len(file) - offset >= Field(3)
    BY <1>1 DEF Parses, Rest, HeaderLen
  <2>2. 3 \in 1..Len(W) /\ offset + 3 <= Len(file)
    <3>1. offset \in Nat /\ Len(file) \in Nat /\ Len(W) \in Nat /\ Len(W) >= 5
      BY <1>4, <1>5
    <3>2. Len(file) - offset >= 5
      BY <2>1
    <3> QED
      BY <3>1, <3>2
  <2>3. Field(3) = Len(W)
    BY <1>4, <1>5, <2>2 DEF Field
  <2> QED
    BY <1>4, <2>1, <2>3
<1>7. Decode(SubSeq(file, offset + 1, offset + Field(3))) = Expected(w)
  <2> DEFINE s == SubSeq(file, offset + 1, offset + Len(W))
  <2>1. s \in Seq(Nat) /\ Len(s) = Len(W) /\ \A k \in 1..Len(W) : s[k] = file[offset + k]
    BY <1>4, <1>6, Slice
  <2> HIDE DEF s
  <2>2. Len(s) = Len(W) /\ \A k \in 1..Len(s) : s[k] = W[k]
    <3>1. ASSUME NEW k \in 1..Len(W) PROVE offset + k <= Len(file)
      BY <1>4, <1>6
    <3>2. \A k \in 1..Len(W) : file[offset + k] = W[k]
      BY <1>4, <3>1, Zenon
    <3> QED
      BY <2>1, <3>2
  <2>3. s = W
    <3>1. /\ s \in Seq(Nat) /\ W \in Seq(Nat) /\ Len(s) = Len(W)
          /\ \A k \in 1..Len(s) : s[k] = W[k]
      BY <1>4, <2>1, <2>2
    <3> QED
      BY <3>1, SeqEqual
  <2> QED
    BY <1>5, <1>6, <2>3 DEF s
<1>8. got' = [i \in 1..(j + 1) |-> Expected(written[i])]
  <2> DEFINE g == [i \in 1..(j + 1) |-> Expected(written[i])]
             S == {g[i] : i \in 1..(j + 1)}
  <2>1. /\ \A i \in 1..(j + 1) : g[i] = Expected(written[i]) /\ g[i] \in S
        /\ g \in [1..(j + 1) -> S]
    OBVIOUS
  <2>2. got = [i \in 1..j |-> g[i]]
    <3>1. got = [i \in 1..j |-> Expected(written[i])]
      BY <1>3 DEF FileHolds
    <3>2. \A i \in 1..j : i \in 1..(j + 1)
      BY <1>4
    <3> QED
      BY <3>1, <3>2
  <2>3. j + 1 \in 1..(j + 1)
    BY <1>4
  <2>4. got' = Append([i \in 1..j |-> g[i]], g[j + 1])
    <3>1. Decode(SubSeq(file, offset + 1, offset + Field(3))) = g[j + 1]
      BY <1>7, <2>3
    <3> HIDE DEF g
    <3> QED
      BY <1>1, <2>2, <3>1, Zenon
  <2> HIDE DEF g, S
  <2>5. [i \in 1..j |-> g[i]] \in Seq(S) /\ Len([i \in 1..j |-> g[i]]) = j
    <3>1. \A i \in 1..j : g[i] \in S
      BY <1>4, <2>1
    <3> QED
      BY <1>4, <3>1
  <2>6. g \in Seq(S) /\ Len(g) = j + 1
    BY <1>4, <2>1
  <2>7. got' \in Seq(S) /\ Len(got') = j + 1 /\ \A i \in 1..(j + 1) : got'[i] = g[i]
    BY <1>4, <2>1, <2>3, <2>4, <2>5
  <2>8. got' = g
    <3>1. /\ got' \in Seq(S) /\ g \in Seq(S) /\ Len(got') = Len(g)
          /\ \A k \in 1..Len(got') : got'[k] = g[k]
      BY <2>6, <2>7
    <3> QED
      BY <3>1, SeqEqual
  <2> QED
    BY <2>8 DEF g
<1>9. FileHolds(n, full, at, j + 1)'
  <2>1. j + 1 \in 0..n /\ at[j + 1] <= Len(file) /\ offset' = at[j + 1]
    BY <1>1, <1>4, <1>6
  <2>2. got' = [i \in 1..(j + 1) |-> Expected(written'[i])]
    BY <1>1, <1>8
  <2> QED
    BY <1>1, <1>3, <2>1, <2>2 DEF FileHolds
<1>10. Typed'
  <2>1. offset' \in 0..Len(file')
    BY <1>1, <1>4, <1>6
  <2> QED
    BY <1>1, <2>1 DEF Inv, Typed
<1> QED
  BY <1>1, <1>2, <1>9, <1>10 DEF Inv, Filling, Parsing, Scanning

\* Only a file that was cut has words that are no record.
LEMMA ScanFailsInv ==
    ASSUME Inv, ScanFails
    PROVE  Inv'
<1>1. /\ phase = "scan" /\ phase' = "err" /\ Rest > 0 /\ ~Parses
      /\ offset' = IF Truncated THEN Len(file) ELSE offset
      /\ UNCHANGED <<now, events, written, start, page, heads, pages, pos, ts, records, file, cut, got>>
  BY DEF ScanFails, kernelVars, parseVars, fileVars
<1>2. InStep'
  BY NextInStep DEF Inv, Next
<1>3. PICK n, full, at, j : FileHolds(n, full, at, j)
  BY <1>1 DEF Inv, Scanning
<1>4. cut
  <2> SUFFICES ASSUME ~cut PROVE Parses
    BY <1>1 DEF Inv, Typed
  <2> DEFINE w == written[j + 1]
             W == Words(w)
  <2>1. /\ w \in Recorded
        /\ offset \in Nat /\ Len(file) \in Nat
        /\ W \in Seq(Nat) /\ Len(W) \in Nat
        /\ at[j + 1] = offset + Len(W) /\ at[j + 1] <= Len(full)
        /\ \A k \in 1..Len(W) : offset + k <= Len(file) => file[offset + k] = W[k]
    BY <1>1, <1>3, RecordAt
  <2>2. /\ Len(W) >= 5 /\ W[1] = Magic /\ W[3] = Len(W)
        /\ \/ /\ W[2] = SubmitId /\ Len(W) >= 7
              /\ Len(W) - 7 = W[7] * EntryLen(W[6])
           \/ W[2] = CompleteId /\ Len(W) = CompleteLen
    BY <2>1, RecordSays DEF HeaderLen, SubmitFixed
  <2> HIDE DEF W
  <2>3. Len(file) = Len(full)
    BY <1>3 DEF FileHolds
  <2>4. \A k \in 1..Len(W) : Field(k) = W[k]
    <3> TAKE k \in 1..Len(W)
    <3>1. offset + k <= Len(file)
      BY <2>1, <2>3
    <3> QED
      BY <2>1, <3>1 DEF Field
  <2>5. Rest >= Len(W) /\ Rest >= HeaderLen
    BY <2>1, <2>2, <2>3 DEF Rest, HeaderLen
  <2>6. Field(1) = Magic /\ Field(2) = W[2] /\ Field(3) = Len(W)
    <3>1. 1 \in 1..Len(W) /\ 2 \in 1..Len(W) /\ 3 \in 1..Len(W)
      <4>1. Len(W) \in Nat /\ Len(W) >= 5
        BY <2>1, <2>2
      <4> QED
        BY <4>1
    <3> QED
      BY <2>2, <2>4, <3>1
  <2>7. CASE W[2] = SubmitId /\ Len(W) >= 7 /\ Len(W) - 7 = W[7] * EntryLen(W[6])
    <3>1. Field(6) = W[6] /\ Field(7) = W[7]
      <4>1. 6 \in 1..Len(W) /\ 7 \in 1..Len(W)
        BY <2>1, <2>7
      <4> QED
        BY <2>4, <4>1
    <3>2. SubmitLength
      BY <2>6, <2>7, <3>1 DEF SubmitLength, SubmitFixed
    <3> QED
      BY <2>2, <2>5, <2>6, <2>7, <3>2 DEF Parses, HeaderLen
  <2>8. CASE W[2] = CompleteId /\ Len(W) = CompleteLen
    BY <2>2, <2>5, <2>6, <2>8 DEF Parses, HeaderLen
  <2> QED
    BY <2>2, <2>7, <2>8
<1>5. FileHolds(n, full, at, j)'
  BY <1>1, <1>3, <1>4 DEF FileHolds
<1>6. Typed'
  <2>1. offset' \in 0..Len(file')
    BY <1>1 DEF Inv, Typed
  <2> QED
    BY <1>1, <2>1 DEF Inv, Typed
<1> QED
  BY <1>1, <1>2, <1>5, <1>6 DEF Inv, Filling, Parsing, Scanning

\* The reader ends where a record ends.
LEMMA ScanEndsInv ==
    ASSUME Inv, ScanEnds
    PROVE  Inv'
<1>1. /\ phase = "scan" /\ phase' = "done" /\ Rest = 0
      /\ UNCHANGED <<now, events, written, start, page, heads, pages, pos, ts, records, file, cut, offset, got>>
  BY DEF ScanEnds, kernelVars, parseVars, fileVars, scanVars
<1>2. InStep'
  BY NextInStep DEF Inv, Next
<1>3. PICK n, full, at, j : FileHolds(n, full, at, j)
  BY <1>1 DEF Inv, Scanning
<1>4. at[j] = Len(file) /\ offset = at[j]
  <2>1. offset = Len(file)
    BY <1>1 DEF Rest, Inv, Typed
  <2> QED
    BY <1>1, <1>3, <2>1 DEF FileHolds
<1>5. FileHolds(n, full, at, j)'
  BY <1>1, <1>3, <1>4 DEF FileHolds
<1>6. Typed'
  BY <1>1 DEF Inv, Typed
<1> QED
  BY <1>1, <1>2, <1>5, <1>6 DEF Inv, Filling, Parsing, Scanning

\* Every step keeps the invariant.
LEMMA NextInv == Inv /\ [Next]_vars => Inv'
<1> SUFFICES ASSUME Inv, [Next]_vars PROVE Inv'
  OBVIOUS
<1>1. ASSUME NEW e \in EventOf(events + 1), NEW dt \in Steps, Happen(e, dt) PROVE Inv'
  BY <1>1, HappenInv
<1>2. CASE Pad
  BY <1>2, PadInv
<1>3. CASE ReadPage
  BY <1>3, ReadPageInv
<1>4. CASE Leave
  BY <1>4, LeaveInv
<1>5. CASE ParseTimeStamp
  BY <1>5, ParseTimeStampInv
<1>6. CASE ParseTimeExtend
  BY <1>6, ParseTimeExtendInv
<1>7. CASE ParseLong
  BY <1>7, ParseLongInv
<1>8. CASE ParseShort
  BY <1>8, ParseShortInv
<1>9. CASE ScanRecord
  BY <1>9, ScanRecordInv
<1>10. CASE ScanFails
  BY <1>10, ScanFailsInv
<1>11. CASE ScanEnds
  BY <1>11, ScanEndsInv
<1>12. CASE UNCHANGED vars
  BY <1>12 DEF vars, kernelVars, parseVars, fileVars, scanVars, Inv, InStep, Typed, Filling, Unread,
               Parsing, AtHeader, Scanning, FileHolds
<1> QED
  BY <1>1, <1>2, <1>3, <1>4, <1>5, <1>6, <1>7, <1>8, <1>9, <1>10, <1>11, <1>12 DEF Next

\* Every variable keeps its type: times are u64, the parser's offset is on the page and
\* the reader's in the file.
THEOREM TypeCorrect == Spec => []TypeOK
<1>1. Inv => TypeOK
  BY DEF Inv, InStep, Typed, Chained, TypeOK
<1> QED
  BY <1>1, InitInv, NextInv, PTL DEF Spec

\* What the readers of the output get is what the kernel recorded, for any sizes, gaps,
\* lists and pages, and a write that was cut short never yields a wrong record.
THEOREM OutputIsRight == Spec => []RoundTrip
<1>1. Inv => RoundTrip
  <2> SUFFICES ASSUME Inv PROVE RoundTrip
    OBVIOUS
  <2>1. CASE phase \in {"fill", "parse"}
    <3>1. got = <<>> /\ Len(got) = 0
      BY <2>1 DEF Inv, Filling, Parsing, Unread
    <3>2. Len(written) \in Nat
      BY DEF Inv, Typed
    <3> QED
      BY <2>1, <3>1, <3>2 DEF RoundTrip
  <2>2. CASE phase \in {"scan", "done", "err"}
    <3>1. PICK n, full, at, j : FileHolds(n, full, at, j)
      BY <2>2 DEF Inv, Scanning
    <3>2. n \in 0..Len(written) /\ j \in 0..n /\ Len(written) \in Nat
      BY <3>1 DEF FileHolds, Inv, Typed
    <3>3. Len(got) = j /\ \A i \in 1..j : got[i] = Expected(written[i])
      <4>1. got = [i \in 1..j |-> Expected(written[i])]
        BY <3>1 DEF FileHolds
      <4> QED
        BY <3>2, <4>1
    <3>4. phase = "done" /\ ~cut => j = Len(written)
      <4> SUFFICES ASSUME phase = "done", ~cut PROVE j = Len(written)
        OBVIOUS
      <4>1. at[j] = Len(full) /\ n = Len(written) /\ LaidAt(full, written, 0, n, at)
        BY <3>1 DEF FileHolds
      <4> QED
        BY <3>2, <4>1 DEF LaidAt
    <3>5. phase = "err" => cut
      BY <3>1 DEF FileHolds
    <3> QED
      BY <3>2, <3>3, <3>4, <3>5 DEF RoundTrip
  <2> QED
    BY <2>1, <2>2 DEF Inv, Typed
<1> QED
  BY <1>1, InitInv, NextInv, PTL DEF Spec

=============================================================================
