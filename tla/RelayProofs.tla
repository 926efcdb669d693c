------------------------------ MODULE RelayProofs ------------------------------
(***************************************************************************)
(* Theorems about the data of one connection, for every length of the user *)
(* id, every amount of payload and every size of the buffers.              *)
(*                                                                         *)
(* RelayInv of RelayInvariant is inductive.  Its heart, StreamsIntact,     *)
(* rests on lemmas about concatenations: a unit that arrives makes the     *)
(* sequence longer, a read and a write only move a cut within it.          *)
(***************************************************************************)
EXTENDS RelayInvariant, SequenceTheorems, TLAPS

-----------------------------------------------------------------------------
(* Sequences.                                                                *)

LEMMA ConcatType == \A S : \A s, t \in Seq(S) : s \o t \in Seq(S) /\ Len(s \o t) = Len(s) + Len(t)
  BY ConcatProperties

LEMMA Regroup == \A S : \A s, t, u \in Seq(S) : s \o t \o u = s \o (t \o u)
  BY ConcatAssociative

\* A unit arrives after what there is.
LEMMA FlowSend ==
    ASSUME NEW S, NEW a \in Seq(S), NEW h \in Seq(S), NEW i \in Seq(S), NEW u \in S
    PROVE  a \o h \o Append(i, u) = Append(a \o h \o i, u)
<1>1. a \o h \in Seq(S) /\ a \o h \o i \in Seq(S) /\ <<u>> \in Seq(S)
  BY ConcatType
<1>2. a \o h \o (i \o <<u>>) = (a \o h \o i) \o <<u>>
  BY <1>1, Regroup, SMTT(60)
<1> QED
  BY <1>1, <1>2, AppendIsConcat

\* Both parts of a sequence that is cut.
LEMMA Cut ==
    ASSUME NEW S, NEW s \in Seq(S), NEW n \in 0..Len(s)
    PROVE  /\ SubSeq(s, 1, n) \in Seq(S) /\ Len(SubSeq(s, 1, n)) = n
           /\ SubSeq(s, n + 1, Len(s)) \in Seq(S)
           /\ Len(SubSeq(s, n + 1, Len(s))) = Len(s) - n
           /\ SubSeq(s, 1, n) \o SubSeq(s, n + 1, Len(s)) = s
<1>1. Len(s) \in Nat
  OBVIOUS
<1>2. \A j \in 1..Len(s) : s[j] \in S
  BY ElementOfSeq
<1>3. SubSeq(s, 1, n) \in Seq(S) /\ Len(SubSeq(s, 1, n)) = n
  BY <1>1, <1>2, SubSeqProperties
<1>4. /\ SubSeq(s, n + 1, Len(s)) \in Seq(S)
      /\ Len(SubSeq(s, n + 1, Len(s))) = Len(s) - n
  BY <1>1, <1>2, SubSeqProperties
<1>5. SubSeq(s, 1, n) \o SubSeq(s, n + 1, Len(s)) = SubSeq(s, 1, Len(s))
  <2>1. /\ 1 \in 1..Len(s) + 1 /\ n \in 1 - 1..Len(s) /\ Len(s) \in n..Len(s)
    BY <1>1
  <2> QED
    BY <2>1, ConcatAdjacentSubSeq
<1> QED
  BY <1>3, <1>4, <1>5, SubSeqFull

\* A read moves the first units of those that wait to a hand that is empty.
LEMMA FlowRead ==
    ASSUME NEW S, NEW a \in Seq(S), NEW i \in Seq(S), NEW n \in 0..Len(i)
    PROVE  a \o SubSeq(i, 1, n) \o SubSeq(i, n + 1, Len(i)) = a \o <<>> \o i
<1> DEFINE x == SubSeq(i, 1, n)  y == SubSeq(i, n + 1, Len(i))
<1>1. x \in Seq(S) /\ y \in Seq(S) /\ x \o y = i
  BY Cut
<1>2. a \o x \o y = a \o i
  <2> HIDE DEF x, y
  <2>1. \A s, t, u \in Seq(S) : s \o t \o u = s \o (t \o u)
    BY Regroup, SMTT(60)
  <2>2. a \o x \o y = a \o (x \o y)
    BY <1>1, <2>1, ZenonT(40)
  <2> QED
    BY <1>1, <2>2
<1> QED
  BY <1>2, ConcatEmptySeq

\* A part of a sequence grows at its end.
LEMMA SubSeqGrows ==
    ASSUME NEW S, NEW s \in Seq(S), NEW m \in Nat \ {0}, NEW n \in Nat,
           m - 1 <= n, n < Len(s)
    PROVE  /\ SubSeq(s, m, n) \in Seq(S)
           /\ Append(SubSeq(s, m, n), s[n + 1]) = SubSeq(s, m, n + 1)
<1>1. Len(s) \in Nat /\ \A j \in 1..Len(s) : s[j] \in S
  BY ElementOfSeq
<1>2. SubSeq(s, m, n) \in Seq(S)
  BY <1>1, SubSeqProperties
<1>3. SubSeq(s, m, n + 1) = SubSeq(s, m, n + 1 - 1) \o <<s[n + 1]>>
  BY <1>1, SubSeqRecursiveSecond
<1>4. n + 1 - 1 = n
  OBVIOUS
<1> QED
  BY <1>1, <1>2, <1>3, <1>4, AppendIsConcat

\* What is followed by something to make a beginning of u is itself one.
LEMMA PrefixOf ==
    ASSUME NEW S, NEW s \in Seq(S), NEW t \in Seq(S), NEW u \in Seq(S), NEW n \in 0..Len(u),
           s \o t = SubSeq(u, 1, n)
    PROVE  IsPrefix(s, u)
<1>1. Len(s) \in Nat /\ Len(t) \in Nat /\ Len(u) \in Nat
  OBVIOUS
<1>2. Len(s) + Len(t) = n
  BY Cut, ConcatType
<1>3. \A j \in 1..Len(s) : s[j] = u[j]
  <2> SUFFICES ASSUME NEW j \in 1..Len(s) PROVE s[j] = u[j]
    OBVIOUS
  <2>1. (s \o t)[j] = s[j]
    BY <1>1, ConcatProperties
  <2>2. \A k \in 1..Len(u) : u[k] \in S
    BY ElementOfSeq
  <2>3. SubSeq(u, 1, n)[j] = u[j]
    BY <1>1, <1>2, <2>2, SubSeqProperties
  <2> QED
    BY <2>1, <2>3
<1>4. SubSeq(s, 1, Len(s)) = s
  BY SubSeqFull
<1>5. /\ SubSeq(u, 1, Len(s)) \in Seq(S) /\ Len(SubSeq(u, 1, Len(s))) = Len(s)
      /\ \A j \in 1..Len(s) : SubSeq(u, 1, Len(s))[j] = u[j]
  <2>1. \A k \in 1..Len(u) : u[k] \in S
    BY ElementOfSeq
  <2> QED
    BY <1>1, <1>2, <2>1, SubSeqProperties
<1>6. s = SubSeq(u, 1, Len(s))
  BY <1>1, <1>3, <1>5, SeqEqual
<1> QED
  BY <1>1, <1>2, <1>4, <1>6 DEF IsPrefix

-----------------------------------------------------------------------------
(* What the peers mean to send.                                              *)

LEMMA OtherSide == Other("host") = "remote" /\ Other("remote") = "host"
  BY DEF Other, Sides

LEMMA FunctionSeq ==
    ASSUME NEW S, NEW n \in Nat, NEW f \in [1..n -> S]
    PROVE  f \in Seq(S) /\ Len(f) = n
<1>1. f \in Seq(S)
  BY SeqDef
<1>2. Len(f) \in Nat /\ 1..Len(f) = 1..n
  BY <1>1, LenProperties
<1> QED
  BY <1>1, <1>2

LEMMA DataFacts ==
    \A side \in Sides : Data(side) \in Seq(Unit) /\ Len(Data(side)) = MaxData
<1> SUFFICES ASSUME NEW side \in Sides
             PROVE  Data(side) \in Seq(Unit) /\ Len(Data(side)) = MaxData
  OBVIOUS
<1>1. Data(side) \in [1..MaxData -> Unit]
  BY RelayAssumption DEF Data, Sides, Unit
<1> QED
  BY <1>1, RelayAssumption, FunctionSeq

\* A header ends with the terminator, which it has only there.
LEMMA HeaderFacts ==
    ASSUME NEW n \in Nat
    PROVE  /\ Header(n) \in Seq(Unit) /\ Len(Header(n)) = n + 2
           /\ \A i \in 1..n + 2 : Header(n)[i] = Nul <=> i = n + 2
<1> DEFINE r == <<<<"request", 0>>>>  d == [i \in 1..n |-> <<"id", i>>]  z == <<Nul>>
<1>1. r \in Seq(Unit) /\ Len(r) = 1 /\ r[1] # Nul
  BY DEF Unit, Nul
<1>2. d \in Seq(Unit) /\ Len(d) = n
  <2>1. d \in [1..n -> Unit]
    BY DEF Unit
  <2> QED
    BY <2>1, FunctionSeq
<1>3. \A i \in 1..n : d[i] # Nul
  BY DEF Nul
<1>4. z \in Seq(Unit) /\ Len(z) = 1 /\ z[1] = Nul
  BY DEF Unit, Nul
<1> HIDE DEF r, d, z
<1>5. /\ r \o d \in Seq(Unit) /\ Len(r \o d) = 1 + n
      /\ \A i \in 1..1 + n : (r \o d)[i] = IF i <= 1 THEN r[i] ELSE d[i - 1]
  BY <1>1, <1>2, ConcatProperties, SMTT(30)
<1> DEFINE rd == r \o d  h == rd \o z
<1>6. h \in Seq(Unit) /\ Len(h) = n + 2 /\ \A i \in 1..n + 2 :
            h[i] = IF i <= n + 1 THEN rd[i] ELSE z[i - (n + 1)]
  <2>1. rd \in Seq(Unit) /\ Len(rd) = n + 1
    BY <1>5
  <2> HIDE DEF rd
  <2>2. /\ h \in Seq(Unit) /\ Len(h) = Len(rd) + Len(z)
        /\ \A i \in 1..Len(rd) + Len(z) :
              h[i] = IF i <= Len(rd) THEN rd[i] ELSE z[i - Len(rd)]
    BY <1>4, <2>1, ConcatProperties
  <2>3. Len(rd) + Len(z) = n + 2
    BY <1>4, <2>1
  <2> HIDE DEF h
  <2> QED
    BY <2>1, <2>2, <2>3
<1>7. Header(n) = r \o d \o z
  BY DEF Header, r, d, z
<1>8. \A i \in 1..1 + n : rd[i] = IF i <= 1 THEN r[i] ELSE d[i - 1]
  BY <1>5
<1>9. ASSUME NEW i \in 1..n + 2 PROVE h[i] = Nul <=> i = n + 2
  <2> HIDE DEF rd, h
  <2>1. CASE i = 1
    <3>1. i <= n + 1 /\ i \in 1..1 + n /\ i # n + 2
      BY <2>1
    <3>2. h[i] = rd[i]
      BY <3>1, <1>6
    <3>3. rd[1] = r[1]
      BY <3>1, <2>1, <1>8
    <3> QED
      BY <2>1, <3>1, <3>2, <3>3, <1>1
  <2>2. CASE i \in 2..n + 1
    <3>1. i <= n + 1 /\ i \in 1..1 + n /\ i # n + 2 /\ ~(i <= 1) /\ i - 1 \in 1..n
      BY <2>2
    <3>2. h[i] = rd[i]
      BY <3>1, <1>6
    <3>3. rd[i] = d[i - 1]
      BY <3>1, <1>8
    <3>4. d[i - 1] # Nul
      BY <3>1, <1>3
    <3> QED
      BY <3>1, <3>2, <3>3, <3>4
  <2>3. CASE i = n + 2
    <3>1. ~(i <= n + 1) /\ i - (n + 1) = 1
      BY <2>3
    <3> QED
      BY <2>3, <3>1, <1>4, <1>6
  <2> QED
    BY <2>1, <2>2, <2>3
<1> QED
  BY <1>6, <1>7, <1>9

\* The script of the client: its terminator, and its payload after it.
LEMMA ScriptFacts ==
    ASSUME ScriptKnown
    PROVE  /\ script["host"] \in Seq(Unit) /\ script["remote"] \in Seq(Unit)
           /\ Len(script["host"]) \in Nat /\ HeaderLength \in Nat /\ HeaderLength >= 2
           /\ Len(script["host"]) = HeaderLength + MaxData
           /\ \A i \in 1..HeaderLength : script["host"][i] = Nul <=> i = HeaderLength
           /\ \A i \in 1..MaxData : script["host"][HeaderLength + i] = Data("host")[i]
<1>1. PICK n \in 0..MaxId : script["host"] = Header(n) \o Data("host")
  BY DEF ScriptKnown
<1> DEFINE h == Header(n)  d == Data("host")  s == script["host"]
<1>2. n \in Nat /\ MaxData \in Nat
  BY RelayAssumption
<1>3. d \in Seq(Unit) /\ Len(d) = MaxData
  BY DataFacts DEF Sides
<1>4. h \in Seq(Unit) /\ Len(h) = n + 2 /\ \A i \in 1..n + 2 : h[i] = Nul <=> i = n + 2
  BY <1>2, HeaderFacts
<1>5. s = h \o d
  BY <1>1
<1>6. script["remote"] \in Seq(Unit)
  BY DataFacts DEF ScriptKnown, Sides
<1>7. HeaderLength = Len(s) - MaxData
  BY DEF HeaderLength
<1> HIDE DEF h, d, s
<1>8. /\ s \in Seq(Unit) /\ Len(s) = Len(h) + Len(d)
      /\ \A i \in 1..Len(h) + Len(d) :
            s[i] = IF i <= Len(h) THEN h[i] ELSE d[i - Len(h)]
  BY <1>3, <1>4, <1>5, ConcatProperties
<1>9. Len(s) = n + 2 + MaxData /\ HeaderLength = n + 2
  BY <1>2, <1>3, <1>4, <1>7, <1>8
<1>10. \A i \in 1..MaxData : s[HeaderLength + i] = d[i]
  <2> SUFFICES ASSUME NEW i \in 1..MaxData PROVE s[HeaderLength + i] = d[i]
    OBVIOUS
  <2>1. /\ n + 2 + i \in 1..n + 2 + MaxData /\ ~(n + 2 + i <= n + 2)
        /\ n + 2 + i - (n + 2) = i
    BY <1>2
  <2> QED
    BY <2>1, <1>3, <1>4, <1>8, <1>9
<1>11. \A i \in 1..HeaderLength : s[i] = Nul <=> i = HeaderLength
  <2> SUFFICES ASSUME NEW i \in 1..n + 2 PROVE s[i] = h[i]
    BY <1>4, <1>9
  <2>1. i \in 1..n + 2 + MaxData /\ i <= n + 2
    BY <1>2
  <2> QED
    BY <2>1, <1>3, <1>4, <1>8
<1> QED
  BY <1>2, <1>6, <1>8, <1>9, <1>10, <1>11 DEF s, d

-----------------------------------------------------------------------------
(* RelayInv holds at first, and each step keeps it.                          *)

LEMMA PairFunction ==
    ASSUME NEW S, NEW a \in S, NEW b \in S
    PROVE  /\ [host |-> a, remote |-> b] \in [Sides -> S]
           /\ [host |-> a, remote |-> b]["host"] = a
           /\ [host |-> a, remote |-> b]["remote"] = b
  BY DEF Sides

LEMMA InitRelay == Init => RelayInv
<1> SUFFICES ASSUME Init PROVE RelayInv
  OBVIOUS
<1>1. PICK n \in 0..MaxId :
         script = [host |-> Header(n) \o Data("host"), remote |-> Data("remote")]
  BY DEF Init
<1>2. n \in Nat
  BY RelayAssumption
<1>3. Header(n) \o Data("host") \in Seq(Unit) /\ Data("remote") \in Seq(Unit)
  BY <1>2, HeaderFacts, DataFacts, ConcatType DEF Sides
<1> DEFINE s == Header(n) \o Data("host")  d == Data("remote")
<1>4. /\ script \in [Sides -> Seq(Unit)]
      /\ script["host"] = s /\ script["remote"] = d
  <2>1. script = [host |-> s, remote |-> d] /\ s \in Seq(Unit) /\ d \in Seq(Unit)
    BY <1>1, <1>3
  <2> HIDE DEF s, d
  <2> QED
    BY <2>1, PairFunction
<1>5. ScriptKnown
  BY <1>4 DEF ScriptKnown
<1>6. /\ HeaderLength \in Nat /\ Len(script["host"]) \in Nat /\ Len(script["remote"]) \in Nat
  BY <1>4, <1>5, ScriptFacts, LenProperties
<1>7. /\ pc \in [Sides -> Places] /\ pc["host"] = "request" /\ pc["remote"] = "none"
      /\ up \in [Sides -> BOOLEAN]
  <2>1. "request" \in Places /\ "none" \in Places /\ TRUE \in BOOLEAN /\ FALSE \in BOOLEAN
    BY DEF Places
  <2> QED
    BY <2>1, PairFunction DEF Init
<1> HIDE DEF s, d
<1>8. VariablesOK
  <2>1. <<>> \in Seq(Unit)
    BY EmptySeq
  <2>2. in \in [Sides -> Seq(Unit)] /\ got \in [Sides -> Seq(Unit)] /\ hand \in [Sides -> Seq(Unit)]
    BY <2>1 DEF Init
  <2> QED
    BY <2>1, <2>2, <1>4, <1>7 DEF VariablesOK, Init
<1>9. SubSeq(script["host"], 1, 0) = <<>> /\ SubSeq(script["remote"], 1, 0) = <<>>
  BY SubSeqEmpty
<1>10. RelayTypeOK /\ BeforeRemote /\ ThreadsHold
  BY <1>6, <1>7, RelayAssumption DEF RelayTypeOK, BeforeRemote, ThreadsHold, Init, Sides
<1>11. BeforeUserId
  BY <1>7, <1>9 DEF BeforeUserId, Init, Sides
<1>12. UserIdAlone
  BY <1>6 DEF UserIdAlone, Init, Sides
<1>13. StreamsIntact
  BY <1>9 DEF StreamsIntact, AfterReply, Init, Sides
<1> QED
  BY <1>5, <1>8, <1>10, <1>11, <1>12, <1>13 DEF RelayInv

\* A unit arrives: it joins those that wait, and what was sent grows by it.
LEMMA SendsKeeps ==
    ASSUME RelayInv, NEW side \in Sides, Sends(side)
    PROVE  RelayInv'
<1> DEFINE unit == script[side][sent[side] + 1]
<1>1. /\ up[side] /\ ~ended[side] /\ sent[side] < Len(script[side])
      /\ ~Awaits(side, unit)
      /\ in' = [in EXCEPT ![side] = Append(@, unit)]
      /\ sent' = [sent EXCEPT ![side] = @ + 1]
      /\ UNCHANGED <<script, ended, eager, got, hand, pc, up, closing, dropped, whole>>
  BY DEF Sends, history
<1>2. VariablesOK /\ ScriptKnown /\ RelayTypeOK /\ BeforeUserId /\ ThreadsHold /\ StreamsIntact
  BY DEF RelayInv
<1>3. /\ sent[side] \in Nat /\ Len(script[side]) \in Nat /\ script[side] \in Seq(Unit)
      /\ in[side] \in Seq(Unit)
  BY <1>2, LenProperties DEF VariablesOK
<1>4. unit \in Unit
  BY <1>1, <1>3, ElementOfSeq
<1> HIDE DEF unit
<1>5. Append(in[side], unit) \in Seq(Unit)
  BY <1>3, <1>4, AppendProperties
<1>6. /\ in' \in [Sides -> Seq(Unit)] /\ in'[side] = Append(in[side], unit)
      /\ \A other \in Sides \ {side} : in'[other] = in[other]
      /\ sent' \in [Sides -> Nat] /\ sent'[side] = sent[side] + 1
      /\ \A other \in Sides \ {side} : sent'[other] = sent[other]
  BY <1>1, <1>2, <1>3, <1>5 DEF VariablesOK
<1>7. VariablesOK' /\ ScriptKnown'
  BY <1>1, <1>2, <1>6 DEF VariablesOK, ScriptKnown
<1>8. RelayTypeOK'
  BY <1>1, <1>2, <1>3, <1>6 DEF RelayTypeOK
<1>9. BeforeRemote'
  BY <1>1 DEF RelayInv, BeforeRemote
<1>10. ThreadsHold'
  BY <1>1, <1>2, <1>6 DEF ThreadsHold
<1>11. ASSUME NEW m \in Nat \ {0}, m - 1 <= sent[side]
       PROVE  Append(SubSeq(script[side], m, sent[side]), unit)
                 = SubSeq(script[side], m, sent[side] + 1)
  BY <1>1, <1>3, <1>11, SubSeqGrows DEF unit
<1>12. BeforeUserId'
  <2>1. CASE side = "remote"
    BY <2>1, <1>1, <1>2, <1>6 DEF BeforeUserId, Sides
  <2>2. CASE side = "host"
    <3>1. CASE pc["host"] = "request"
      BY <3>1, <2>2, <1>1, <1>2, <1>3, <1>6, <1>11 DEF BeforeUserId
    <3>2. CASE pc["host"] = "userid"
      BY <3>2, <2>2, <1>1, <1>2, <1>3, <1>6, <1>11, SMTT(30) DEF BeforeUserId
    <3>3. CASE pc["host"] \notin {"request", "userid"}
      BY <3>3, <1>1, <1>2 DEF BeforeUserId
    <3> QED
      BY <3>1, <3>2, <3>3
  <2> QED
    BY <2>1, <2>2 DEF Sides
<1>13. UserIdAlone'
  <2> SUFFICES ASSUME ~eager PROVE UserIdAlone'
    BY <1>1 DEF UserIdAlone
  <2>1. UserIdAlone /\ HeaderLength' = HeaderLength
    BY <1>1 DEF RelayInv, HeaderLength
  <2>2. CASE side = "remote"
    BY <2>1, <2>2, <1>1, <1>6 DEF UserIdAlone, Sides
  <2>3. CASE side = "host" /\ got["host"] = <<>>
    <3>1. HeaderLength \in Nat /\ Len(script["host"]) = HeaderLength + MaxData
      BY <1>2, ScriptFacts
    <3>2. sent["host"] <= HeaderLength
      BY <2>1, <2>3 DEF UserIdAlone
    <3>3. sent["host"] # HeaderLength
      <4> SUFFICES ASSUME sent["host"] = HeaderLength PROVE FALSE
        OBVIOUS
      <4>1. 1 \in 1..MaxData
        BY <2>3, <3>1, <1>1, <1>3, RelayAssumption
      <4>2. unit = Data("host")[1]
        BY <4>1, <2>3, <1>2, ScriptFacts DEF unit
      <4>3. 1 \in DOMAIN Data("host")
        BY <4>1 DEF Data
      <4> QED
        BY <4>2, <4>3, <1>1, <2>3 DEF Awaits, ToSet
    <3> QED
      BY <3>1, <3>2, <3>3, <2>1, <2>3, <1>1, <1>3, <1>6 DEF UserIdAlone
  <2>4. CASE got["host"] # <<>>
    BY <2>1, <2>4, <1>1 DEF UserIdAlone
  <2> QED
    BY <2>2, <2>3, <2>4 DEF Sides
<1>14. StreamsIntact'
  <2> DEFINE read == dropped \o got["remote"]
  <2>1. got["remote"] \in Seq(Unit) /\ got["host"] \in Seq(Unit) /\ dropped \in Seq(Unit)
    BY <1>2 DEF VariablesOK, Sides
  <2>2. read \in Seq(Unit) /\ AfterReply \in Seq(Unit)
    BY <2>1, ConcatType, HeadTailProperties, EmptySeq DEF AfterReply
  <2>6. /\ hand["host"] \in Seq(Unit) /\ in["host"] \in Seq(Unit)
        /\ hand["remote"] \in Seq(Unit) /\ in["remote"] \in Seq(Unit)
    BY <1>2 DEF VariablesOK, Sides
  <2>7. \A a, h, i \in Seq(Unit) : a \o h \o Append(i, unit) = Append(a \o h \o i, unit)
    BY <1>4, FlowSend
  <2>3. AfterReply' = AfterReply /\ read' = read
    BY <1>1 DEF AfterReply
  <2>4. ASSUME dropped # <<>>
        PROVE  dropped' \o got'["remote"] \o hand'["host"] \o in'["host"]
                  = SubSeq(script'["host"], 2, sent'["host"])
    <3>1. read \o hand["host"] \o in["host"] = SubSeq(script["host"], 2, sent["host"])
      BY <2>4, <1>2 DEF StreamsIntact
    <3>2. CASE side = "remote"
      BY <3>1, <3>2, <1>1, <1>6 DEF Sides
    <3>3. CASE side = "host"
      <4> HIDE DEF read
      <4>1. read \o hand["host"] \o Append(in["host"], unit)
               = Append(read \o hand["host"] \o in["host"], unit)
        BY <2>2, <2>6, <2>7
      <4>2. sent["host"] >= 1
        <5> SUFFICES ASSUME sent["host"] = 0 PROVE FALSE
          BY <3>3, <1>3
        <5>1. read \o hand["host"] \o in["host"] = <<>>
          BY <3>1, SubSeqEmpty
        <5>7. read \o hand["host"] \in Seq(Unit)
          BY <2>2, <2>6, ConcatType
        <5>8. Len(read \o hand["host"]) = Len(read) + Len(hand["host"])
          BY <2>2, <2>6, ConcatType
        <5>2. Len(read \o hand["host"] \o in["host"])
                 = Len(read) + Len(hand["host"]) + Len(in["host"])
          BY <5>7, <5>8, <2>6, ConcatType
        <5>3. Len(read) = Len(dropped) + Len(got["remote"])
          BY <2>1, ConcatType DEF read
        <5>4. Len(dropped) # 0 /\ Len(dropped) \in Nat /\ Len(got["remote"]) \in Nat
          BY <2>1, <2>4, EmptySeq, LenProperties
        <5>5. Len(hand["host"]) \in Nat /\ Len(in["host"]) \in Nat
          BY <2>6, LenProperties
        <5>6. Len(read \o hand["host"] \o in["host"]) = 0
          BY <5>1, EmptySeq
        <5>9. Len(dropped) + Len(got["remote"]) + Len(hand["host"]) + Len(in["host"]) = 0
          BY <5>2, <5>3, <5>6
        <5>10. \A k, l, m, n \in Nat : k + l + m + n = 0 => k = 0
          OBVIOUS
        <5> QED
          BY <5>4, <5>5, <5>9, <5>10
      <4>4. Append(SubSeq(script["host"], 2, sent["host"]), unit)
               = SubSeq(script["host"], 2, sent["host"] + 1)
        <5>1. 2 \in Nat \ {0} /\ 2 - 1 <= sent["host"]
          BY <4>2, <3>3, <1>3
        <5> QED
          BY <5>1, <3>3, <1>11
      <4>3. read \o hand["host"] \o in'["host"] = SubSeq(script["host"], 2, sent["host"] + 1)
        BY <4>1, <4>4, <3>1, <3>3, <1>6
      <4> QED
        BY <4>3, <3>3, <1>1, <1>6 DEF read
    <3> QED
      BY <3>2, <3>3 DEF Sides
  <2>5. AfterReply' \o hand'["remote"] \o in'["remote"]
           = SubSeq(script'["remote"], 1, sent'["remote"])
    <3>1. AfterReply \o hand["remote"] \o in["remote"]
             = SubSeq(script["remote"], 1, sent["remote"])
      BY <1>2 DEF StreamsIntact
    <3> HIDE DEF read
    <3>2. CASE side = "host"
      BY <3>1, <3>2, <2>3, <1>1, <1>6 DEF Sides
    <3>3. CASE side = "remote"
      <4>1. AfterReply \o hand["remote"] \o Append(in["remote"], unit)
               = Append(AfterReply \o hand["remote"] \o in["remote"], unit)
        BY <2>2, <2>6, <2>7
      <4>2. Append(SubSeq(script["remote"], 1, sent["remote"]), unit)
               = SubSeq(script["remote"], 1, sent["remote"] + 1)
        BY <3>3, <1>3, <1>11
      <4> QED
        BY <4>1, <4>2, <3>1, <3>3, <2>3, <1>1, <1>6
    <3> QED
      BY <3>2, <3>3 DEF Sides
  <2> QED
    BY <2>4, <2>5, <1>1 DEF StreamsIntact
<1> QED
  BY <1>7, <1>8, <1>9, <1>10, <1>12, <1>13, <1>14 DEF RelayInv

\* A step that moves no unit leaves the flows and the header alone.
LEMMA StillFlows ==
    ASSUME RelayInv,
           UNCHANGED <<script, sent, eager, in, got, hand, dropped, whole>>,
           ended' \in [Sides -> BOOLEAN], pc' \in [Sides -> Places],
           up' \in [Sides -> BOOLEAN], closing' \in BOOLEAN
    PROVE  VariablesOK' /\ ScriptKnown' /\ UserIdAlone' /\ StreamsIntact'
<1>1. VariablesOK'
  BY DEF RelayInv, VariablesOK
<1>2. ScriptKnown'
  BY DEF RelayInv, ScriptKnown
<1>3. UserIdAlone'
  BY DEF RelayInv, UserIdAlone, HeaderLength
<1>4. StreamsIntact'
  BY DEF RelayInv, StreamsIntact, AfterReply
<1> QED
  BY <1>1, <1>2, <1>3, <1>4

\* A peer ends.
LEMMA EndsKeeps ==
    ASSUME RelayInv, NEW side \in Sides, Ends(side)
    PROVE  RelayInv'
<1>1. VariablesOK' /\ ScriptKnown' /\ UserIdAlone' /\ StreamsIntact'
  <2>1. ended' \in [Sides -> BOOLEAN]
    BY DEF Ends, RelayInv, VariablesOK
  <2> QED
    BY <2>1, StillFlows DEF Ends, history, RelayInv, VariablesOK
<1>2. RelayTypeOK' /\ BeforeUserId' /\ BeforeRemote'
  BY DEF Ends, history, RelayInv, RelayTypeOK, BeforeUserId, BeforeRemote
<1>3. ThreadsHold'
  BY DEF Ends, history, RelayInv, VariablesOK, ThreadsHold
<1> QED
  BY <1>1, <1>2, <1>3 DEF RelayInv

\* A step of handshake() that moves no unit.
LEMMA GoesOn ==
    ASSUME RelayInv, NEW step \in Places, Goto("host", step), up' \in [Sides -> BOOLEAN],
           UNCHANGED <<peers, in, got, hand, closing, history>>,
           \/ pc["host"] = "connect" /\ step \in {"reply", "refuse"}
           \/ /\ pc["host"] \in {"request", "userid", "connect", "refuse", "reply", "spawn"}
              /\ step = "thrown"
    PROVE  RelayInv'
<1>1. /\ pc' \in [Sides -> Places] /\ pc'["host"] = step /\ pc'["remote"] = pc["remote"]
      /\ VariablesOK
  BY DEF Goto, RelayInv, VariablesOK, Sides
<1>2. VariablesOK' /\ ScriptKnown' /\ UserIdAlone' /\ StreamsIntact'
  BY <1>1, StillFlows DEF peers, history, VariablesOK
<1>3. RelayTypeOK' /\ BeforeRemote' /\ ThreadsHold'
  BY <1>1 DEF RelayInv, peers, history, RelayTypeOK, BeforeRemote, ThreadsHold, Sides
<1>4. BeforeUserId'
  BY <1>1 DEF RelayInv, peers, history, BeforeUserId
<1> QED
  BY <1>1, <1>2, <1>3, <1>4 DEF RelayInv

LEMMA ConnectKeeps == ASSUME RelayInv, Connect PROVE RelayInv'
<1>1. up' \in [Sides -> BOOLEAN]
  BY DEF Connect, RelayInv, VariablesOK
<1>2. PICK step \in {"reply", "refuse"} : Goto("host", step)
  BY DEF Connect
<1>3. step \in Places
  BY DEF Places
<1> QED
  BY <1>1, <1>2, <1>3, GoesOn DEF Connect

LEMMA ThrowsKeeps == ASSUME RelayInv, Throws PROVE RelayInv'
<1>1. up' \in [Sides -> BOOLEAN] /\ "thrown" \in Places
  BY DEF Throws, RelayInv, VariablesOK, Places
<1> QED
  BY <1>1, GoesOn DEF Throws

\* The remote thread starts when the client has its reply and nothing else.
LEMMA SpawnKeeps == ASSUME RelayInv, Spawn PROVE RelayInv'
<1>1. /\ pc' \in [Sides -> Places] /\ pc'["host"] = "read" /\ pc'["remote"] = "read"
  <2>1. "read" \in Places
    BY DEF Places
  <2> QED
    BY <2>1, PairFunction DEF Spawn
<1>2. VariablesOK' /\ ScriptKnown' /\ UserIdAlone' /\ StreamsIntact'
  BY <1>1, StillFlows DEF Spawn, peers, history, RelayInv, VariablesOK
<1>3. BeforeUserId'
  BY <1>1 DEF RelayInv, Spawn, peers, history, BeforeUserId
<1>4. got["host"] = <<<<"success", 0>>>> /\ got' = got /\ hand' = hand /\ pc["remote"] = "none"
  BY DEF RelayInv, Spawn, BeforeRemote
<1>5. BeforeRemote'
  BY <1>1, <1>4 DEF BeforeRemote
<1>6. RelayTypeOK' /\ ThreadsHold'
  BY <1>1, <1>4 DEF RelayInv, Spawn, peers, history, RelayTypeOK, ThreadsHold, Sides
<1> QED
  BY <1>2, <1>3, <1>5, <1>6 DEF RelayInv

\* The destructor moves no unit either: what is on its way stays where it is.
LEMMA ClosesKeeps == ASSUME RelayInv, Closes PROVE RelayInv'
<1>1. /\ UNCHANGED <<peers, in, got, hand, pc, history>>
      /\ up' \in [Sides -> BOOLEAN] /\ closing' \in BOOLEAN
      /\ \A side \in Sides : ~up[side] => ~up'[side]
  BY DEF Closes, CloseRemote, CloseHost, RelayInv, VariablesOK, Sides
<1>2. VariablesOK' /\ ScriptKnown' /\ UserIdAlone' /\ StreamsIntact'
  BY <1>1, StillFlows DEF peers, history, RelayInv, VariablesOK
<1>3. RelayTypeOK' /\ BeforeUserId' /\ BeforeRemote' /\ ThreadsHold'
  BY <1>1 DEF RelayInv, peers, history, RelayTypeOK, BeforeUserId, BeforeRemote, ThreadsHold
<1> QED
  BY <1>2, <1>3 DEF RelayInv

\* The request is the first unit of the script.
LEMMA ReadRequestKeeps == ASSUME RelayInv, ReadRequest PROVE RelayInv'
<1> DEFINE s == script["host"]  n == sent["host"]
<1>1. /\ VariablesOK /\ RelayTypeOK /\ pc["host"] = "request" /\ in["host"] # <<>>
      /\ in["host"] = SubSeq(s, 1, n) /\ dropped = <<>>
      /\ hand["host"] = <<>> /\ got["remote"] = <<>> /\ ~whole
  BY DEF RelayInv, ReadRequest, BeforeUserId
<1>2. s \in Seq(Unit) /\ n \in 0..Len(s) /\ Len(s) \in Nat /\ in["host"] \in Seq(Unit)
  BY <1>1, LenProperties DEF VariablesOK, RelayTypeOK, Sides
<1>3. n >= 1
  <2> SUFFICES ASSUME n = 0 PROVE FALSE
    BY <1>2
  <2> QED
    BY <1>1, SubSeqEmpty
<1>4. Tail(in["host"]) = SubSeq(s, 2, n)
  <2>1. 1 \in 1..Len(s) /\ n \in 1..Len(s) /\ 1 + 1 = 2
    BY <1>2, <1>3
  <2> HIDE DEF s, n
  <2> QED
    BY <2>1, <1>1, <1>2, HeadTailOfSubSeq
<1>5. Tail(in["host"]) \in Seq(Unit)
  BY <1>1, <1>2, HeadTailProperties
<1>6. /\ in' \in [Sides -> Seq(Unit)] /\ in'["host"] = SubSeq(s, 2, n)
      /\ in'["remote"] = in["remote"]
      /\ pc' \in [Sides -> Places] /\ pc'["host"] = "userid" /\ pc'["remote"] = pc["remote"]
      /\ UNCHANGED <<script, sent, ended, eager, got, hand, up, closing, dropped, whole>>
  BY <1>1, <1>4, <1>5 DEF ReadRequest, Goto, VariablesOK, Sides, Places, peers, history
<1> HIDE DEF s, n
<1>7. VariablesOK' /\ ScriptKnown'
  BY <1>1, <1>6 DEF RelayInv, VariablesOK, ScriptKnown
<1>8. RelayTypeOK' /\ BeforeRemote' /\ ThreadsHold'
  BY <1>1, <1>6 DEF RelayInv, RelayTypeOK, BeforeRemote, ThreadsHold, Sides
<1>9. BeforeUserId'
  BY <1>1, <1>3, <1>6 DEF BeforeUserId, s, n
<1>10. UserIdAlone'
  BY <1>6 DEF RelayInv, UserIdAlone, HeaderLength
<1>11. StreamsIntact'
  BY <1>1, <1>6 DEF RelayInv, StreamsIntact, AfterReply
<1> QED
  BY <1>7, <1>8, <1>9, <1>10, <1>11 DEF RelayInv

\* One read takes what fits the buffer, and something if anything waits.
LEMMA ArrivedFacts ==
    ASSUME VariablesOK, NEW side \in Sides, NEW most \in Nat \ {0}
    PROVE  \E k \in 0..Len(in[side]) :
              /\ Arrived(side, most) = SubSeq(in[side], 1, k)
              /\ Arrived(side, most) \in Seq(Unit) /\ Len(Arrived(side, most)) = k
              /\ SubSeq(in[side], k + 1, Len(in[side])) \in Seq(Unit)
              /\ k <= most
              /\ in[side] # <<>> => k >= 1
<1> DEFINE i == in[side]  k == IF Len(i) < most THEN Len(i) ELSE most
<1>1. i \in Seq(Unit)
  BY DEF VariablesOK
<1>2. Len(i) \in Nat /\ (i # <<>> => Len(i) >= 1)
  BY <1>1, EmptySeq, LenProperties
<1>3. k \in 0..Len(i) /\ k <= most /\ (i # <<>> => k >= 1)
  BY <1>2
<1>4. Arrived(side, most) = SubSeq(i, 1, k)
  BY DEF Arrived
<1> HIDE DEF i, k
<1>5. /\ SubSeq(i, 1, k) \in Seq(Unit) /\ Len(SubSeq(i, 1, k)) = k
      /\ SubSeq(i, k + 1, Len(i)) \in Seq(Unit)
  BY <1>1, <1>3, Cut
<1> QED
  BY <1>3, <1>4, <1>5 DEF i

\* The user id is what comes first after the request: if the client waits and the
\* terminator is among it, all of the header and nothing else.
LEMMA ReadUserIdKeeps == ASSUME RelayInv, ReadUserId PROVE RelayInv'
<1> DEFINE s == script["host"]  n == sent["host"]  i == in["host"]  d == Arrived("host", MaxFirst)
<1>1. /\ VariablesOK /\ RelayTypeOK /\ ScriptKnown /\ UserIdAlone
      /\ pc["host"] = "userid" /\ i # <<>> /\ i = SubSeq(s, 2, n) /\ n >= 1
      /\ hand["host"] = <<>> /\ got["remote"] = <<>> /\ got["host"] = <<>>
      /\ pc["remote"] = "none"
  BY DEF RelayInv, ReadUserId, BeforeUserId, BeforeRemote
<1>2. s \in Seq(Unit) /\ n \in 0..Len(s) /\ Len(s) \in Nat /\ i \in Seq(Unit)
  BY <1>1, LenProperties DEF VariablesOK, RelayTypeOK, Sides
<1>3. PICK k \in 0..Len(i) :
         /\ d = SubSeq(i, 1, k) /\ d \in Seq(Unit) /\ Len(d) = k
         /\ SubSeq(i, k + 1, Len(i)) \in Seq(Unit) /\ k <= MaxFirst /\ k >= 1
  BY <1>1, ArrivedFacts, RelayAssumption DEF Sides
<1>4. /\ dropped' = d /\ whole' = (Nul \in ToSet(d)) /\ d # <<>>
      /\ in' = [in EXCEPT !["host"] = SubSeq(@, k + 1, Len(@))]
      /\ pc' = [pc EXCEPT !["host"] = "connect"]
      /\ UNCHANGED <<script, sent, ended, eager, got, hand, up, closing>>
  <2>1. d # <<>>
    BY <1>3, EmptySeq
  <2> QED
    BY <2>1, <1>3 DEF ReadUserId, Goto, peers
<1>5. /\ in' \in [Sides -> Seq(Unit)] /\ in'["host"] = SubSeq(i, k + 1, Len(i))
      /\ in'["remote"] = in["remote"]
      /\ pc' \in [Sides -> Places] /\ pc'["host"] = "connect" /\ pc'["remote"] = pc["remote"]
  BY <1>1, <1>3, <1>4 DEF VariablesOK, Sides, Places
<1>6. SubSeq(i, 1, k) \o SubSeq(i, k + 1, Len(i)) = i
  <2> HIDE DEF i
  <2> QED
    BY <1>2, Cut
<1>7. VariablesOK' /\ ScriptKnown'
  <2>1. dropped' \in Seq(Unit) /\ whole' \in BOOLEAN
    BY <1>3, <1>4
  <2> HIDE DEF s, n, i, d
  <2> QED
    BY <2>1, <1>1, <1>4, <1>5 DEF VariablesOK, ScriptKnown
<1>8. RelayTypeOK' /\ BeforeRemote' /\ ThreadsHold' /\ BeforeUserId'
  <2>1. RelayTypeOK'
    BY <1>1, <1>3, <1>4, <1>5 DEF RelayTypeOK, Sides
  <2>2. BeforeRemote' /\ ThreadsHold' /\ BeforeUserId'
    BY <1>1, <1>4, <1>5 DEF RelayInv, BeforeRemote, ThreadsHold, BeforeUserId, Sides
  <2> QED
    BY <2>1, <2>2
<1>9. StreamsIntact'
  <2>1. d \o <<>> \o <<>> \o SubSeq(i, k + 1, Len(i)) = SubSeq(s, 2, n)
    <3>1. d \o <<>> = d
      BY <1>3, ConcatEmptySeq
    <3> QED
      BY <3>1, <1>1, <1>3, <1>6
  <2>2. AfterReply' = AfterReply
    BY <1>4 DEF AfterReply
  <2> QED
    BY <2>1, <2>2, <1>1, <1>4, <1>5 DEF RelayInv, StreamsIntact
<1>10. UserIdAlone'
  <2> DEFINE h == HeaderLength
  <2>1. h' = h /\ h \in Nat /\ h >= 2 /\ \A j \in 1..h : s[j] = Nul <=> j = h
    BY <1>1, <1>4, ScriptFacts DEF HeaderLength
  <2>2. CASE eager
    BY <2>2, <1>4 DEF UserIdAlone
  <2>3. CASE ~eager
    <3>1. n <= h
      BY <2>3, <1>1 DEF UserIdAlone
    <3>2. Len(i) = n - 1 /\ \A j \in 1..n - 1 : i[j] = s[j + 1]
      <4>1. \A j \in 2..n : s[j] \in Unit
        BY <1>2, ElementOfSeq
      <4> HIDE DEF s, n, i
      <4>2. /\ Len(SubSeq(s, 2, n)) = IF 2 <= n THEN n - 2 + 1 ELSE 0
            /\ \A j \in 1..n - 2 + 1 : SubSeq(s, 2, n)[j] = s[2 + j - 1]
        BY <4>1, <1>2, SubSeqProperties
      <4>3. \A j \in 1..n - 1 : j \in 1..n - 2 + 1 /\ 2 + j - 1 = j + 1
        BY <1>2
      <4> QED
        BY <4>2, <4>3, <1>1, <1>2
    <3>3. ASSUME Nul \in ToSet(d) PROVE k = h - 1
      <4>1. PICK j \in 1..k : d[j] = Nul
        BY <3>3, <1>3, LenProperties DEF ToSet
      <4>2. j \in 1..n - 1 /\ k <= n - 1
        BY <3>2, <1>2, <1>3, <4>1
      <4>3. d[j] = i[j]
        <5>1. \A l \in 1..k : i[l] \in Unit
          BY <1>2, ElementOfSeq
        <5> HIDE DEF i, d
        <5>2. \A l \in 1..k - 1 + 1 : SubSeq(i, 1, k)[l] = i[1 + l - 1]
          BY <5>1, <1>3, SubSeqProperties
        <5>3. k \in Nat /\ j \in 1..k - 1 + 1 /\ 1 + j - 1 = j
          BY <4>1
        <5> QED
          BY <5>2, <5>3, <1>3
      <4>4. s[j + 1] = Nul
        BY <3>2, <4>1, <4>2, <4>3
      <4>5. j + 1 \in 1..h
        BY <2>1, <3>1, <4>2, <1>2
      <4>6. j + 1 = h
        BY <2>1, <4>4, <4>5
      <4> HIDE DEF h, n
      <4> QED
        BY <2>1, <3>1, <4>2, <4>6, <1>2
    <3>4. whole' => Len(dropped') = h - 1
      BY <3>3, <1>3, <1>4
    <3>5. got' = got /\ sent' = sent /\ eager' = eager
      BY <1>4
    <3> QED
      BY <2>1, <3>4, <3>5, <3>1 DEF UserIdAlone
  <2> QED
    BY <2>2, <2>3
<1> QED
  BY <1>7, <1>8, <1>9, <1>10 DEF RelayInv

\* The reply is the first unit that the client gets.
LEMMA RespondKeeps ==
    ASSUME RelayInv, NEW response \in {"success", "failed"}, NEW next \in {"spawn", "thrown"},
           response = "success" <=> next = "spawn",
           pc["host"] \in {"refuse", "reply"}, Respond(response, next)
    PROVE  RelayInv'
<1>1. /\ VariablesOK /\ got["host"] = <<>> /\ pc["remote"] = "none" /\ dropped # <<>>
  BY DEF RelayInv, BeforeRemote, BeforeUserId
<1>2. <<response, 0>> \in Unit
  BY DEF Unit
<1>3. Append(<<>>, <<response, 0>>) = <<<<response, 0>>>>
  OBVIOUS
<1>4. /\ got' \in [Sides -> Seq(Unit)] /\ got'["host"] = <<<<response, 0>>>>
      /\ got'["remote"] = got["remote"]
      /\ pc' \in [Sides -> Places] /\ pc'["host"] = next /\ pc'["remote"] = "none"
      /\ UNCHANGED <<script, sent, ended, eager, in, hand, up, closing, dropped, whole>>
  <2>1. <<<<response, 0>>>> \in Seq(Unit)
    BY <1>2
  <2> QED
    BY <2>1, <1>1, <1>3 DEF Respond, Goto, VariablesOK, Sides, Places, peers, history
<1>5. VariablesOK' /\ ScriptKnown'
  BY <1>1, <1>4 DEF RelayInv, VariablesOK, ScriptKnown
<1>6. /\ got'["host"] # <<>> /\ Head(got'["host"]) = <<response, 0>>
      /\ Len(got'["host"]) = 1 /\ Tail(got'["host"]) = <<>>
  BY <1>4
<1>7. RelayTypeOK' /\ ThreadsHold' /\ BeforeUserId'
  BY <1>1, <1>4 DEF RelayInv, RelayTypeOK, ThreadsHold, BeforeUserId, Sides
<1>8. BeforeRemote'
  BY <1>4, <1>6 DEF BeforeRemote
<1>9. UserIdAlone'
  BY <1>4, <1>6 DEF RelayInv, UserIdAlone, HeaderLength
<1>10. StreamsIntact'
  <2>1. AfterReply' = AfterReply
    BY <1>1, <1>6 DEF AfterReply
  <2> QED
    BY <2>1, <1>4 DEF RelayInv, StreamsIntact
<1> QED
  BY <1>5, <1>7, <1>8, <1>9, <1>10 DEF RelayInv

\* A read hands over what arrived first, and finds the end only when nothing waits.
LEMMA ReadKeeps == ASSUME RelayInv, NEW side \in Sides, Read(side) PROVE RelayInv'
<1>1. /\ VariablesOK /\ pc[side] = "read" /\ hand[side] = <<>>
      /\ UNCHANGED <<script, sent, ended, eager, got, up, closing, dropped, whole>>
  BY DEF RelayInv, Read, ThreadsHold, peers, history
<1>2. CASE \E step \in {"eof", "over", "failed"} :
              /\ Goto(side, step) /\ UNCHANGED <<hand, in>>
              /\ step = "eof" => in[side] = <<>> /\ (ended[side] \/ ~up[side])
  <2>1. PICK step \in {"eof", "over", "failed"} :
              /\ Goto(side, step) /\ UNCHANGED <<hand, in>>
              /\ step = "eof" => in[side] = <<>> /\ (ended[side] \/ ~up[side])
    BY <1>2
  <2>2. /\ pc' \in [Sides -> Places] /\ pc'[side] = step
        /\ \A other \in Sides \ {side} : pc'[other] = pc[other]
    BY <2>1, <1>1 DEF Goto, VariablesOK, Places
  <2>3. VariablesOK' /\ ScriptKnown' /\ UserIdAlone' /\ StreamsIntact'
    BY <2>1, <2>2, <1>1, StillFlows DEF VariablesOK
  <2>4. RelayTypeOK' /\ ThreadsHold'
    BY <2>1, <2>2, <1>1 DEF RelayInv, RelayTypeOK, ThreadsHold
  <2>5. BeforeUserId'
    BY <2>1, <2>2, <1>1 DEF RelayInv, BeforeUserId, Sides
  <2>6. BeforeRemote'
    BY <2>1, <2>2, <1>1 DEF RelayInv, BeforeRemote, Sides
  <2> QED
    BY <2>3, <2>4, <2>5, <2>6 DEF RelayInv
<1>3. CASE /\ in[side] # <<>> /\ hand' = [hand EXCEPT ![side] = Arrived(side, MaxRead)]
           /\ in' = [in EXCEPT ![side] = SubSeq(@, Len(Arrived(side, MaxRead)) + 1, Len(@))]
           /\ Goto(side, "write")
  <2> DEFINE i == in[side]
  <2>1. PICK k \in 0..Len(i) :
           /\ Arrived(side, MaxRead) = SubSeq(i, 1, k)
           /\ Arrived(side, MaxRead) \in Seq(Unit) /\ Len(Arrived(side, MaxRead)) = k
           /\ SubSeq(i, k + 1, Len(i)) \in Seq(Unit) /\ k <= MaxRead /\ k >= 1
    BY <1>1, <1>3, ArrivedFacts, RelayAssumption
  <2>2. Arrived(side, MaxRead) # <<>>
    BY <2>1, EmptySeq
  <2>3. /\ hand' \in [Sides -> Seq(Unit)] /\ hand'[side] = SubSeq(i, 1, k)
        /\ in' \in [Sides -> Seq(Unit)] /\ in'[side] = SubSeq(i, k + 1, Len(i))
        /\ pc' \in [Sides -> Places] /\ pc'[side] = "write"
        /\ \A other \in Sides \ {side} :
              hand'[other] = hand[other] /\ in'[other] = in[other] /\ pc'[other] = pc[other]
    BY <2>1, <1>1, <1>3 DEF Goto, VariablesOK, Places
  <2>4. Len(hand'[side]) <= MaxRead /\ hand'[side] # <<>>
    BY <2>1, <2>2, <2>3
  <2> HIDE DEF i
  <2>5. VariablesOK' /\ ScriptKnown' /\ UserIdAlone'
    BY <2>3, <1>1 DEF RelayInv, VariablesOK, ScriptKnown, UserIdAlone, HeaderLength
  <2>6. RelayTypeOK' /\ ThreadsHold'
    BY <2>3, <2>4, <1>1 DEF RelayInv, RelayTypeOK, ThreadsHold
  <2>7. BeforeUserId' /\ BeforeRemote'
    BY <2>3, <1>1 DEF RelayInv, BeforeUserId, BeforeRemote, Sides
  <2>8. \A a \in Seq(Unit) : a \o hand'[side] \o in'[side] = a \o hand[side] \o in[side]
    <3>1. i \in Seq(Unit)
      BY <1>1 DEF i, VariablesOK
    <3>2. \A a \in Seq(Unit) :
             a \o SubSeq(i, 1, k) \o SubSeq(i, k + 1, Len(i)) = a \o <<>> \o i
      BY <3>1, FlowRead
    <3> QED
      BY <3>2, <2>3, <1>1 DEF i
  <2>9. StreamsIntact'
    <3> DEFINE read == dropped \o got["remote"]
    <3>1. AfterReply' = AfterReply /\ read' = read
      BY <1>1 DEF AfterReply
    <3>2. read \in Seq(Unit) /\ AfterReply \in Seq(Unit)
      <4>1. got["remote"] \in Seq(Unit) /\ got["host"] \in Seq(Unit) /\ dropped \in Seq(Unit)
        BY <1>1 DEF VariablesOK, Sides
      <4> QED
        BY <4>1, ConcatType, HeadTailProperties, EmptySeq DEF AfterReply
    <3>3. \A a \in Seq(Unit), other \in Sides :
              a \o hand'[other] \o in'[other] = a \o hand[other] \o in[other]
      BY <2>3, <2>8
    <3>4. dropped # <<>> => read \o hand["host"] \o in["host"] = SubSeq(script["host"], 2, sent["host"])
      BY DEF RelayInv, StreamsIntact
    <3>5. AfterReply \o hand["remote"] \o in["remote"] = SubSeq(script["remote"], 1, sent["remote"])
      BY DEF RelayInv, StreamsIntact
    <3>6. read \o hand'["host"] \o in'["host"] = read \o hand["host"] \o in["host"]
      BY <3>2, <3>3 DEF Sides
    <3>7. AfterReply \o hand'["remote"] \o in'["remote"] = AfterReply \o hand["remote"] \o in["remote"]
      BY <3>2, <3>3 DEF Sides
    <3>8. /\ dropped' # <<>> => read' \o hand'["host"] \o in'["host"]
                                   = SubSeq(script'["host"], 2, sent'["host"])
          /\ AfterReply' \o hand'["remote"] \o in'["remote"]
                = SubSeq(script'["remote"], 1, sent'["remote"])
      <4> HIDE DEF read
      <4> QED
        BY <3>1, <3>4, <3>5, <3>6, <3>7, <1>1
    <3> QED
      BY <3>8 DEF StreamsIntact
  <2> QED
    BY <2>5, <2>6, <2>7, <2>9 DEF RelayInv
<1> QED
  BY <1>2, <1>3 DEF Read

\* What is written after the reply comes after it.
LEMMA TailConcat ==
    ASSUME NEW S, NEW s \in Seq(S), NEW t \in Seq(S), s # <<>>
    PROVE  s \o t # <<>> /\ Head(s \o t) = Head(s) /\ Tail(s \o t) = Tail(s) \o t
<1>1. /\ s \o t \in Seq(S) /\ Len(s \o t) = Len(s) + Len(t)
      /\ \A j \in 1..Len(s) + Len(t) : (s \o t)[j] = IF j <= Len(s) THEN s[j] ELSE t[j - Len(s)]
  BY ConcatProperties
<1>2. Len(s) \in Nat \ {0} /\ Len(t) \in Nat
  BY EmptySeq, LenProperties
<1> DEFINE c == s \o t  r == Tail(s)
<1>3. c # <<>>
  <2>1. Len(c) # 0
    BY <1>1, <1>2
  <2> QED
    BY <2>1, EmptySeq
<1>4. /\ r \in Seq(S) /\ Len(r) = Len(s) - 1
      /\ \A j \in 1..Len(r) : r[j] = s[j + 1]
  BY HeadTailProperties
<1>5. /\ Tail(c) \in Seq(S) /\ Len(Tail(c)) = Len(c) - 1
      /\ \A j \in 1..Len(Tail(c)) : Tail(c)[j] = c[j + 1]
  BY <1>1, <1>3, HeadTailProperties
<1>6. Head(c) = Head(s)
  <2>1. Head(c) = c[1] /\ Head(s) = s[1]
    OBVIOUS
  <2>2. c[1] = s[1]
    BY <1>1, <1>2
  <2> QED
    BY <2>1, <2>2
<1>7. Tail(c) = r \o t
  <2> HIDE DEF r
  <2>1. /\ r \o t \in Seq(S) /\ Len(r \o t) = Len(r) + Len(t)
        /\ \A j \in 1..Len(r) + Len(t) : (r \o t)[j] = IF j <= Len(r) THEN r[j] ELSE t[j - Len(r)]
    BY <1>4, ConcatProperties
  <2> DEFINE l == r \o t
  <2>2. \A j \in 1..Len(s) + Len(t) : c[j] = IF j <= Len(s) THEN s[j] ELSE t[j - Len(s)]
    BY <1>1
  <2>3. Len(c) = Len(s) + Len(t)
    BY <1>1
  <2>4. \A j \in 1..Len(r) + Len(t) : l[j] = IF j <= Len(r) THEN r[j] ELSE t[j - Len(r)]
    BY <2>1
  <2>5. Len(Tail(c)) = Len(l) /\ Len(l) = Len(r) + Len(t)
    BY <1>2, <1>4, <1>5, <2>1, <2>3
  <2>6. ASSUME NEW j \in 1..Len(r) + Len(t) PROVE Tail(c)[j] = l[j]
    <3> HIDE DEF c, l
    <3>1. Tail(c)[j] = c[j + 1]
      BY <2>5, <1>5
    <3>2. CASE j <= Len(r)
      <4>1. j \in 1..Len(r) /\ j + 1 \in 1..Len(s) + Len(t) /\ j + 1 <= Len(s)
        BY <3>2, <1>2, <1>4
      <4> QED
        BY <4>1, <3>1, <3>2, <2>2, <2>4, <1>4
    <3>3. CASE ~(j <= Len(r))
      <4>1. /\ j + 1 \in 1..Len(s) + Len(t) /\ ~(j + 1 <= Len(s))
            /\ j + 1 - Len(s) = j - Len(r)
        BY <3>3, <1>2, <1>4
      <4>2. c[j + 1] = t[j + 1 - Len(s)]
        BY <4>1, <2>2
      <4>3. l[j] = t[j - Len(r)]
        BY <3>3, <2>4
      <4> QED
        BY <4>1, <4>2, <4>3, <3>1
    <3> QED
      BY <3>2, <3>3
  <2>7. l \in Seq(S) /\ Tail(c) \in Seq(S)
    BY <2>1, <1>5
  <2>8. Tail(c) = l
    <3> HIDE DEF c, l
    <3> QED
      BY <2>5, <2>6, <2>7, SeqEqual
  <2> QED
    BY <2>8
<1> QED
  BY <1>3, <1>6, <1>7

\* A write moves the first units of the hand behind what its peer got.
LEMMA WriteKeeps == ASSUME RelayInv, NEW side \in Sides, Write(side) PROVE RelayInv'
<1>1. /\ VariablesOK /\ pc[side] = "write" /\ hand[side] # <<>>
      /\ UNCHANGED <<script, sent, ended, eager, in, up, closing, dropped, whole>>
  BY DEF RelayInv, RelayTypeOK, Write, peers, history
<1>2. CASE Goto(side, "failed") /\ UNCHANGED <<got, hand>>
  <2>1. /\ pc' \in [Sides -> Places] /\ pc'[side] = "failed"
        /\ \A other \in Sides \ {side} : pc'[other] = pc[other]
    BY <1>2, <1>1 DEF Goto, VariablesOK, Places
  <2>2. VariablesOK' /\ ScriptKnown' /\ UserIdAlone' /\ StreamsIntact'
    BY <2>1, <1>1, <1>2, StillFlows DEF VariablesOK
  <2>3. RelayTypeOK' /\ ThreadsHold'
    BY <2>1, <1>1, <1>2 DEF RelayInv, RelayTypeOK, ThreadsHold
  <2>4. BeforeUserId' /\ BeforeRemote'
    BY <2>1, <1>1, <1>2 DEF RelayInv, BeforeUserId, BeforeRemote, Sides
  <2> QED
    BY <2>2, <2>3, <2>4 DEF RelayInv
<1>3. ASSUME NEW n \in 1..Len(hand[side]),
             Written(side, n, SubSeq(hand[side], n + 1, Len(hand[side])))
      PROVE  RelayInv'
  <2> DEFINE h == hand[side]  x == SubSeq(h, 1, n)  y == SubSeq(h, n + 1, Len(h))
             to == Other(side)
  <2>1. h \in Seq(Unit) /\ Len(h) \in Nat
    BY <1>1, LenProperties DEF VariablesOK
  <2>2. to \in Sides /\ to # side /\ \A other \in Sides : other \in {side, to}
    BY OtherSide DEF Sides
  <2>3. got[to] \in Seq(Unit) /\ got[side] \in Seq(Unit)
    BY <2>2, <1>1 DEF VariablesOK
  <2>4. x \in Seq(Unit) /\ y \in Seq(Unit) /\ Len(y) = Len(h) - n
    <3> HIDE DEF h
    <3>1. n \in 0..Len(h)
      BY <1>3 DEF h
    <3> QED
      BY <2>1, <3>1, Cut
  <2>5. /\ got' = [got EXCEPT ![to] = @ \o x]
        /\ hand' = [hand EXCEPT ![side] = y]
        /\ pc' = [pc EXCEPT ![side] = IF y = <<>> THEN "read" ELSE "write"]
    BY <1>3 DEF Written, Goto
  <2>6. got[to] \o x \in Seq(Unit)
    BY <2>3, <2>4, ConcatType
  <2>7. \A a \in Seq(Unit) : a \o x \o y = a \o h
    <3> HIDE DEF h
    <3>1. n \in 0..Len(h)
      BY <1>3 DEF h
    <3>2. x \o y = h
      BY <2>1, <3>1, Cut
    <3> HIDE DEF x, y
    <3> TAKE a \in Seq(Unit)
    <3>3. a \o x \o y = a \o (x \o y)
      BY <2>4, ConcatAssociative, SMTT(30)
    <3> QED
      BY <3>2, <3>3
  <2>8. Len(h) <= MaxRead
    BY DEF RelayInv, RelayTypeOK
  <2> HIDE DEF h, x, y, to
  <2>9. /\ got' \in [Sides -> Seq(Unit)] /\ got'[to] = got[to] \o x /\ got'[side] = got[side]
        /\ hand' \in [Sides -> Seq(Unit)] /\ hand'[side] = y /\ hand'[to] = hand[to]
        /\ pc' \in [Sides -> Places] /\ pc'[side] = IF y = <<>> THEN "read" ELSE "write"
        /\ pc'[to] = pc[to]
    BY <2>2, <2>4, <2>5, <2>6, <1>1 DEF VariablesOK, Places
  <2>10. VariablesOK' /\ ScriptKnown'
    BY <2>9, <1>1 DEF RelayInv, VariablesOK, ScriptKnown
  <2>11. RelayTypeOK'
    <3>1. Len(hand'[side]) <= MaxRead /\ (pc'[side] = "write" => hand'[side] # <<>>)
      BY <2>1, <2>4, <2>8, <2>9, <1>3, RelayAssumption
    <3> QED
      BY <3>1, <2>2, <2>9, <1>1 DEF RelayInv, RelayTypeOK
  <2>12. ThreadsHold'
    BY <2>2, <2>9, <1>1 DEF RelayInv, ThreadsHold
  <2>13. pc["host"] \notin {"request", "userid", "connect", "refuse", "reply", "spawn"}
    BY <2>2, <1>1 DEF RelayInv, BeforeRemote, Sides
  <2>14. pc'["host"] \notin {"request", "userid", "connect", "refuse", "reply", "spawn"}
    BY <2>2, <2>9, <2>13 DEF Sides
  <2>15. BeforeUserId'
    <3>1. pc'["host"] = pc["host"] \/ pc["host"] = "write"
      BY <2>2, <2>9, <1>1 DEF Sides
    <3>2. dropped = <<>> => pc'["host"] = "thrown" /\ ~whole
      BY <3>1, <2>13 DEF RelayInv, BeforeUserId
    <3> QED
      BY <3>2, <2>14, <1>1 DEF BeforeUserId
  <2>16. CASE side = "host"
    <3>1. to = "remote"
      BY <2>16, OtherSide DEF to
    <3>2. BeforeRemote'
      BY <3>1, <2>9, <2>13, <2>14, <2>16, <1>1 DEF RelayInv, BeforeRemote
    <3>3. UserIdAlone'
      BY <3>1, <2>9, <2>16, <1>1 DEF RelayInv, UserIdAlone, HeaderLength
    <3>4. StreamsIntact'
      <4>1. AfterReply' = AfterReply
        BY <3>1, <2>9, <2>16 DEF AfterReply
      <4>2. dropped \in Seq(Unit) /\ in["host"] \in Seq(Unit)
        BY <1>1 DEF VariablesOK, Sides
      <4>3. dropped \o got["remote"] \in Seq(Unit)
        BY <3>1, <2>3, <4>2, ConcatType
      <4>4. \A a, b, c \in Seq(Unit) : a \o b \o c = a \o (b \o c)
        BY Regroup, SMTT(60)
      <4>5. dropped \o (got["remote"] \o x) = dropped \o got["remote"] \o x
        BY <4>2, <4>4, <3>1, <2>3, <2>4, ZenonT(30)
      <4>6. dropped \o (got["remote"] \o x) \o y \o in["host"]
               = dropped \o got["remote"] \o h \o in["host"]
        BY <4>2, <4>3, <4>5, <2>7
      <4>7. dropped # <<>> =>
               dropped \o got["remote"] \o h \o in["host"] = SubSeq(script["host"], 2, sent["host"])
        BY <2>16 DEF RelayInv, StreamsIntact, h
      <4>8. AfterReply \o hand["remote"] \o in["remote"] = SubSeq(script["remote"], 1, sent["remote"])
        BY DEF RelayInv, StreamsIntact
      <4>9. /\ dropped' # <<>> => dropped' \o got'["remote"] \o hand'["host"] \o in'["host"]
                                     = SubSeq(script'["host"], 2, sent'["host"])
            /\ AfterReply' \o hand'["remote"] \o in'["remote"]
                  = SubSeq(script'["remote"], 1, sent'["remote"])
        BY <4>1, <4>6, <4>7, <4>8, <3>1, <2>9, <2>16, <1>1
      <4> QED
        BY <4>9 DEF StreamsIntact
    <3> QED
      BY <2>10, <2>11, <2>12, <2>15, <3>2, <3>3, <3>4 DEF RelayInv
  <2>17. CASE side = "remote"
    <3>1. to = "host"
      BY <2>17, OtherSide DEF to
    <3>2. got["host"] # <<>> /\ Head(got["host"]) = <<"success", 0>>
      BY <2>17, <1>1 DEF RelayInv, BeforeRemote
    <3>3. /\ got'["host"] # <<>> /\ Head(got'["host"]) = Head(got["host"])
          /\ Tail(got'["host"]) = Tail(got["host"]) \o x
      BY <3>1, <3>2, <2>3, <2>4, <2>9, TailConcat, ZenonT(30)
    <3>4. BeforeRemote'
      BY <3>1, <3>2, <3>3, <2>9, <2>13, <2>14, <2>17, <1>1 DEF RelayInv, BeforeRemote
    <3>5. UserIdAlone'
      BY <3>2, <3>3, <1>1 DEF RelayInv, UserIdAlone, HeaderLength
    <3>6. StreamsIntact'
      <4>1. AfterReply = Tail(got["host"]) /\ AfterReply' = AfterReply \o x
        BY <3>2, <3>3 DEF AfterReply
      <4>2. AfterReply \in Seq(Unit) /\ in["remote"] \in Seq(Unit)
        BY <4>1, <3>1, <3>2, <2>3, <1>1, HeadTailProperties DEF VariablesOK, Sides
      <4>3. AfterReply \o x \o y \o in["remote"] = AfterReply \o h \o in["remote"]
        BY <4>2, <2>7
      <4>4. AfterReply \o h \o in["remote"] = SubSeq(script["remote"], 1, sent["remote"])
        BY <2>17 DEF RelayInv, StreamsIntact, h
      <4>5. dropped # <<>> => dropped \o got["remote"] \o hand["host"] \o in["host"]
                                 = SubSeq(script["host"], 2, sent["host"])
        BY DEF RelayInv, StreamsIntact
      <4>6. /\ dropped' # <<>> => dropped' \o got'["remote"] \o hand'["host"] \o in'["host"]
                                     = SubSeq(script'["host"], 2, sent'["host"])
            /\ AfterReply' \o hand'["remote"] \o in'["remote"]
                  = SubSeq(script'["remote"], 1, sent'["remote"])
        BY <4>1, <4>3, <4>4, <4>5, <3>1, <2>9, <2>17, <1>1
      <4> QED
        BY <4>6 DEF StreamsIntact
    <3> QED
      BY <2>10, <2>11, <2>12, <2>15, <3>4, <3>5, <3>6 DEF RelayInv
  <2> QED
    BY <2>16, <2>17 DEF Sides
<1> QED
  BY <1>2, <1>3 DEF Write

-----------------------------------------------------------------------------
(* The theorems.                                                             *)

LEMMA RelayStep == RelayInv /\ [Next]_vars => RelayInv'
<1> SUFFICES ASSUME RelayInv, [Next]_vars PROVE RelayInv'
  OBVIOUS
<1>1. CASE \E side \in Sides : Sends(side) \/ Ends(side)
  BY <1>1, SendsKeeps, EndsKeeps
<1>2. CASE HostStep
  <2>1. "host" \in Sides
    BY DEF Sides
  <2>2. CASE ReadRequest \/ ReadUserId \/ Connect \/ Spawn \/ Throws
    BY <2>2, ReadRequestKeeps, ReadUserIdKeeps, ConnectKeeps, SpawnKeeps, ThrowsKeeps
  <2>3. CASE Refuse
    BY <2>3, RespondKeeps DEF Refuse
  <2>4. CASE Reply
    BY <2>4, RespondKeeps DEF Reply
  <2>5. CASE Read("host") \/ Write("host")
    BY <2>1, <2>5, ReadKeeps, WriteKeeps
  <2> QED
    BY <1>2, <2>2, <2>3, <2>4, <2>5 DEF HostStep
<1>3. CASE RemoteStep
  <2>1. "remote" \in Sides
    BY DEF Sides
  <2> QED
    BY <1>3, <2>1, ReadKeeps, WriteKeeps DEF RemoteStep
<1>4. CASE Closes
  BY <1>4, ClosesKeeps
<1>5. CASE UNCHANGED vars
  BY <1>5 DEF vars, peers, history, RelayInv, RelayTypeOK, VariablesOK, ScriptKnown,
     BeforeUserId, BeforeRemote, ThreadsHold, UserIdAlone, HeaderLength, StreamsIntact, AfterReply
<1> QED
  BY <1>1, <1>2, <1>3, <1>4, <1>5 DEF Next

\* RelayInv always holds, whatever the peers send and the threads do.
THEOREM RelayInvariantHolds == Spec => []RelayInv
  BY InitRelay, RelayStep, PTL DEF Spec

\* No thread holds more than its buffer takes, nor stands at a write() with nothing to
\* write.
THEOREM BuffersSuffice == Spec => []RelayTypeOK
<1>1. RelayInv => RelayTypeOK
  BY DEF RelayInv
<1> QED
  BY <1>1, RelayInvariantHolds, PTL

\* receiveHost() and receiveRemote() lose, double and reorder nothing between a read
\* and the next, for every way in which write_some() takes parts of the buffer.
THEOREM StreamsStayIntact == Spec => []StreamsIntact
<1>1. RelayInv => StreamsIntact
  BY DEF RelayInv
<1> QED
  BY <1>1, RelayInvariantHolds, PTL

LEMMA ReplyIsFirst == RelayInv => ReplyFirst
<1> SUFFICES ASSUME RelayInv, got["host"] # <<>>
             PROVE  /\ Head(got["host"]) \in {<<"success", 0>>, <<"failed", 0>>}
                    /\ Head(got["host"]) = <<"failed", 0>> => Len(got["host"]) = 1
                    /\ IsPrefix(Tail(got["host"]), Data("remote"))
  BY DEF ReplyFirst
<1>1. VariablesOK /\ BeforeRemote /\ RelayTypeOK /\ StreamsIntact /\ ScriptKnown
  BY DEF RelayInv
<1>2. got["host"] \in Seq(Unit) /\ Len(got["host"]) \in Nat \ {0}
  BY <1>1, EmptySeq DEF VariablesOK, Sides
<1>3. Head(got["host"]) = <<"failed", 0>> => Len(got["host"]) = 1
  <2>1. <<"failed", 0>> # <<"success", 0>>
    OBVIOUS
  <2>2. pc["remote"] = "none" => Len(got["host"]) = 1
    <3> DEFINE k == Len(got["host"])
    <3>1. k \in Nat \ {0} /\ (pc["remote"] = "none" => k <= 1)
      BY <1>1, <1>2 DEF BeforeRemote
    <3> HIDE DEF k
    <3>2. pc["remote"] = "none" => k = 1
      BY <3>1
    <3> QED
      BY <3>2 DEF k
  <2> QED
    BY <2>1, <2>2, <1>1 DEF BeforeRemote
<1>4. IsPrefix(Tail(got["host"]), Data("remote"))
  <2> DEFINE r == Tail(got["host"])  h == hand["remote"]  i == in["remote"]
             n == sent["remote"]  d == Data("remote")
  <2>1. r \in Seq(Unit) /\ h \in Seq(Unit) /\ i \in Seq(Unit)
    BY <1>1, <1>2, HeadTailProperties DEF VariablesOK, Sides
  <2>2. r \o h \o i = SubSeq(d, 1, n)
    BY <1>1 DEF StreamsIntact, AfterReply, ScriptKnown
  <2>3. n \in 0..Len(d) /\ d \in Seq(Unit)
    BY <1>1, DataFacts DEF RelayTypeOK, ScriptKnown, Sides
  <2> HIDE DEF r, h, i, n, d
  <2>4. \A s, t, u \in Seq(Unit) : s \o t \o u = s \o (t \o u)
    BY Regroup
  <2>5. r \o (h \o i) = SubSeq(d, 1, n) /\ h \o i \in Seq(Unit)
    BY <2>1, <2>2, <2>4, ConcatType
  <2>6. IsPrefix(r, d)
    BY <2>1, <2>3, <2>5, PrefixOf
  <2> QED
    BY <2>6 DEF r, d
<1> QED
  BY <1>1, <1>3, <1>4 DEF BeforeRemote

\* The reply of handshake() comes first and is the only one, a refusal is the last the
\* client gets, and all after the reply is a beginning of what the destination sends.
THEOREM ReplyComesFirst == Spec => []ReplyFirst
  BY ReplyIsFirst, RelayInvariantHolds, PTL

LEMMA EndedIsComplete == RelayInv => EndedSideComplete
<1> SUFFICES ASSUME RelayInv PROVE EndedSideComplete
  OBVIOUS
<1>1. VariablesOK /\ ThreadsHold /\ StreamsIntact /\ BeforeUserId /\ RelayTypeOK
  BY DEF RelayInv
<1>2. ASSUME NEW side \in Sides, pc[side] = "eof" PROVE hand[side] = <<>> /\ in[side] = <<>>
  BY <1>1, <1>2 DEF ThreadsHold
<1>3. ASSUME pc["host"] = "eof"
      PROVE  dropped \o got["remote"] = SubSeq(script["host"], 2, sent["host"])
  <2>1. dropped # <<>>
    BY <1>1, <1>3 DEF BeforeUserId
  <2>2. dropped \o got["remote"] \in Seq(Unit)
    <3>1. dropped \in Seq(Unit) /\ got["remote"] \in Seq(Unit)
      BY <1>1 DEF VariablesOK, Sides
    <3> QED
      BY <3>1, ConcatType
  <2> DEFINE a == dropped \o got["remote"]
  <2>3. a \o <<>> \o <<>> = SubSeq(script["host"], 2, sent["host"])
    BY <2>1, <1>1, <1>2, <1>3 DEF StreamsIntact, Sides
  <2> HIDE DEF a
  <2>4. a \o <<>> = a
    BY <2>2, ConcatEmptySeq DEF a
  <2>5. a = SubSeq(script["host"], 2, sent["host"])
    BY <2>3, <2>4
  <2> QED
    BY <2>5 DEF a
<1>4. ASSUME pc["remote"] = "eof"
      PROVE  AfterReply = SubSeq(script["remote"], 1, sent["remote"])
  <2>1. AfterReply \in Seq(Unit)
    <3>1. got["host"] \in Seq(Unit)
      BY <1>1 DEF VariablesOK, Sides
    <3> QED
      BY <3>1, HeadTailProperties, EmptySeq DEF AfterReply
  <2>2. AfterReply \o <<>> \o <<>> = SubSeq(script["remote"], 1, sent["remote"])
    BY <1>1, <1>2, <1>4 DEF StreamsIntact, Sides
  <2>3. AfterReply \o <<>> = AfterReply
    BY <2>1, ConcatEmptySeq
  <2> QED
    BY <2>2, <2>3
<1> QED
  BY <1>3, <1>4 DEF EndedSideComplete

\* A thread that asks for a stop because its side ended has written all that the side
\* sent, after the user id, before it asks.
THEOREM EndedSidesAreComplete == Spec => []EndedSideComplete
  BY EndedIsComplete, RelayInvariantHolds, PTL

LEMMA UserIdIsKept == RelayInv => UserIdStays
<1> SUFFICES ASSUME RelayInv, whole, ~eager PROVE IsPrefix(got["remote"], Data("host"))
  BY DEF UserIdStays
<1> DEFINE s == script["host"]  n == sent["host"]  l == HeaderLength  p == Data("host")
           g == got["remote"]  h == hand["host"]  i == in["host"]  d == dropped
<1>1. VariablesOK /\ StreamsIntact /\ BeforeUserId /\ RelayTypeOK /\ UserIdAlone /\ ScriptKnown
  BY DEF RelayInv
<1>2. /\ d \in Seq(Unit) /\ g \in Seq(Unit) /\ h \in Seq(Unit) /\ i \in Seq(Unit)
      /\ s \in Seq(Unit)
  BY <1>1 DEF VariablesOK, Sides
<1>3. /\ n \in 0..Len(s) /\ l \in Nat /\ l >= 2 /\ Len(s) = l + MaxData /\ MaxData \in Nat
      /\ \A j \in 1..MaxData : s[l + j] = p[j]
  <2>1. n \in 0..Len(s)
    BY <1>1 DEF RelayTypeOK, Sides
  <2> QED
    BY <2>1, <1>1, ScriptFacts, RelayAssumption
<1>4. p \in Seq(Unit) /\ Len(p) = MaxData
  BY DataFacts DEF Sides
<1>5. Len(d) = l - 1
  BY <1>1 DEF UserIdAlone
<1>6. d \o g \o h \o i = SubSeq(s, 2, n)
  BY <1>1 DEF StreamsIntact, BeforeUserId
<1> HIDE DEF s, n, l, p, g, h, i, d
<1> DEFINE r == g \o h \o i  e == h \o i
<1>7. r \in Seq(Unit) /\ r = g \o e /\ d \o r = SubSeq(s, 2, n) /\ e \in Seq(Unit)
  <2>1. \A a, b, c \in Seq(Unit) : a \o b \o c = a \o (b \o c)
    BY Regroup
  <2>2. g \o h \in Seq(Unit) /\ h \o i \in Seq(Unit)
    BY <1>2, ConcatType
  <2>3. r \in Seq(Unit) /\ r = g \o e
    BY <1>2, <2>1, <2>2, ConcatType
  <2>4. d \o g \o h = d \o (g \o h)
    BY <1>2, <2>1, SMTT(30)
  <2>5. d \o (g \o h) \o i = d \o ((g \o h) \o i)
    <3> DEFINE f == g \o h
    <3>1. f \in Seq(Unit)
      BY <2>2
    <3> HIDE DEF f
    <3>2. d \o f \o i = d \o (f \o i)
      BY <1>2, <3>1, ConcatAssociative, SMTT(30)
    <3> QED
      BY <3>2 DEF f
  <2> QED
    BY <2>2, <2>3, <2>4, <2>5, <1>6
<1> HIDE DEF r, e
<1>8. Len(g) \in Nat /\ Len(e) \in Nat /\ Len(r) = Len(g) + Len(e)
  BY <1>2, <1>7, ConcatType, LenProperties
<1>9. /\ Len(d \o r) = Len(d) + Len(r)
      /\ \A j \in 1..Len(d) + Len(r) : (d \o r)[j] = IF j <= Len(d) THEN d[j] ELSE r[j - Len(d)]
  BY <1>2, <1>7, ConcatProperties
<1>10. /\ Len(SubSeq(s, 2, n)) = IF 2 <= n THEN n - 2 + 1 ELSE 0
       /\ \A j \in 1..n - 2 + 1 : SubSeq(s, 2, n)[j] = s[2 + j - 1]
  <2>1. \A j \in 1..Len(s) : s[j] \in Unit
    BY <1>2, ElementOfSeq
  <2>2. n \in Int /\ \A j \in 2..n : s[j] \in Unit
    BY <2>1, <1>3
  <2> QED
    BY <2>2, SubSeqProperties
<1>11. l - 1 + Len(g) + Len(e) = n - 1 /\ Len(g) <= MaxData
  BY <1>3, <1>5, <1>7, <1>8, <1>9, <1>10
<1>12. ASSUME NEW j \in 1..Len(g) PROVE g[j] = p[j]
  <2>1. r[j] = g[j]
    <3>1. \A k \in 1..Len(g) + Len(e) : (g \o e)[k] = IF k <= Len(g) THEN g[k] ELSE e[k - Len(g)]
      BY <1>2, <1>7, ConcatProperties
    <3>2. j \in 1..Len(g) + Len(e) /\ j <= Len(g)
      BY <1>8
    <3> QED
      BY <3>1, <3>2, <1>7
  <2>2. (d \o r)[l - 1 + j] = r[j]
    <3>1. /\ l - 1 + j \in 1..Len(d) + Len(r) /\ ~(l - 1 + j <= Len(d))
          /\ l - 1 + j - Len(d) = j
      BY <1>3, <1>5, <1>8
    <3> DEFINE c == d \o r
    <3>2. \A k \in 1..Len(d) + Len(r) : c[k] = IF k <= Len(d) THEN d[k] ELSE r[k - Len(d)]
      BY <1>9
    <3> HIDE DEF c
    <3> DEFINE k == l - 1 + j
    <3>3. k \in 1..Len(d) + Len(r) /\ ~(k <= Len(d)) /\ k - Len(d) = j
      BY <3>1, <1>3, <1>5, <1>8
    <3> HIDE DEF k
    <3>4. c[k] = r[j]
      BY <3>2, <3>3
    <3> QED
      BY <3>4 DEF c, k
  <2>3. SubSeq(s, 2, n)[l - 1 + j] = s[l + j]
    <3>1. l - 1 + j \in 1..n - 2 + 1 /\ 2 + (l - 1 + j) - 1 = l + j
      BY <1>3, <1>8, <1>11
    <3> QED
      BY <3>1, <1>10
  <2>4. s[l + j] = p[j]
    BY <1>3, <1>8, <1>11
  <2> QED
    BY <2>1, <2>2, <2>3, <2>4, <1>7
<1>13. SubSeq(g, 1, Len(g)) = SubSeq(p, 1, Len(g))
  <2>1. /\ SubSeq(p, 1, Len(g)) \in Seq(Unit) /\ Len(SubSeq(p, 1, Len(g))) = Len(g)
    BY <1>4, <1>8, <1>11, Cut
  <2>2. \A j \in 1..Len(g) : SubSeq(p, 1, Len(g))[j] = p[j]
    <3>1. \A j \in 1..Len(p) : p[j] \in Unit
      BY <1>4, ElementOfSeq
    <3>2. \A j \in 1..Len(g) : p[j] \in Unit
      BY <3>1, <1>4, <1>8, <1>11
    <3> QED
      BY <3>2, <1>8, SubSeqProperties
  <2>3. g = SubSeq(p, 1, Len(g))
    BY <2>1, <2>2, <1>2, <1>12, SeqEqual
  <2>4. SubSeq(g, 1, Len(g)) = g
    BY <1>2, SubSeqFull
  <2> QED
    BY <2>3, <2>4
<1>14. IsPrefix(g, p)
  BY <1>4, <1>8, <1>11, <1>13 DEF IsPrefix
<1> QED
  BY <1>14 DEF g, p

\* The one read of read_until() takes the whole user id of a client that waits for its
\* reply and whose user id had arrived: the destination gets the client's payload only.
THEOREM UserIdsStay == Spec => []UserIdStays
  BY UserIdIsKept, RelayInvariantHolds, PTL
=============================================================================
