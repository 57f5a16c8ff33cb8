-------------------------- MODULE GpsReaderProofs --------------------------
(***************************************************************************)
(* What holds of GpsReader however the characters of the receiver fall     *)
(* between the steps of getGPS.                                            *)
(***************************************************************************)
EXTENDS GpsReader, SequenceTheorems, WellFoundedInduction, TLAPS

Kinds == {"fix", "nofix", "other"}

-----------------------------------------------------------------------------
(* Lemmas about the sentences *)

SentenceLength(k) == IF k = "fix" THEN 16 ELSE IF k = "nofix" THEN 14 ELSE 5

\* The shape of a sentence: dollar first, CR LF last, each only there.
LEMMA SentenceShape ==
    ASSUME NEW k \in Kinds, NEW n \in Id
    PROVE  /\ Sentence(k, n) \in Seq(Tokens)
           /\ Len(Sentence(k, n)) = SentenceLength(k)
           /\ DOMAIN Sentence(k, n) = 1 .. SentenceLength(k)
<1>1. n \in Tokens /\ n \in Int
  BY GpsAssumption DEF Id, Tokens
<1>2. /\ CR \in Tokens /\ LF \in Tokens /\ Dollar \in Tokens /\ Comma \in Tokens
      /\ RMC \in Tokens /\ Other \in Tokens /\ Active \in Tokens /\ Void \in Tokens
  BY GpsAssumption DEF Tokens, CR, LF, Dollar, Comma, RMC, Other, Active, Void
<1>3. CASE k = "fix"
  BY <1>1, <1>2, <1>3 DEF Sentence, SentenceLength
<1>4. CASE k = "nofix"
  BY <1>1, <1>2, <1>4 DEF Sentence, SentenceLength
<1>5. CASE k = "other"
  BY <1>1, <1>2, <1>5 DEF Sentence, SentenceLength
<1> QED
  BY <1>3, <1>4, <1>5 DEF Kinds

\* What its tokens are.
LEMMA SentenceTokens ==
    ASSUME NEW k \in Kinds, NEW n \in Id
    PROVE  /\ Sentence(k, n)[1] = Dollar
           /\ (Sentence(k, n)[2] = RMC) = (k # "other")
           /\ \A i \in 1 .. SentenceLength(k) :
                 /\ (Sentence(k, n)[i] = Dollar) = (i = 1)
                 /\ (Sentence(k, n)[i] = CR) = (i = SentenceLength(k) - 1)
                 /\ (Sentence(k, n)[i] = LF) = (i = SentenceLength(k))
                 /\ Sentence(k, n)[i] # Nul
                 /\ Sentence(k, n)[i] \in Id => k = "fix" /\ Sentence(k, n)[i] = n
<1>1. n \in Nat /\ \A x \in Id : x \in Nat
  BY GpsAssumption DEF Id
<1> USE DEF CR, LF, Nul, Dollar, Comma, RMC, Other, Active, Void
<1>3. CASE k = "fix"
  BY <1>1, <1>3 DEF Sentence, SentenceLength
<1>4. CASE k = "nofix"
  BY <1>1, <1>4 DEF Sentence, SentenceLength
<1>5. CASE k = "other"
  BY <1>1, <1>5 DEF Sentence, SentenceLength
<1> QED
  BY <1>3, <1>4, <1>5 DEF Kinds

\* The id after n.
LEMMA NextId ==
    ASSUME NEW n \in Id
    PROVE  (n + 1) % Ids = IF n = Ids - 1 THEN 0 ELSE n + 1
BY GpsAssumption DEF Id

\* The first of several positions.
LEMMA MinFacts ==
    ASSUME NEW S \in SUBSET Nat, S # {}
    PROVE  Min(S) \in S /\ \A y \in S : Min(S) <= y
<1> DEFINE R == OpToRel(<, Nat)
<1>1. \A a, b \in Nat : a < b => <<a, b>> \in R
  BY Zenon DEF OpToRel
<1>2. IsWellFoundedOn(R, Nat)
  BY NatLessThanWellFounded
<1> HIDE DEF R
<1>3. PICK x \in S : \A y \in S : ~ (<<y, x>> \in R)
  BY <1>2, WFMin
<1>4. \A y \in S : x <= y
  <2> SUFFICES ASSUME NEW y \in S PROVE x <= y
    OBVIOUS
  <2>1. x \in Nat /\ y \in Nat
    OBVIOUS
  <2>2. ~ (y < x)
    BY <1>1, <1>3, <2>1
  <2> QED
    BY <2>1, <2>2
<1> QED
  BY <1>4 DEF Min

\* The beginning of a sequence.
LEMMA PrefixFacts ==
    ASSUME NEW S, NEW s \in Seq(S), NEW n \in 0 .. Len(s)
    PROVE  /\ SubSeq(s, 1, n) \in Seq(S)
           /\ Len(SubSeq(s, 1, n)) = n
           /\ \A i \in 1 .. n : SubSeq(s, 1, n)[i] = s[i]
<1>1. n \in Nat /\ Len(s) \in Nat /\ n <= Len(s)
  BY LenProperties
<1>2. \A i \in 1 .. n : s[i] \in S
  BY <1>1, ElementOfSeq
<1>3. /\ SubSeq(s, 1, n) \in Seq(S)
      /\ Len(SubSeq(s, 1, n)) = IF 1 <= n THEN n - 1 + 1 ELSE 0
      /\ \A i \in 1 .. n - 1 + 1 : SubSeq(s, 1, n)[i] = s[1 + i - 1]
  <2>1. 1 \in Int /\ n \in Int
    BY <1>1
  <2> QED
    BY ONLY <1>2, <2>1, SubSeqProperties
<1>4. Len(SubSeq(s, 1, n)) = n
  BY <1>1, <1>3
<1> QED
  BY <1>1, <1>3, <1>4

\* A line that is handed over: the carriage return overwritten, terminated.
LEMMA LineFacts ==
    ASSUME NEW b \in Seq(Tokens), Len(b) > 1
    PROVE  /\ Line(b) \in Seq(Tokens)
           /\ Len(Line(b)) = Len(b)
           /\ \A i \in 1 .. Len(b) - 2 : Line(b)[i] = b[i]
           /\ Line(b)[Len(b) - 1] = LF
           /\ Line(b)[Len(b)] = Nul
<1> DEFINE f == SubSeq(b, 1, Len(b) - 2)
           t == <<LF, Nul>>
<1>1. Len(b) \in Nat /\ LF \in Tokens /\ Nul \in Tokens
  BY LenProperties, GpsAssumption DEF Tokens, LF, Nul
<1>2. /\ f \in Seq(Tokens) /\ Len(f) = Len(b) - 2
      /\ \A i \in 1 .. Len(b) - 2 : f[i] = b[i]
  <2>1. Len(b) - 2 \in 0 .. Len(b)
    BY <1>1
  <2> QED
    BY <2>1, PrefixFacts
<1>3. t \in Seq(Tokens) /\ Len(t) = 2 /\ t[1] = LF /\ t[2] = Nul
  BY <1>1
<1>4. Line(b) = f \o t
  BY DEF Line
<1> HIDE DEF f, t
<1>5. /\ f \o t \in Seq(Tokens) /\ Len(f \o t) = Len(f) + Len(t)
      /\ \A i \in 1 .. Len(f) + Len(t) :
            (f \o t)[i] = IF i <= Len(f) THEN f[i] ELSE t[i - Len(f)]
  BY <1>2, <1>3, ConcatProperties
<1> QED
  BY <1>1, <1>2, <1>3, <1>4, <1>5

\* The line so far with one more character.
LEMMA StoreFacts ==
    ASSUME NEW c \in Tokens, uart_buf1 \in Seq(Tokens)
    PROVE  /\ Store(c) \in Seq(Tokens)
           /\ c = Dollar => Store(c) = <<c>>
           /\ c # Dollar => Store(c) = Append(uart_buf1, c)
           /\ c # Dollar => Len(Store(c)) = Len(uart_buf1) + 1
           /\ c # Dollar =>
                 \A i \in 1 .. Len(uart_buf1) : Store(c)[i] = uart_buf1[i]
           /\ Store(c)[Len(Store(c))] = c
BY AppendProperties, LenProperties DEF Store

-----------------------------------------------------------------------------
(* The types, and what getGPS knows between its steps *)

(* Outside a call nothing has been parsed.  A call that got past the test of
   printit finds the flag set to the end: only Return clears it. *)
CallContext ==
    /\ pc = "idle" => field = 0 /\ lat = NoNumber /\ lon = NoNumber
    /\ pc = "scan" => field <= 7
    /\ pc = "read" => field \in {2, 3, 5}
    /\ pc \in {"scan", "read", "torn", "wild"} \/ (pc = "done" /\ Fix) => printit

(* A sentence of which nothing is missing is in the buffer as far as it was
   sent: whatever the buffer held before, the dollar emptied it. *)
WholeSoFar == ~ damaged /\ at > 1 => uart_buf1 = SubSeq(Sending, 1, at - 1)

LineInv == TypeOK /\ CallContext /\ WholeSoFar

\* The sentence being sent.
LEMMA SendingFacts ==
    ASSUME TypeOK
    PROVE  /\ kind \in Kinds /\ id \in Id
           /\ Sending \in Seq(Tokens)
           /\ Len(Sending) = SentenceLength(kind)
           /\ DOMAIN Sending = 1 .. Len(Sending)
           /\ at \in 1 .. Len(Sending) /\ Sending[at] \in Tokens
           /\ Len(Sending) \in {5, 14, 16}
           /\ (Sending[at] = Dollar) = (at = 1)
           /\ (Sending[at] = CR) = (at = Len(Sending) - 1)
           /\ (Sending[at] = LF) = (at = Len(Sending))
           /\ Sending[at] # Nul
           /\ Sending[at] \in Id => kind = "fix" /\ Sending[at] = id
<1>1. kind \in Kinds /\ id \in Id
  BY DEF TypeOK, Kinds
<1>2. /\ Sending \in Seq(Tokens)
      /\ Len(Sending) = SentenceLength(kind)
      /\ DOMAIN Sending = 1 .. SentenceLength(kind)
  BY <1>1, SentenceShape DEF Sending
<1>3. at \in 1 .. Len(Sending)
  BY <1>2 DEF TypeOK
<1>4. Sending[at] \in Tokens
  BY <1>2, <1>3, ElementOfSeq
<1> QED
  BY <1>1, <1>2, <1>3, <1>4, SentenceTokens DEF Sending, SentenceLength

\* Going on to the next token, or to the next sentence.
LEMMA AdvanceFacts ==
    ASSUME TypeOK, NEW whole \in BOOLEAN, Advance(whole)
    PROVE  /\ kind' \in Kinds /\ id' \in Id /\ at' \in DOMAIN Sending'
           /\ damaged' \in BOOLEAN /\ given' \subseteq given
           /\ at < Len(Sending) =>
                 /\ Sending' = Sending /\ at' = at + 1
                 /\ damaged' = (damaged \/ ~ whole)
                 /\ kind' = kind /\ id' = id /\ given' = given
           /\ at = Len(Sending) =>
                 /\ at' = 1 /\ damaged' = FALSE
                 /\ id' = IF kind' = "fix" THEN (id + 1) % Ids ELSE id
                 /\ given' = given \ {id'}
<1>1. Len(Sending) \in Nat /\ at \in 1 .. Len(Sending) /\ kind \in Kinds /\ id \in Id
  BY SendingFacts
<1>2. CASE at < Len(Sending)
  <2>1. /\ at' = at + 1 /\ damaged' = (damaged \/ ~ whole)
        /\ kind' = kind /\ id' = id /\ given' = given
    BY <1>2 DEF Advance
  <2>2. Sending' = Sending
    BY <2>1 DEF Sending, Sentence
  <2> QED
    BY <1>1, <1>2, <2>1, <2>2, SendingFacts DEF TypeOK
<1>3. CASE at = Len(Sending)
  <2>1. /\ at' = 1 /\ damaged' = FALSE /\ kind' \in Kinds
        /\ id' = IF kind' = "fix" THEN (id + 1) % Ids ELSE id
        /\ given' = given \ {id'}
    BY <1>1, <1>3 DEF Advance, Kinds
  <2>2. id' \in Id
    BY <1>1, <2>1, NextId, GpsAssumption DEF Id
  <2>3. 1 \in DOMAIN Sending'
    <3>1. DOMAIN Sentence(kind', id') = 1 .. SentenceLength(kind')
      BY <2>1, <2>2, SentenceShape
    <3>2. Sending' = Sentence(kind', id')
      BY DEF Sending, Sentence
    <3> QED
      BY <3>1, <3>2 DEF SentenceLength
  <2>4. at' \in DOMAIN Sending' /\ damaged' \in BOOLEAN /\ given' \subseteq given
    BY <2>1, <2>3
  <2>5. ~ (at < Len(Sending))
    BY <1>1, <1>3
  <2> QED
    BY <2>1, <2>2, <2>4, <2>5
<1>4. at < Len(Sending) \/ at = Len(Sending)
  BY <1>1
<1> QED
  BY <1>2, <1>3, <1>4

\* Where a character leads: a line handed over, a line dropped, or a longer one.
LEMMA ReceiveCases ==
    ASSUME TypeOK, Receive
    PROVE  LET b == Store(Sending[at])
           IN  \/ /\ Ends(b) /\ IsPrefix(<<Dollar, RMC>>, Line(b))
                  /\ uart_buf1' = <<>> /\ TakeLine(Line(b))
               \/ /\ Ends(b) /\ ~ IsPrefix(<<Dollar, RMC>>, Line(b))
                  /\ uart_buf1' = <<>> /\ KeepLine
               \/ /\ ~ Ends(b) /\ KeepLine
                  /\ uart_buf1' = b \/ (b = <<LF>> /\ uart_buf1' = <<>>)
BY DEF Receive, HandOver

\* The initial state.
LEMMA InitLine == Init => LineInv
<1> SUFFICES ASSUME Init PROVE LineInv
  OBVIOUS
<1>1. 0 \in Id /\ 0 \in 0 .. MaxLost /\ 0 \in 0 .. Burst
  BY GpsAssumption DEF Id
<1>2. damaged \in BOOLEAN /\ lat \in Id \cup {NoNumber} /\ lon \in Id \cup {NoNumber}
  BY DEF Init
<1>3. /\ uart_buf1 \in Seq(Tokens) /\ print_buf1 \in Seq(Tokens)
      /\ given \subseteq Id /\ printit \in BOOLEAN
  BY EmptySeq DEF Init
<1>4. field \in 0 .. 8 /\ p \in Nat \ {0}
  BY DEF Init
<1>5. TypeOK
  BY <1>1, <1>2, <1>3, <1>4 DEF Init, TypeOK
<1>6. CallContext
  BY DEF Init, CallContext, Fix
<1>7. WholeSoFar
  <2>1. at \in 1 .. Len(Sending) /\ damaged = (at # 1)
    BY <1>5, SendingFacts DEF Init
  <2>2. ~ damaged => at = 1
    BY <2>1
  <2>3. ~ (1 > 1)
    OBVIOUS
  <2> QED
    BY <2>2, <2>3 DEF WholeSoFar
<1> QED
  BY <1>5, <1>6, <1>7 DEF LineInv

\* A character gets lost: what is in the making is damaged.
LEMMA LoseLine == LineInv /\ Lose => LineInv'
<1> SUFFICES ASSUME LineInv, Lose PROVE LineInv'
  OBVIOUS
<1>1. TypeOK /\ Advance(FALSE) /\ FALSE \in BOOLEAN
  BY DEF LineInv, Lose
<1>2. /\ lost' \in 0 .. MaxLost
      /\ UNCHANGED <<uart_buf1, print_buf1, printit, pc, during, call>>
  BY GpsAssumption DEF LineInv, TypeOK, Lose
<1>3. at < Len(Sending) \/ at = Len(Sending)
  <2>1. Len(Sending) \in Nat /\ at \in 1 .. Len(Sending)
    BY <1>1, SendingFacts
  <2> QED
    BY <2>1
<1>4. TypeOK'
  BY <1>1, <1>2, AdvanceFacts DEF TypeOK, Kinds, call
<1>5. damaged' \/ at' = 1
  BY <1>1, <1>3, AdvanceFacts
<1>6. WholeSoFar'
  BY <1>5 DEF WholeSoFar
<1>7. CallContext'
  BY <1>2 DEF LineInv, CallContext, Fix, call
<1> QED
  BY <1>4, <1>6, <1>7 DEF LineInv

\* The types after a character was received.
LEMMA ReceiveTypes == TypeOK /\ Receive => TypeOK'
<1> SUFFICES ASSUME TypeOK, Receive PROVE TypeOK'
  OBVIOUS
<1> DEFINE b == Store(Sending[at])
<1>1. Advance(TRUE) /\ TRUE \in BOOLEAN /\ lost' = lost
      /\ UNCHANGED call
  BY DEF Receive
<1>2. during' \in 0 .. Burst
  <2>1. during \in Nat /\ Burst \in Nat
    BY GpsAssumption DEF TypeOK
  <2> QED
    BY <2>1 DEF Receive, TypeOK
<1>3. b \in Seq(Tokens)
  BY SendingFacts, StoreFacts DEF TypeOK
<1> HIDE DEF b
<1>4. <<>> \in Seq(Tokens)
  BY EmptySeq
<1>5. /\ uart_buf1' \in Seq(Tokens)
      /\ print_buf1' \in Seq(Tokens)
      /\ printit' \in BOOLEAN
      /\ pc' \in {"idle", "scan", "read", "done", "torn", "wild"}
  <2>1. \/ Ends(b) /\ uart_buf1' = <<>> /\ (TakeLine(Line(b)) \/ KeepLine)
        \/ KeepLine /\ uart_buf1' \in {b, <<>>}
    BY ReceiveCases DEF b
  <2>2. Ends(b) => Line(b) \in Seq(Tokens)
    BY <1>3, LineFacts DEF Ends
  <2> QED
    BY <1>3, <1>4, <2>1, <2>2 DEF TakeLine, KeepLine, TypeOK
<1> QED
  BY <1>1, <1>2, <1>5, AdvanceFacts DEF TypeOK, Kinds, call

\* The last character of an undamaged sentence completes it in the buffer.
LEMMA WholeStored ==
    ASSUME LineInv, ~ damaged \/ at = 1
    PROVE  Store(Sending[at]) = SubSeq(Sending, 1, at)
<1>1. /\ TypeOK /\ uart_buf1 \in Seq(Tokens)
      /\ Sending \in Seq(Tokens) /\ Sending[at] \in Tokens
      /\ at \in 1 .. Len(Sending) /\ Len(Sending) \in Nat
      /\ (Sending[at] = Dollar) = (at = 1)
  BY SendingFacts DEF LineInv, TypeOK
<1>2. at \in 0 .. Len(Sending) /\ at - 1 \in 0 .. Len(Sending) /\ at \in Nat
  BY <1>1
<1>3. /\ SubSeq(Sending, 1, at) \in Seq(Tokens)
      /\ Len(SubSeq(Sending, 1, at)) = at
      /\ \A i \in 1 .. at : SubSeq(Sending, 1, at)[i] = Sending[i]
  BY <1>1, <1>2, PrefixFacts
<1>4. CASE at = 1
  <2>1. Store(Sending[at]) = <<Sending[1]>>
    BY <1>1, <1>4, StoreFacts
  <2>2. Len(<<Sending[1]>>) = 1 /\ <<Sending[1]>> \in Seq(Tokens)
        /\ <<Sending[1]>>[1] = Sending[1]
    BY <1>1, <1>4
  <2> QED
    BY <1>3, <1>4, <2>1, <2>2, SeqEqual
<1>5. CASE at # 1
  <2>1. uart_buf1 = SubSeq(Sending, 1, at - 1)
    BY <1>1, <1>2, <1>5 DEF LineInv, WholeSoFar
  <2>2. /\ Len(uart_buf1) = at - 1
        /\ \A i \in 1 .. at - 1 : uart_buf1[i] = Sending[i]
    BY <1>1, <1>2, <2>1, PrefixFacts
  <2>3. /\ Store(Sending[at]) \in Seq(Tokens)
        /\ Store(Sending[at]) = Append(uart_buf1, Sending[at])
    BY <1>1, <1>5, StoreFacts
  <2>4. /\ Len(Store(Sending[at])) = at
        /\ \A i \in 1 .. at - 1 : Store(Sending[at])[i] = Sending[i]
        /\ Store(Sending[at])[at] = Sending[at]
    BY <1>1, <1>2, <2>2, <2>3, AppendProperties
  <2>5. \A i \in 1 .. at : Store(Sending[at])[i] = Sending[i]
    BY <1>2, <2>4
  <2> QED
    BY <1>3, <2>3, <2>4, <2>5, SeqEqual
<1> QED
  BY <1>4, <1>5

\* A character arrives.
LEMMA ReceiveLine == LineInv /\ Receive => LineInv'
<1> SUFFICES ASSUME LineInv, Receive PROVE LineInv'
  OBVIOUS
<1> DEFINE b == Store(Sending[at])
<1>1. /\ TypeOK /\ CallContext /\ WholeSoFar
      /\ Advance(TRUE) /\ TRUE \in BOOLEAN /\ UNCHANGED call
  BY DEF LineInv, Receive
<1>2. TypeOK'
  BY <1>1, ReceiveTypes
<1>3. CallContext'
  <2>1. TakeLine(Line(b)) \/ KeepLine
    BY <1>1, ReceiveCases
  <2> HIDE DEF b
  <2>2. CASE TakeLine(Line(b))
    BY <1>1, <2>2 DEF CallContext, TakeLine, Parsing, Fix, call
  <2>3. CASE KeepLine
    BY <1>1, <2>3 DEF CallContext, KeepLine, Fix, call
  <2> QED
    BY <2>1, <2>2, <2>3
<1>4. WholeSoFar'
  <2> SUFFICES ASSUME ~ damaged', at' > 1
               PROVE  uart_buf1' = SubSeq(Sending', 1, at' - 1)
    BY DEF WholeSoFar
  <2>1. /\ Len(Sending) \in Nat /\ at \in 1 .. Len(Sending)
        /\ Sending \in Seq(Tokens)
    BY <1>1, SendingFacts
  <2>2. at < Len(Sending) \/ at = Len(Sending)
    BY <2>1
  <2>3. at < Len(Sending)
    <3>1. at = Len(Sending) => at' = 1
      BY <1>1, AdvanceFacts
    <3>2. ~ (1 > 1)
      OBVIOUS
    <3> QED
      BY <2>2, <3>1, <3>2
  <2>4. Sending' = Sending /\ at' = at + 1 /\ ~ damaged
    BY <1>1, <2>3, AdvanceFacts
  <2>5. b = SubSeq(Sending, 1, at)
    BY <2>4, WholeStored
  <2>6. /\ Len(b) = at /\ b[at] = Sending[at] /\ b[1] = Sending[1]
    <3>1. at \in 0 .. Len(Sending) /\ 1 \in 1 .. at /\ at \in 1 .. at
      BY <2>1
    <3> QED
      BY <2>1, <2>5, <3>1, PrefixFacts
  <2>7. Sending[at] # LF /\ Sending[1] = Dollar
    <3>1. at # Len(Sending)
      BY <2>1, <2>3
    <3> QED
      BY <1>1, <3>1, SendingFacts, SentenceTokens DEF Sending
  <2>8. ~ Ends(b) /\ b # <<LF>>
    BY <2>6, <2>7 DEF Ends, LF, Dollar
  <2>9. uart_buf1' = b
    BY <1>1, <2>8, ReceiveCases
  <2> QED
    BY <2>1, <2>4, <2>5, <2>9
<1> QED
  BY <1>2, <1>3, <1>4 DEF LineInv

\* The buffer of the line and the receiver are left alone.
LEMMA LineKept ==
    ASSUME WholeSoFar, UNCHANGED line
    PROVE  WholeSoFar'
BY DEF WholeSoFar, line, Sending, Sentence

\* A comma is found behind p.
LEMMA CommaFacts ==
    ASSUME TypeOK, Commas # {}
    PROVE  /\ Min(Commas) \in p .. Len(print_buf1)
           /\ print_buf1[Min(Commas)] = Comma
           /\ \A i \in p .. Len(print_buf1) :
                 print_buf1[i] = Comma /\ (\A j \in p .. i : print_buf1[j] # Nul)
                    => Min(Commas) <= i
<1>1. p \in Nat /\ Len(print_buf1) \in Nat
  BY LenProperties DEF TypeOK
<1>2. Commas \in SUBSET Nat
  BY <1>1 DEF Commas
<1>3. Min(Commas) \in Commas /\ \A y \in Commas : Min(Commas) <= y
  BY <1>2, MinFacts
<1> DEFINE m == Min(Commas)
<1> HIDE DEF m
<1>4. m \in Commas /\ \A y \in Commas : m <= y
  BY <1>3 DEF m
<1>5. /\ m \in p .. Len(print_buf1) /\ print_buf1[m] = Comma
      /\ \A i \in p .. Len(print_buf1) :
            print_buf1[i] = Comma /\ (\A j \in p .. i : print_buf1[j] # Nul)
               => m <= i
  BY <1>4 DEF Commas
<1> QED
  BY <1>5 DEF m

\* A call begins, or finds no line.
LEMMA CallLine == LineInv /\ (Call \/ CallInVain) => LineInv'
<1> SUFFICES ASSUME LineInv, Call \/ CallInVain PROVE LineInv'
  OBVIOUS
<1>1. TypeOK'
  BY DEF LineInv, TypeOK, Call, CallInVain, vars, line, call, Sending, Sentence
<1>2. CallContext'
  BY DEF LineInv, TypeOK, CallContext, Call, CallInVain, vars, line, call, Fix
<1>3. UNCHANGED line
  BY DEF Call, CallInVain, vars
<1> QED
  BY <1>1, <1>2, <1>3, LineKept DEF LineInv

\* The next comma is looked for.
LEMMA ScanLine == LineInv /\ Scan => LineInv'
<1> SUFFICES ASSUME LineInv, Scan PROVE LineInv'
  OBVIOUS
<1>1. /\ TypeOK /\ pc = "scan" /\ field \in 0 .. 7 /\ printit
      /\ UNCHANGED <<line, print_buf1, printit, during, lat, lon, given>>
  BY DEF LineInv, TypeOK, CallContext, Scan
<1>2. /\ pc' = "wild" /\ UNCHANGED <<field, p>>
      \/ /\ field' = field + 1 /\ p' \in Nat \ {0}
         /\ pc' = CASE field' \in {2, 3, 5} -> "read"
                    [] field' = 8 -> "done"
                    [] OTHER -> "scan"
  <2>1. CASE Commas = {}
    BY <2>1 DEF Scan
  <2>2. CASE Commas # {}
    <3>1. Min(Commas) \in p .. Len(print_buf1) /\ p \in Nat \ {0}
      BY <1>1, <2>2, CommaFacts DEF TypeOK
    <3> DEFINE m == Min(Commas)
    <3> HIDE DEF m
    <3>2. m + 1 \in Nat \ {0}
      BY <3>1 DEF m
    <3> QED
      BY <2>2, <3>2 DEF Scan, m
  <2> QED
    BY <2>1, <2>2
<1>3. field' \in 0 .. 8 /\ p' \in Nat \ {0}
      /\ pc' \in {"idle", "scan", "read", "done", "torn", "wild"}
  BY <1>1, <1>2 DEF TypeOK
<1>4. TypeOK'
  BY <1>1, <1>3 DEF TypeOK, line, Sending, Sentence
<1>5. CallContext'
  BY <1>1, <1>2 DEF CallContext, Fix
<1> QED
  BY <1>1, <1>4, <1>5, LineKept DEF LineInv

\* A field is read.
LEMMA ReadLine == LineInv /\ Read => LineInv'
<1> SUFFICES ASSUME LineInv, Read PROVE LineInv'
  OBVIOUS
<1>1. /\ TypeOK /\ pc = "read" /\ field \in {2, 3, 5} /\ printit
      /\ UNCHANGED <<line, print_buf1, printit, field, p, during, given>>
  BY DEF LineInv, CallContext, Read, ReadStatus, ReadLatitude, ReadLongitude
<1>2. \A t : Number(t) \in Id \cup {NoNumber}
  BY DEF Number
<1>3. /\ lat' \in Id \cup {NoNumber} /\ lon' \in Id \cup {NoNumber}
      /\ pc' = "scan" \/ (pc' = "done" /\ field \in {2, 3})
  BY <1>1, <1>2 DEF Read, ReadStatus, ReadLatitude, ReadLongitude, TypeOK
<1>4. TypeOK'
  BY <1>1, <1>3 DEF TypeOK, line, Sending, Sentence
<1>5. CallContext'
  BY <1>1, <1>3 DEF CallContext, Fix
<1> QED
  BY <1>1, <1>4, <1>5, LineKept DEF LineInv

\* The call ends.
LEMMA ReturnLine == LineInv /\ Return => LineInv'
<1> SUFFICES ASSUME LineInv, Return PROVE LineInv'
  OBVIOUS
<1>1. TypeOK /\ Leave /\ printit' = FALSE /\ UNCHANGED <<line, print_buf1>>
  BY DEF LineInv, Return
<1>2. given' \subseteq Id
  <2>1. Returned \subseteq Id
    BY <1>1 DEF Returned, TypeOK
  <2> QED
    BY <2>1 DEF Return
<1>3. during' \in 0 .. Burst /\ p' \in Nat \ {0} /\ field' \in 0 .. 8
  BY <1>1, GpsAssumption DEF Leave
<1>4. /\ lat' \in Id \cup {NoNumber} /\ lon' \in Id \cup {NoNumber}
      /\ printit' \in BOOLEAN /\ pc' = "idle"
  BY <1>1 DEF Leave
<1>5. TypeOK'
  BY <1>1, <1>2, <1>3, <1>4 DEF TypeOK, line, Sending, Sentence
<1>6. CallContext'
  BY <1>1 DEF CallContext, Leave, Fix
<1> QED
  BY <1>1, <1>5, <1>6, LineKept DEF LineInv

\* The line was replaced under the parser.
LEMMA TornLine == LineInv /\ Torn => LineInv'
<1> SUFFICES ASSUME LineInv, Torn PROVE LineInv'
  OBVIOUS
<1>1. /\ TypeOK /\ pc = "torn" /\ printit
      /\ UNCHANGED <<line, print_buf1, printit, p, during, given>>
  BY DEF LineInv, CallContext, Torn
<1>2. /\ lat' \in Id \cup {NoNumber} /\ lon' \in Id \cup {NoNumber}
      /\ field' \in 0 .. 8 /\ pc' \in {"done", "wild"}
  BY <1>1 DEF Torn, TypeOK
<1>3. TypeOK'
  BY <1>1, <1>2 DEF TypeOK, line, Sending, Sentence
<1>4. CallContext'
  BY <1>1, <1>2 DEF CallContext
<1> QED
  BY <1>1, <1>3, <1>4, LineKept DEF LineInv

\* The parser ran off the line: it returns, or the device restarts.
LEMMA WildLine == LineInv /\ Wild => LineInv'
<1> SUFFICES ASSUME LineInv, Wild PROVE LineInv'
  OBVIOUS
<1>1. TypeOK /\ pc = "wild" /\ printit
  BY DEF LineInv, CallContext, Wild
<1>2. CASE /\ pc' = "done"
           /\ field' = 8
           /\ UNCHANGED <<line, print_buf1, printit, p, during, lat, lon, given>>
  <2>1. TypeOK'
    BY <1>1, <1>2 DEF TypeOK, line, Sending, Sentence
  <2>2. CallContext'
    BY <1>1, <1>2 DEF CallContext
  <2> QED
    BY <1>2, <2>1, <2>2, LineKept DEF LineInv
<1>3. CASE /\ uart_buf1' = <<>>
           /\ print_buf1' = <<>>
           /\ printit' = FALSE
           /\ damaged' = TRUE
           /\ Leave
           /\ UNCHANGED <<kind, id, at, lost, given>>
  <2>1. /\ uart_buf1' \in Seq(Tokens) /\ print_buf1' \in Seq(Tokens)
        /\ printit' \in BOOLEAN /\ damaged' \in BOOLEAN
    BY <1>3, EmptySeq
  <2>2. during' \in 0 .. Burst /\ p' \in Nat \ {0} /\ field' \in 0 .. 8
    BY <1>3, GpsAssumption DEF Leave
  <2>3. lat' \in Id \cup {NoNumber} /\ lon' \in Id \cup {NoNumber} /\ pc' = "idle"
    BY <1>3 DEF Leave
  <2>4. TypeOK'
    BY <1>1, <1>3, <2>1, <2>2, <2>3 DEF TypeOK, Sending, Sentence
  <2>5. CallContext'
    BY <1>3 DEF CallContext, Leave, Fix
  <2>6. WholeSoFar'
    BY <1>3 DEF WholeSoFar
  <2> QED
    BY <2>4, <2>5, <2>6 DEF LineInv
<1> QED
  BY <1>2, <1>3 DEF Wild

\* Every step.
LEMMA NextLine == LineInv /\ [Next]_vars => LineInv'
<1>1. LineInv /\ UNCHANGED vars => LineInv'
  <2> SUFFICES ASSUME LineInv, UNCHANGED vars PROVE LineInv'
    OBVIOUS
  <2>1. UNCHANGED <<line, print_buf1, printit, call, pc, during, given>>
    BY DEF vars
  <2>2. TypeOK'
    BY <2>1 DEF LineInv, TypeOK, line, call, Sending, Sentence
  <2>3. CallContext'
    BY <2>1 DEF LineInv, CallContext, call, Fix
  <2> QED
    BY <2>1, <2>2, <2>3, LineKept DEF LineInv
<1> QED
  BY <1>1, LoseLine, ReceiveLine, CallLine, ScanLine, ReadLine, ReturnLine,
     TornLine, WildLine DEF Next, Parse

\* The invariant holds of every behaviour.
LEMMA LineHolds == Spec => []LineInv
<1>1. LineInv /\ [Next]_vars => LineInv'
  BY NextLine
<1> QED
  BY <1>1, InitLine, PTL DEF Spec

(* Every variable of the receiver, the handler and getGPS keeps its type,
   whatever is lost and however the line is replaced under the parser: the
   field counter stays within the eight the parser knows. *)
THEOREM TypeCorrect == Spec => []TypeOK
<1>1. LineInv => TypeOK
  BY DEF LineInv
<1> QED
  BY <1>1, LineHolds, PTL

\* The last character of a whole sentence hands it over.
LEMMA HandedOver ==
    ASSUME LineInv, LastToken, ~ damaged, kind # "other"
    PROVE  /\ printit' /\ print_buf1' = Line(Sending) /\ uart_buf1' = <<>>
           /\ Line(Sending) \in Seq(Tokens) /\ Len(Sending) > 13
<1> DEFINE b == Store(Sending[at])
           n == Len(Sending)
<1>1. /\ TypeOK /\ Receive /\ at = n /\ n \in Nat /\ n > 13
      /\ Sending \in Seq(Tokens)
  <2>1. /\ TypeOK /\ Receive /\ at = n /\ Sending \in Seq(Tokens)
        /\ n = SentenceLength(kind) /\ kind \in {"fix", "nofix"}
    BY SendingFacts DEF LineInv, LastToken, Kinds
  <2>2. SentenceLength(kind) \in Nat /\ SentenceLength(kind) > 13
    BY <2>1 DEF SentenceLength
  <2> QED
    BY <2>1, <2>2
<1>2. b = Sending
  <2>1. b = SubSeq(Sending, 1, n)
    BY <1>1, WholeStored
  <2>2. n \in 0 .. Len(Sending) /\ Len(Sending) \in Nat
    BY <1>1
  <2>3. /\ SubSeq(Sending, 1, n) \in Seq(Tokens)
        /\ Len(SubSeq(Sending, 1, n)) = n
        /\ \A i \in 1 .. n : SubSeq(Sending, 1, n)[i] = Sending[i]
    BY <1>1, <2>2, PrefixFacts
  <2> QED
    BY <1>1, <2>1, <2>3, SeqEqual
<1>3. /\ Sending[1] = Dollar /\ Sending[2] = RMC
      /\ Sending[n] = LF /\ Sending[n - 1] = CR
  <2>1. /\ kind \in Kinds /\ id \in Id /\ n = SentenceLength(kind)
        /\ n \in 1 .. n /\ n - 1 \in 1 .. n
    BY <1>1, SendingFacts
  <2> QED
    BY <2>1, SentenceTokens DEF Sending
<1>4. Ends(b)
  BY <1>1, <1>2, <1>3 DEF Ends
<1>5. /\ Line(Sending) \in Seq(Tokens) /\ Len(Line(Sending)) = n
      /\ Line(Sending)[1] = Dollar /\ Line(Sending)[2] = RMC
  <2>1. /\ Line(Sending) \in Seq(Tokens) /\ Len(Line(Sending)) = n
        /\ \A i \in 1 .. n - 2 : Line(Sending)[i] = Sending[i]
    <3>1. Sending \in Seq(Tokens) /\ Len(Sending) > 1
      BY <1>1
    <3> QED
      BY ONLY <3>1, LineFacts
  <2>2. 1 \in 1 .. n - 2 /\ 2 \in 1 .. n - 2
    BY <1>1
  <2> QED
    BY <1>3, <2>1, <2>2
<1>6. IsPrefix(<<Dollar, RMC>>, Line(Sending))
  <2> DEFINE l == Line(Sending)
             d == <<Dollar, RMC>>
  <2>1. l \in Seq(Tokens) /\ 2 \in 0 .. Len(l)
    BY <1>1, <1>5
  <2>2. d \in Seq(Tokens) /\ Len(d) = 2 /\ d[1] = Dollar /\ d[2] = RMC
    BY GpsAssumption DEF Tokens, Dollar, RMC
  <2> HIDE DEF l
  <2>3. /\ SubSeq(l, 1, 2) \in Seq(Tokens) /\ Len(SubSeq(l, 1, 2)) = 2
        /\ \A i \in 1 .. 2 : SubSeq(l, 1, 2)[i] = l[i]
    BY <2>1, PrefixFacts
  <2>4. \A i \in 1 .. 2 : SubSeq(l, 1, 2)[i] = d[i]
    BY <1>5, <2>2, <2>3 DEF l
  <2>5. SubSeq(l, 1, 2) = d
    BY <2>2, <2>3, <2>4, SeqEqual
  <2>6. SubSeq(d, 1, 2) = d
    <3>1. 2 \in 0 .. Len(d)
      BY <2>2
    <3> HIDE DEF d
    <3>2. /\ SubSeq(d, 1, 2) \in Seq(Tokens) /\ Len(SubSeq(d, 1, 2)) = 2
          /\ \A i \in 1 .. 2 : SubSeq(d, 1, 2)[i] = d[i]
      BY <2>2, <3>1, PrefixFacts
    <3> QED
      BY <2>2, <3>2, SeqEqual
  <2>7. 2 <= Len(l)
    BY <2>1
  <2> HIDE DEF d
  <2> QED
    BY <2>2, <2>5, <2>6, <2>7 DEF IsPrefix, d, l
<1>7. printit' /\ print_buf1' = Line(Sending) /\ uart_buf1' = <<>>
  BY <1>1, <1>2, <1>4, <1>6, ReceiveCases DEF TakeLine
<1> QED
  BY <1>1, <1>5, <1>7

(* A sentence that arrives whole is handed over as it is: resynchronisation
   takes one dollar, whatever is in the buffer and whatever getGPS does. *)
THEOREM ResyncHolds == Spec => Resynchronizes
<1>1. ASSUME LineInv, LastToken, ~ damaged, kind # "other"
      PROVE  /\ printit'
             /\ IsPrefix(Front(Front(Sending)) \o <<LF, Nul>>, print_buf1')
  <2> DEFINE n == Len(Sending)
  <2>1. /\ printit' /\ print_buf1' = Line(Sending)
        /\ Line(Sending) \in Seq(Tokens)
    BY <1>1, HandedOver
  <2>2. Sending \in Seq(Tokens) /\ n \in Nat /\ n > 13
    BY <1>1, HandedOver, SendingFacts, LenProperties DEF LineInv
  <2>3. Front(Front(Sending)) = SubSeq(Sending, 1, n - 2)
    <3>1. Sending # <<>>
      BY <2>2
    <3>2. /\ Front(Sending) \in Seq(Tokens) /\ Len(Front(Sending)) = n - 1
          /\ \A i \in 1 .. n - 1 : Front(Sending)[i] = Sending[i]
      <4>1. n - 1 \in 0 .. Len(Sending)
        BY <2>2
      <4> QED
        BY <2>2, <4>1, PrefixFacts DEF Front
    <3> DEFINE f == Front(Sending)
    <3> HIDE DEF f
    <3>3. n - 2 \in 0 .. n - 1 /\ n - 2 \in 0 .. Len(Sending) /\ n - 1 - 1 = n - 2
      BY <2>2
    <3>4. /\ SubSeq(f, 1, n - 2) \in Seq(Tokens) /\ Len(SubSeq(f, 1, n - 2)) = n - 2
          /\ \A i \in 1 .. n - 2 : SubSeq(f, 1, n - 2)[i] = f[i]
      BY <3>2, <3>3, PrefixFacts DEF f
    <3>5. /\ SubSeq(Sending, 1, n - 2) \in Seq(Tokens)
          /\ Len(SubSeq(Sending, 1, n - 2)) = n - 2
          /\ \A i \in 1 .. n - 2 : SubSeq(Sending, 1, n - 2)[i] = Sending[i]
      BY <2>2, <3>3, PrefixFacts
    <3>6. \A i \in 1 .. n - 2 : i \in 1 .. n - 1
      BY <2>2
    <3>7. SubSeq(f, 1, n - 2) = SubSeq(Sending, 1, n - 2)
      BY <3>2, <3>4, <3>5, <3>6, SeqEqual DEF f
    <3>8. Front(f) = SubSeq(f, 1, n - 2)
      BY <3>2, <3>3 DEF Front, f
    <3> QED
      BY <3>7, <3>8 DEF f
  <2>4. Front(Front(Sending)) \o <<LF, Nul>> = Line(Sending)
    BY <2>3 DEF Line
  <2>5. IsPrefix(Line(Sending), Line(Sending))
    <3> DEFINE l == Line(Sending)
    <3>1. l \in Seq(Tokens) /\ Len(l) \in Nat
      BY <2>1, LenProperties
    <3>2. Len(l) <= Len(l)
      BY <3>1
    <3> QED
      BY <3>2 DEF IsPrefix
  <2> QED
    BY <2>1, <2>4, <2>5
<1>2. LineInv /\ [Next]_vars =>
        [LastToken /\ ~ damaged /\ kind # "other" =>
          /\ printit'
          /\ IsPrefix(Front(Front(Sending)) \o <<LF, Nul>>, print_buf1')]_vars
  BY <1>1
<1> QED
  BY <1>2, LineHolds, PTL DEF Spec, Resynchronizes

-----------------------------------------------------------------------------
(* The terminator, and where a field is read *)

(* The line in the making holds no terminator, a line handed over exactly the
   one at its end: a field is read behind a comma, and a comma is never last. *)
Terminated ==
    /\ \A i \in 1 .. Len(uart_buf1) : uart_buf1[i] # Nul
    /\ \A i \in 1 .. Len(print_buf1) :
          (print_buf1[i] = Nul) = (i = Len(print_buf1))
    /\ pc = "read" => p - 1 \in CommasOf(print_buf1)

TextInv == LineInv /\ Terminated

\* The commas of a line.
LEMMA CommasOfLine ==
    ASSUME NEW b \in Seq(Tokens)
    PROVE  \A i : i \in CommasOf(b) <=> i \in 1 .. Len(b) /\ b[i] = Comma
<1>1. DOMAIN b = 1 .. Len(b)
  BY LenProperties
<1> QED
  BY <1>1 DEF CommasOf

\* The line so far with its next character has no terminator either.
LEMMA NoNulStored ==
    ASSUME TypeOK, Terminated
    PROVE  LET b == Store(Sending[at])
           IN  b \in Seq(Tokens) /\ \A i \in 1 .. Len(b) : b[i] # Nul
<1> DEFINE c == Sending[at]
<1>1. c \in Tokens /\ c # Nul /\ uart_buf1 \in Seq(Tokens)
      /\ Len(uart_buf1) \in Nat
  BY SendingFacts, LenProperties DEF TypeOK
<1> HIDE DEF c
<1>2. Store(c) \in Seq(Tokens)
  BY <1>1, StoreFacts
<1>3. CASE c = Dollar
  <2>1. Store(c) = <<c>>
    BY <1>1, <1>3, StoreFacts
  <2> QED
    BY <1>1, <1>2, <2>1 DEF c
<1>4. CASE c # Dollar
  <2>1. /\ Len(Store(c)) = Len(uart_buf1) + 1
        /\ \A i \in 1 .. Len(uart_buf1) : Store(c)[i] = uart_buf1[i]
        /\ Store(c)[Len(Store(c))] = c
    BY <1>1, <1>4, StoreFacts
  <2>2. \A i \in 1 .. Len(uart_buf1) : Store(c)[i] # Nul
    BY <2>1 DEF Terminated
  <2>3. \A i \in 1 .. Len(Store(c)) : i \in 1 .. Len(uart_buf1) \/ i = Len(Store(c))
    BY <1>1, <2>1
  <2>4. \A i \in 1 .. Len(Store(c)) : Store(c)[i] # Nul
    BY <1>1, <2>1, <2>2, <2>3
  <2> QED
    BY <1>2, <2>4 DEF c
<1> QED
  BY <1>3, <1>4

\* A character arrives.
LEMMA ReceiveText == TextInv /\ Receive => TextInv'
<1> SUFFICES ASSUME TextInv, Receive PROVE TextInv'
  OBVIOUS
<1> DEFINE b == Store(Sending[at])
<1>1. TypeOK /\ Terminated /\ UNCHANGED call
  BY DEF TextInv, LineInv, Receive
<1>2. b \in Seq(Tokens) /\ \A i \in 1 .. Len(b) : b[i] # Nul
  BY <1>1, NoNulStored
<1>3. \/ Ends(b) /\ uart_buf1' = <<>> /\ TakeLine(Line(b))
      \/ KeepLine /\ uart_buf1' \in {b, <<>>}
  BY <1>1, ReceiveCases
<1> HIDE DEF b
<1>4. \A i \in 1 .. Len(uart_buf1') : uart_buf1'[i] # Nul
  BY <1>2, <1>3
<1>5. CASE Ends(b) /\ uart_buf1' = <<>> /\ TakeLine(Line(b))
  <2>1. Len(b) > 1 /\ Len(b) \in Nat
    BY <1>2, <1>5, LenProperties DEF Ends
  <2>2. /\ Line(b) \in Seq(Tokens)
        /\ Len(Line(b)) = Len(b)
        /\ \A i \in 1 .. Len(b) - 2 : Line(b)[i] = b[i]
        /\ Line(b)[Len(b) - 1] = LF
        /\ Line(b)[Len(b)] = Nul
    BY <1>2, <2>1, LineFacts
  <2>3. \A i \in 1 .. Len(b) : i \in 1 .. Len(b) - 2 \/ i = Len(b) - 1 \/ i = Len(b)
    BY <2>1
  <2>4. \A i \in 1 .. Len(b) : (Line(b)[i] = Nul) = (i = Len(b))
    <3> SUFFICES ASSUME NEW i \in 1 .. Len(b)
                 PROVE  (Line(b)[i] = Nul) = (i = Len(b))
      OBVIOUS
    <3>1. CASE i \in 1 .. Len(b) - 2
      <4>1. Line(b)[i] # Nul
        BY <1>2, <2>2, <3>1
      <4>2. i # Len(b)
        BY <2>1, <3>1
      <4> QED
        BY <4>1, <4>2
    <3>2. CASE i = Len(b) - 1
      <4>1. i # Len(b)
        BY <2>1, <3>2
      <4>2. Line(b)[i] # Nul
        BY <2>2, <3>2 DEF LF, Nul
      <4> QED
        BY <4>1, <4>2
    <3>3. CASE i = Len(b)
      BY <2>2, <3>3
    <3> QED
      BY <2>3, <3>1, <3>2, <3>3
  <2>5. print_buf1' = Line(b)
    BY <1>5 DEF TakeLine
  <2>6. pc' = "read" => p' - 1 \in CommasOf(print_buf1')
    BY <1>1, <1>5 DEF Terminated, TakeLine, Parsing, call
  <2> QED
    BY <1>4, <2>2, <2>4, <2>5, <2>6, ReceiveLine DEF TextInv, Terminated
<1>6. CASE KeepLine /\ uart_buf1' \in {b, <<>>}
  BY <1>1, <1>4, <1>6, ReceiveLine DEF TextInv, Terminated, KeepLine, call, CommasOf
<1> QED
  BY <1>3, <1>5, <1>6

\* The next comma is looked for.
LEMMA ScanText == TextInv /\ Scan => TextInv'
<1> SUFFICES ASSUME TextInv, Scan PROVE TextInv'
  OBVIOUS
<1>1. TypeOK /\ Terminated /\ UNCHANGED <<line, print_buf1>>
  BY DEF TextInv, LineInv, Scan
<1>2. pc' = "read" => p' - 1 \in CommasOf(print_buf1)
  <2>1. CASE Commas = {}
    BY <2>1 DEF Scan
  <2>2. CASE Commas # {}
    <3> DEFINE m == Min(Commas)
    <3>1. /\ m \in p .. Len(print_buf1) /\ p \in Nat \ {0} /\ print_buf1[m] = Comma
          /\ p' = m + 1
      BY <1>1, <2>2, CommaFacts DEF TypeOK, Scan
    <3>2. print_buf1 \in Seq(Tokens) /\ Len(print_buf1) \in Nat
      BY <1>1, LenProperties DEF TypeOK
    <3> HIDE DEF m
    <3>3. m \in 1 .. Len(print_buf1)
      BY <3>1, <3>2
    <3>4. m \in CommasOf(print_buf1)
      BY <3>1, <3>2, <3>3, CommasOfLine
    <3>5. p' - 1 = m
      BY <3>1, <3>2
    <3> QED
      BY <3>4, <3>5
  <2> QED
    BY <2>1, <2>2
<1> QED
  BY <1>1, <1>2, ScanLine DEF TextInv, Terminated, line, CommasOf

\* The other steps leave the lines alone, or empty them both.
LEMMA OtherText ==
    TextInv /\ (Lose \/ Call \/ CallInVain \/ Read \/ Return \/ Torn \/ Wild)
        => Terminated'
<1> SUFFICES ASSUME TextInv, Lose \/ Call \/ CallInVain \/ Read \/ Return \/ Torn \/ Wild
             PROVE  Terminated'
  OBVIOUS
<1>1. \/ /\ UNCHANGED <<uart_buf1, print_buf1>>
         /\ pc' # "read" \/ UNCHANGED <<pc, p>>
      \/ uart_buf1' = <<>> /\ print_buf1' = <<>> /\ pc' = "idle"
  BY DEF Lose, Call, CallInVain, Read, ReadStatus, ReadLatitude, ReadLongitude,
         Return, Torn, Wild, Leave, call, vars, line
<1> QED
  BY <1>1 DEF TextInv, Terminated, CommasOf

\* Every step.
LEMMA NextText == TextInv /\ [Next]_vars => TextInv'
<1>1. TextInv /\ UNCHANGED vars => TextInv'
  <2> SUFFICES ASSUME TextInv, UNCHANGED vars PROVE Terminated'
    BY NextLine DEF TextInv
  <2> QED
    BY DEF TextInv, Terminated, CommasOf, vars, line, call
<1>2. ASSUME TextInv, Lose \/ Call \/ CallInVain \/ Read \/ Return \/ Torn \/ Wild
      PROVE  TextInv'
  <2>1. Terminated'
    BY <1>2, OtherText
  <2>2. LineInv'
    BY <1>2, NextLine DEF TextInv, Next, Parse
  <2> QED
    BY <2>1, <2>2 DEF TextInv
<1> QED
  BY <1>1, <1>2, ReceiveText, ScanText DEF Next, Parse

\* The initial state.
LEMMA InitText == Init => TextInv
<1> SUFFICES ASSUME Init PROVE Terminated
  BY InitLine DEF TextInv
<1> QED
  BY DEF Init, Terminated

-----------------------------------------------------------------------------
(* The positions in the buffers *)

NumbersIn(b) == {n \in Id : \E i \in 1 .. Len(b) : b[i] = n}

Parsed == {lat, lon} \cap Id

\* The positions the line in the making may hold when it got a character.
Fresh == NumbersIn(uart_buf1) \cup (IF kind = "fix" THEN {id} ELSE {})

\* How many fixes ago a position was the one being sent.
Age(n) == IF n <= id THEN id - n ELSE id - n + Ids

(* More positions are told apart than can be in flight: a position comes back
   only when no buffer and no call has it. *)
EnoughIds == Ids >= MaxLost + Burst + 3

\* A whole fix replaces the line; a damaged one needs a lost character.
Oldest == IF kind = "fix" /\ ~ damaged THEN lost + 1 ELSE lost

\* Nothing that was returned can be parsed again.
Unused ==
    /\ NumbersIn(uart_buf1) \cap given = {}
    /\ printit => NumbersIn(print_buf1) \cap given = {}
    /\ Parsed \cap given = {}

\* The line in the making is a later one than the line being parsed.
Apart == NumbersIn(uart_buf1) \cap (NumbersIn(print_buf1) \cup Parsed) = {}

\* The position being sent is in no line, no call and no history.
NewNumber == kind = "fix" => id \notin given \cup NumbersIn(print_buf1) \cup Parsed

Recent ==
    /\ \A n \in NumbersIn(print_buf1) \cup NumbersIn(uart_buf1) : Age(n) <= Oldest
    /\ \A n \in Parsed : Age(n) <= lost + 1 + during

NumberInv == TextInv /\ Unused /\ Apart /\ NewNumber /\ Recent

\* The elements of a line, as the model writes them.
LEMMA NumbersInSet ==
    ASSUME NEW b \in Seq(Tokens)
    PROVE  NumbersIn(b) = ToSet(b) \cap Id
<1>1. DOMAIN b = 1 .. Len(b)
  BY LenProperties
<1> QED
  BY <1>1 DEF NumbersIn, ToSet

\* The empty line.
LEMMA NumbersEmpty == NumbersIn(<<>>) = {}
BY DEF NumbersIn

\* A line that is handed over keeps its positions, and gets no others.
LEMMA NumbersOfLine ==
    ASSUME NEW b \in Seq(Tokens), Len(b) > 1
    PROVE  NumbersIn(Line(b)) \subseteq NumbersIn(b)
<1> SUFFICES ASSUME NEW i \in 1 .. Len(Line(b)), Line(b)[i] \in Id
             PROVE  \E j \in 1 .. Len(b) : b[j] = Line(b)[i]
  BY DEF NumbersIn
<1>1. /\ Len(Line(b)) = Len(b)
      /\ \A j \in 1 .. Len(b) - 2 : Line(b)[j] = b[j]
      /\ Line(b)[Len(b) - 1] = LF
      /\ Line(b)[Len(b)] = Nul
      /\ Len(b) \in Nat
  BY LineFacts, LenProperties
<1>2. LF \notin Id /\ Nul \notin Id
  BY GpsAssumption DEF Id, LF, Nul
<1>3. i # Len(b) - 1 /\ i # Len(b)
  BY <1>1, <1>2
<1>4. i \in 1 .. Len(b) - 2 /\ i \in 1 .. Len(b)
  BY <1>1, <1>3
<1> QED
  BY <1>1, <1>4

\* The line so far with its next character.
LEMMA NumbersStored ==
    ASSUME TypeOK
    PROVE  LET b == Store(Sending[at])
           IN  /\ b \in Seq(Tokens)
               /\ NumbersIn(b) \subseteq Fresh
               /\ at = Len(Sending) => NumbersIn(b) \subseteq NumbersIn(uart_buf1)
<1> DEFINE c == Sending[at]
<1>1. /\ c \in Tokens /\ uart_buf1 \in Seq(Tokens) /\ Len(uart_buf1) \in Nat
      /\ (c = LF) = (at = Len(Sending))
      /\ c \in Id => kind = "fix" /\ c = id
  BY SendingFacts, LenProperties DEF TypeOK
<1>2. Dollar \notin Id /\ LF \notin Id
  BY GpsAssumption DEF Id, Dollar, LF
<1> HIDE DEF c
<1>3. Store(c) \in Seq(Tokens)
  BY <1>1, StoreFacts
<1>4. \A i \in 1 .. Len(Store(c)) :
        Store(c)[i] = c \/ \E j \in 1 .. Len(uart_buf1) : Store(c)[i] = uart_buf1[j]
  <2>1. CASE c = Dollar
    <3>1. Store(c) = <<c>>
      BY <1>1, <2>1, StoreFacts
    <3> QED
      BY <3>1
  <2>2. CASE c # Dollar
    <3>1. /\ Len(Store(c)) = Len(uart_buf1) + 1
          /\ \A i \in 1 .. Len(uart_buf1) : Store(c)[i] = uart_buf1[i]
          /\ Store(c)[Len(Store(c))] = c
      BY <1>1, <2>2, StoreFacts
    <3>2. \A i \in 1 .. Len(Store(c)) : i \in 1 .. Len(uart_buf1) \/ i = Len(Store(c))
      BY <1>1, <3>1
    <3> QED
      BY <3>1, <3>2
  <2> QED
    BY <2>1, <2>2
<1>5. NumbersIn(Store(c)) \subseteq NumbersIn(uart_buf1) \cup ({c} \cap Id)
  BY <1>4 DEF NumbersIn
<1>6. {c} \cap Id \subseteq IF kind = "fix" THEN {id} ELSE {}
  BY <1>1
<1>7. at = Len(Sending) => {c} \cap Id = {}
  BY <1>1, <1>2
<1> QED
  BY <1>3, <1>5, <1>6, <1>7 DEF Fresh, c

\* A sentence that is not a fix carries no position, a fix its own.
LEMMA NumbersSent ==
    ASSUME TypeOK
    PROVE  NumbersIn(Sending) \subseteq IF kind = "fix" THEN {id} ELSE {}
<1>1. /\ kind \in Kinds /\ id \in Id /\ Len(Sending) = SentenceLength(kind)
  BY SendingFacts
<1>2. \A i \in 1 .. Len(Sending) :
         Sending[i] \in Id => kind = "fix" /\ Sending[i] = id
  BY <1>1, SentenceTokens DEF Sending
<1> QED
  BY <1>2 DEF NumbersIn

\* The age of a position when the receiver goes on.
LEMMA AgeFacts ==
    ASSUME NEW n \in Id, id \in Id
    PROVE  /\ Age(n) \in Nat /\ Age(id) = 0
           /\ id' \in Id => Age(n)' \in Nat
           /\ id' = id => Age(n)' = Age(n)
           /\ id' = (id + 1) % Ids /\ Age(n) < Ids - 1 =>
                 id' # n /\ Age(n)' = Age(n) + 1
<1>1. Ids \in Nat \ {0} /\ n \in 0 .. Ids - 1 /\ id \in 0 .. Ids - 1
  BY GpsAssumption DEF Id
<1>2. Age(n) \in Nat /\ Age(id) = 0
  BY <1>1 DEF Age
<1>3. id' = id => Age(n)' = Age(n)
  BY DEF Age
<1>4. ASSUME id' = (id + 1) % Ids, Age(n) < Ids - 1
      PROVE  id' # n /\ Age(n)' = Age(n) + 1
  <2>1. id' = IF id = Ids - 1 THEN 0 ELSE id + 1
    BY <1>4, NextId
  <2>2. CASE n <= id
    BY <1>1, <1>4, <2>1, <2>2 DEF Age
  <2>3. CASE n > id
    BY <1>1, <1>4, <2>1, <2>3 DEF Age
  <2> QED
    BY <1>1, <2>2, <2>3
<1>5. ASSUME id' \in Id PROVE Age(n)' \in Nat
  <2>1. \A m \in Id : (IF n <= m THEN m - n ELSE m - n + Ids) \in Nat
    BY <1>1 DEF Id
  <2> QED
    BY <1>5, <2>1, Zenon DEF Age
<1> QED
  BY <1>2, <1>3, <1>4, <1>5

\* Positions in flight age by one with each fix, and the new one is not among them.
LEMMA AgesAdvance ==
    ASSUME TypeOK, EnoughIds, NEW whole \in BOOLEAN, Advance(whole),
           NEW S, S \subseteq Id, NEW k \in Nat, k <= MaxLost + Burst + 1,
           \A n \in S : Age(n) <= k
    PROVE  /\ \A n \in S : Age(n)' \in Nat
           /\ at < Len(Sending) => \A n \in S : Age(n)' <= k
           /\ at = Len(Sending) /\ kind' # "fix" => \A n \in S : Age(n)' <= k
           /\ at = Len(Sending) /\ kind' = "fix" =>
                 id' \notin S /\ \A n \in S : Age(n)' <= k + 1
<1>1. id \in Id /\ Ids \in Nat /\ k < Ids - 1
  BY GpsAssumption DEF TypeOK, EnoughIds
<1>0. \A n \in S : Age(n)' \in Nat
  <2>1. id' \in Id /\ \A n \in S : n \in Id
    BY AdvanceFacts
  <2> QED
    BY <1>1, <2>1, AgeFacts
<1>2. at < Len(Sending) => id' = id
  BY AdvanceFacts
<1>3. at = Len(Sending) => id' = IF kind' = "fix" THEN (id + 1) % Ids ELSE id
  BY AdvanceFacts
<1>4. ASSUME NEW n \in S, id' = id
      PROVE  Age(n)' <= k
  BY <1>1, <1>4, AgeFacts
<1>5. ASSUME NEW n \in S, id' = (id + 1) % Ids
      PROVE  id' # n /\ Age(n)' <= k + 1
  <2>1. Age(n) \in Nat /\ Age(n) <= k /\ n \in Id
    BY <1>1, AgeFacts
  <2>2. Age(n) < Ids - 1
    BY <1>1, <2>1
  <2>3. id' # n /\ Age(n)' = Age(n) + 1
    BY <1>1, <1>5, <2>1, <2>2, AgeFacts
  <2> QED
    BY <2>1, <2>3
<1> QED
  BY <1>0, <1>2, <1>3, <1>4, <1>5

\* Where the positions go when a character arrives.
LEMMA ReceiveNumbers ==
    ASSUME LineInv, Receive
    PROVE  /\ \/ /\ UNCHANGED <<print_buf1, printit>>
                 /\ NumbersIn(uart_buf1') \subseteq Fresh
                 /\ at = Len(Sending) =>
                       NumbersIn(uart_buf1') \subseteq NumbersIn(uart_buf1)
              \/ /\ at = Len(Sending)
                 /\ uart_buf1' = <<>>
                 /\ NumbersIn(print_buf1') \subseteq NumbersIn(uart_buf1)
           /\ at = Len(Sending) /\ ~ damaged /\ kind = "fix" =>
                 uart_buf1' = <<>> /\ NumbersIn(print_buf1') \subseteq {id}
<1> DEFINE b == Store(Sending[at])
<1>1. TypeOK /\ uart_buf1 \in Seq(Tokens) /\ Sending[at] \in Tokens
      /\ (Sending[at] = LF) = (at = Len(Sending))
  BY SendingFacts DEF LineInv, TypeOK
<1>2. /\ b \in Seq(Tokens)
      /\ NumbersIn(b) \subseteq Fresh
      /\ at = Len(Sending) => NumbersIn(b) \subseteq NumbersIn(uart_buf1)
  BY <1>1, NumbersStored
<1>3. b[Len(b)] = Sending[at]
  BY <1>1, StoreFacts
<1>4. \/ Ends(b) /\ uart_buf1' = <<>> /\ TakeLine(Line(b))
      \/ KeepLine /\ uart_buf1' \in {b, <<>>}
  BY <1>1, ReceiveCases
<1> HIDE DEF b
<1> DEFINE Moves ==
             \/ /\ UNCHANGED <<print_buf1, printit>>
                /\ NumbersIn(uart_buf1') \subseteq Fresh
                /\ at = Len(Sending) =>
                      NumbersIn(uart_buf1') \subseteq NumbersIn(uart_buf1)
             \/ /\ at = Len(Sending)
                /\ uart_buf1' = <<>>
                /\ NumbersIn(print_buf1') \subseteq NumbersIn(uart_buf1)
<1>5. ASSUME Ends(b) /\ uart_buf1' = <<>> /\ TakeLine(Line(b))
      PROVE  Moves
  <2>1. at = Len(Sending)
    BY <1>1, <1>3, <1>5 DEF Ends
  <2>2. NumbersIn(Line(b)) \subseteq NumbersIn(b)
    BY <1>2, <1>5, NumbersOfLine DEF Ends
  <2>3. print_buf1' = Line(b)
    BY <1>5 DEF TakeLine
  <2> QED
    BY <1>2, <1>5, <2>1, <2>2, <2>3
<1>6. ASSUME KeepLine /\ uart_buf1' \in {b, <<>>}
      PROVE  Moves
  BY <1>2, <1>6, NumbersEmpty DEF KeepLine
<1> HIDE DEF Moves
<1>7. ASSUME at = Len(Sending), ~ damaged, kind = "fix"
      PROVE  uart_buf1' = <<>> /\ NumbersIn(print_buf1') \subseteq {id}
  <2>1. /\ print_buf1' = Line(Sending) /\ uart_buf1' = <<>>
        /\ Len(Sending) > 13
    BY <1>7, HandedOver DEF LastToken
  <2>2. Sending \in Seq(Tokens) /\ Len(Sending) \in Nat
    BY <1>1, SendingFacts, LenProperties
  <2>3. NumbersIn(Line(Sending)) \subseteq NumbersIn(Sending)
    BY <2>1, <2>2, NumbersOfLine
  <2> QED
    BY <1>1, <1>7, <2>1, <2>3, NumbersSent
<1> QED
  BY <1>4, <1>5, <1>6, <1>7 DEF Moves

\* The history after the receiver went on.
LEMMA NumberBounds ==
    ASSUME NumberInv
    PROVE  /\ TypeOK /\ LineInv
           /\ lost \in Nat /\ lost <= MaxLost /\ during \in Nat /\ during <= Burst
           /\ MaxLost \in Nat /\ Burst \in Nat
           /\ Oldest \in Nat /\ Oldest <= lost + 1
           /\ ~ (kind = "fix" /\ ~ damaged) => Oldest = lost
           /\ Parsed \subseteq Id
           /\ pc = "idle" => Parsed = {}
<1>1. TypeOK /\ LineInv /\ CallContext
  BY DEF NumberInv, TextInv, LineInv
<1>2. NoNumber \notin Id
  BY GpsAssumption DEF Id, NoNumber
<1>3. /\ lost \in Nat /\ lost <= MaxLost /\ during \in Nat /\ during <= Burst
      /\ MaxLost \in Nat /\ Burst \in Nat
  BY <1>1, GpsAssumption DEF TypeOK
<1>4. pc = "idle" => Parsed = {}
  BY <1>1, <1>2 DEF CallContext, Parsed
<1> QED
  BY <1>1, <1>3, <1>4 DEF Oldest, Parsed

\* A character gets lost.
LEMMA LoseNumbers == EnoughIds /\ NumberInv /\ Lose => NumberInv'
<1> SUFFICES ASSUME EnoughIds, NumberInv, Lose PROVE NumberInv'
  OBVIOUS
<1> DEFINE U == NumbersIn(uart_buf1)
           P == NumbersIn(print_buf1)
<1>1. /\ TypeOK /\ Advance(FALSE) /\ FALSE \in BOOLEAN /\ lost' = lost + 1
      /\ UNCHANGED <<uart_buf1, print_buf1, printit, pc, during, call>>
  BY NumberBounds DEF Lose
<1>2. TextInv'
  BY NextText DEF NumberInv, Next
<1>3. U' = U /\ P' = P /\ Parsed' = Parsed /\ U \cup P \subseteq Id
  BY <1>1 DEF NumbersIn, Parsed, call
<1>4. given' \subseteq given
  BY <1>1, AdvanceFacts
<1>5. Unused'
  BY <1>1, <1>3, <1>4 DEF Unused, NumberInv
<1>6. Apart'
  BY <1>1, <1>3 DEF Apart, NumberInv
<1>7. at < Len(Sending) \/ at = Len(Sending)
  <2>1. Len(Sending) \in Nat /\ at \in 1 .. Len(Sending)
    BY <1>1, SendingFacts
  <2> QED
    BY <2>1
<1>8. /\ Oldest \in Nat /\ Oldest <= lost + 1 /\ Oldest <= MaxLost + Burst + 1
      /\ lost + 1 + during \in Nat /\ lost + 1 + during <= MaxLost + Burst + 1
      /\ lost \in Nat /\ during \in Nat
  <2>1. /\ lost \in Nat /\ lost <= MaxLost /\ during \in Nat /\ during <= Burst
        /\ MaxLost \in Nat /\ Burst \in Nat
        /\ Oldest \in Nat /\ Oldest <= lost + 1
    BY NumberBounds
  <2> QED
    BY <2>1
<1>9. /\ U \cup P \subseteq Id /\ \A n \in U \cup P : Age(n) <= Oldest
      /\ Parsed \subseteq Id /\ \A n \in Parsed : Age(n) <= lost + 1 + during
  BY <1>3, NumberBounds DEF Recent, NumberInv
<1> HIDE DEF U, P
<1>10. CASE at < Len(Sending)
  <2>1. /\ \A n \in U \cup P : Age(n)' <= Oldest
        /\ \A n \in Parsed : Age(n)' <= lost + 1 + during
    BY <1>1, <1>8, <1>9, <1>10, AgesAdvance
  <2>2. kind' = kind /\ id' = id /\ given' = given /\ damaged' = TRUE
    BY <1>1, <1>10, AdvanceFacts
  <2>3. NewNumber'
    BY <1>3, <2>2 DEF NewNumber, NumberInv, P
  <2>4. Oldest' = lost + 1
    BY <1>1, <2>2 DEF Oldest
  <2>5. \A n \in U \cup P \cup Parsed : Age(n)' \in Nat
    BY <1>1, <1>8, <1>9, AgesAdvance
  <2>7. Recent'
    BY <1>1, <1>3, <1>8, <2>1, <2>4, <2>5 DEF Recent, U, P
  <2> QED
    BY <1>2, <1>5, <1>6, <2>3, <2>7 DEF NumberInv
<1>11. CASE at = Len(Sending)
  <2>1. /\ \A n \in U \cup P \cup Parsed : Age(n)' \in Nat
        /\ kind' # "fix" =>
              /\ \A n \in U \cup P : Age(n)' <= Oldest
              /\ \A n \in Parsed : Age(n)' <= lost + 1 + during
        /\ kind' = "fix" =>
              /\ id' \notin U \cup P \cup Parsed
              /\ \A n \in U \cup P : Age(n)' <= Oldest + 1
              /\ \A n \in Parsed : Age(n)' <= lost + 1 + during + 1
    BY <1>1, <1>8, <1>9, <1>11, AgesAdvance
  <2>2. given' = given \ {id'} /\ damaged' = FALSE
    BY <1>1, <1>11, AdvanceFacts
  <2>3. NewNumber'
    BY <1>3, <2>1, <2>2 DEF NewNumber, P
  <2>4. Oldest' = IF kind' = "fix" THEN lost + 2 ELSE lost + 1
    BY <1>1, <1>8, <2>2 DEF Oldest
  <2>5. \A n \in U \cup P : Age(n)' <= Oldest'
    BY <1>8, <2>1, <2>4
  <2>6. \A n \in Parsed : Age(n)' <= lost' + 1 + during'
    BY <1>1, <1>8, <2>1
  <2>7. Recent'
    BY <1>3, <2>5, <2>6 DEF Recent, U, P
  <2> QED
    BY <1>2, <1>5, <1>6, <2>3, <2>7 DEF NumberInv
<1> QED
  BY <1>7, <1>10, <1>11

\* A character arrives.
LEMMA ReceiveNumberInv == EnoughIds /\ NumberInv /\ Receive => NumberInv'
<1> SUFFICES ASSUME EnoughIds, NumberInv, Receive PROVE NumberInv'
  OBVIOUS
<1> DEFINE U == NumbersIn(uart_buf1)
           P == NumbersIn(print_buf1)
<1>1. /\ TypeOK /\ LineInv /\ Advance(TRUE) /\ TRUE \in BOOLEAN /\ lost' = lost
      /\ during' = IF pc = "idle" THEN 0 ELSE during + 1
      /\ UNCHANGED call
  BY NumberBounds DEF Receive
<1>2. TextInv'
  BY NextText DEF NumberInv, Next
<1>3. /\ Parsed' = Parsed /\ U \subseteq Id /\ P \subseteq Id
      /\ U' = NumbersIn(uart_buf1') /\ P' = NumbersIn(print_buf1')
  BY <1>1 DEF NumbersIn, Parsed, call
<1>4. /\ \/ /\ P' = P /\ printit' = printit
            /\ U' \subseteq Fresh /\ (at = Len(Sending) => U' \subseteq U)
         \/ at = Len(Sending) /\ U' = {} /\ P' \subseteq U
      /\ at = Len(Sending) /\ ~ damaged /\ kind = "fix" => U' = {} /\ P' \subseteq {id}
  BY <1>1, <1>3, ReceiveNumbers, NumbersEmpty
<1>5. given' \subseteq given
  BY <1>1, AdvanceFacts
<1>7. at < Len(Sending) \/ at = Len(Sending)
  <2>1. Len(Sending) \in Nat /\ at \in 1 .. Len(Sending)
    BY <1>1, SendingFacts
  <2> QED
    BY <2>1
<1>8. /\ Oldest \in Nat /\ Oldest <= lost + 1 /\ Oldest <= MaxLost + Burst + 1
      /\ lost + 1 + during \in Nat /\ lost + 1 + during <= MaxLost + Burst + 1
      /\ lost \in Nat /\ during \in Nat
      /\ ~ (kind = "fix" /\ ~ damaged) => Oldest = lost
  <2>1. /\ lost \in Nat /\ lost <= MaxLost /\ during \in Nat /\ during <= Burst
        /\ MaxLost \in Nat /\ Burst \in Nat
        /\ Oldest \in Nat /\ Oldest <= lost + 1
        /\ ~ (kind = "fix" /\ ~ damaged) => Oldest = lost
    BY NumberBounds
  <2> QED
    BY <2>1
<1>9. /\ U \cup P \subseteq Id /\ \A n \in U \cup P : Age(n) <= Oldest
      /\ Parsed \subseteq Id /\ \A n \in Parsed : Age(n) <= lost + 1 + during
      /\ pc = "idle" => Parsed = {}
  BY <1>3, NumberBounds DEF Recent, NumberInv
<1>10. /\ U \cap given = {} /\ (printit => P \cap given = {}) /\ Parsed \cap given = {}
       /\ U \cap (P \cup Parsed) = {}
       /\ kind = "fix" => id \notin given \cup P \cup Parsed
  BY DEF NumberInv, Unused, Apart, NewNumber
<1>11. \A n \in U \cup P \cup Parsed : Age(n)' \in Nat
  BY <1>1, <1>8, <1>9, AgesAdvance
<1>12. Fresh = U \cup (IF kind = "fix" THEN {id} ELSE {})
  BY DEF Fresh
<1>13. Unused' = (U' \cap given' = {} /\ (printit' => P' \cap given' = {})
                    /\ Parsed' \cap given' = {})
  BY DEF Unused
<1>14. Apart' = (U' \cap (P' \cup Parsed') = {})
  BY DEF Apart
<1>15. NewNumber' = (kind' = "fix" => id' \notin given' \cup P' \cup Parsed')
  BY DEF NewNumber
<1>16. Recent' = (/\ \A n \in P' \cup U' : Age(n)' <= Oldest'
                  /\ \A n \in Parsed' : Age(n)' <= lost' + 1 + during')
  BY DEF Recent
<1> HIDE DEF U, P
<1>17. CASE at < Len(Sending)
  <2>1. /\ \A n \in U \cup P : Age(n)' <= Oldest
        /\ \A n \in Parsed : Age(n)' <= lost + 1 + during
    BY <1>1, <1>8, <1>9, <1>17, AgesAdvance
  <2>2. kind' = kind /\ id' = id /\ given' = given /\ damaged' = damaged
    <3>1. /\ kind' = kind /\ id' = id /\ given' = given
          /\ damaged' = (damaged \/ ~ TRUE)
      BY <1>1, <1>17, AdvanceFacts
    <3>2. damaged \in BOOLEAN
      BY <1>1 DEF TypeOK
    <3> QED
      BY <3>1, <3>2
  <2>3. P' = P /\ printit' = printit /\ U' \subseteq Fresh
    BY <1>1, <1>4, <1>17, SendingFacts
  <2>4. Unused' /\ Apart' /\ NewNumber'
    BY <1>3, <1>10, <1>12, <1>13, <1>14, <1>15, <2>2, <2>3
  <2>5. Oldest' = Oldest
    BY <1>1, <2>2 DEF Oldest
  <2>6. Age(id)' = 0
    BY <2>2, AgeFacts, <1>1 DEF TypeOK
  <2>7. \A n \in P' \cup U' : Age(n)' <= Oldest'
    BY <1>8, <1>12, <2>1, <2>2, <2>3, <2>5, <2>6
  <2>8. \A n \in Parsed' : Age(n)' <= lost' + 1 + during'
    BY <1>1, <1>3, <1>8, <1>9, <1>11, <2>1
  <2> QED
    BY <1>2, <1>16, <2>4, <2>7, <2>8 DEF NumberInv
<1>18. CASE at = Len(Sending)
  <2>1. /\ kind' # "fix" =>
              /\ \A n \in U \cup P : Age(n)' <= Oldest
              /\ \A n \in Parsed : Age(n)' <= lost + 1 + during
        /\ kind' = "fix" =>
              /\ id' \notin U \cup P \cup Parsed
              /\ \A n \in U \cup P : Age(n)' <= Oldest + 1
              /\ \A n \in Parsed : Age(n)' <= lost + 1 + during + 1
    BY <1>1, <1>8, <1>9, <1>18, AgesAdvance
  <2>2. given' = given \ {id'} /\ damaged' = FALSE
        /\ id' = IF kind' = "fix" THEN (id + 1) % Ids ELSE id
    BY <1>1, <1>18, AdvanceFacts
  <2>3. /\ \/ P' = P /\ printit' = printit /\ U' \subseteq U
           \/ U' = {} /\ P' \subseteq U
        /\ ~ damaged /\ kind = "fix" => U' = {} /\ P' \subseteq {id}
    BY <1>4, <1>18
  <2>4. Unused' /\ Apart'
    <3>1. U' \cap given' = {} /\ Parsed' \cap given' = {}
      BY <1>3, <1>5, <1>10, <2>3
    <3>2. printit' => P' \cap given' = {}
      BY <1>5, <1>10, <2>3
    <3>3. U' \cap (P' \cup Parsed') = {}
      BY <1>3, <1>10, <2>3
    <3> QED
      BY <1>13, <1>14, <3>1, <3>2, <3>3
  <2>5. NewNumber'
    BY <1>3, <1>15, <2>1, <2>2, <2>3
  <2>6. Oldest' = IF kind' = "fix" THEN lost + 1 ELSE lost
    BY <1>1, <2>2 DEF Oldest
  <2>7. \A n \in P' \cup U' : Age(n)' <= Oldest'
    <3>1. CASE kind = "fix" /\ ~ damaged
      <4>1. id \in Id /\ Age(id) = 0 /\ Ids \in Nat /\ Ids > 1
        BY <1>1, AgeFacts, GpsAssumption DEF TypeOK, EnoughIds
      <4>2. ASSUME NEW n \in P' \cup U'
            PROVE  Age(n)' = IF kind' = "fix" THEN 1 ELSE 0
        <5>1. n = id
          BY <2>3, <3>1
        <5>2. n \in Id /\ Age(n) = 0 /\ Age(n) < Ids - 1
          BY <4>1, <5>1
        <5> QED
          BY <2>2, <4>1, <5>2, AgeFacts
      <4>3. IF kind' = "fix" THEN 1 <= Oldest' ELSE 0 <= Oldest'
        BY <1>8, <2>6
      <4> QED
        BY <4>2, <4>3
    <3>2. CASE ~ (kind = "fix" /\ ~ damaged)
      BY <1>8, <2>1, <2>3, <2>6, <3>2
    <3> QED
      BY <3>1, <3>2
  <2>8. \A n \in Parsed' : Age(n)' <= lost' + 1 + during'
    BY <1>1, <1>3, <1>8, <1>9, <1>11, <2>1
  <2> QED
    BY <1>2, <1>16, <2>4, <2>5, <2>7, <2>8 DEF NumberInv
<1> QED
  BY <1>7, <1>17, <1>18

\* The buffers, the sentence and the history do not change.
LEMMA ParseNumbers ==
    ASSUME NumberInv, UNCHANGED <<line, print_buf1, printit, given>>,
           during' = during,
           Parsed' \subseteq Parsed \/
              (printit /\ Parsed' \subseteq Parsed \cup NumbersIn(print_buf1))
    PROVE  Unused' /\ Apart' /\ NewNumber' /\ Recent'
<1>1. /\ UNCHANGED <<kind, id, at, damaged, lost, uart_buf1>>
      /\ UNCHANGED <<print_buf1, printit, given>>
  BY DEF line
<1>2. /\ NumbersIn(uart_buf1)' = NumbersIn(uart_buf1)
      /\ NumbersIn(print_buf1)' = NumbersIn(print_buf1)
      /\ Oldest' = Oldest /\ \A n : Age(n)' = Age(n)
  BY <1>1 DEF NumbersIn, Oldest, Age
<1>3. Unused'
  BY <1>1, <1>2 DEF NumberInv, Unused
<1>4. Apart'
  BY <1>1, <1>2 DEF NumberInv, Apart
<1>5. NewNumber'
  BY <1>1, <1>2 DEF NumberInv, NewNumber
<1>6. Recent'
  <2>1. \A n \in NumbersIn(print_buf1) : Age(n) <= lost + 1 + during
    <3> SUFFICES ASSUME NEW n \in NumbersIn(print_buf1)
                 PROVE  Age(n) <= lost + 1 + during
      OBVIOUS
    <3>1. n \in Id /\ Age(n) <= Oldest
      BY DEF NumbersIn, NumberInv, Recent
    <3>2. Age(n) \in Nat
      BY <3>1, AgeFacts, NumberBounds DEF TypeOK
    <3>3. /\ lost \in Nat /\ during \in Nat /\ Oldest \in Nat /\ Oldest <= lost + 1
      BY NumberBounds
    <3> QED
      BY <3>1, <3>2, <3>3
  <2>2. \A n \in Parsed' : Age(n) <= lost + 1 + during
    BY <2>1 DEF NumberInv, Recent
  <2> QED
    BY <1>1, <1>2, <2>2 DEF NumberInv, Recent
<1> QED
  BY <1>3, <1>4, <1>5, <1>6

\* A field is read: a position comes out of the line.
LEMMA ReadNumbers == NumberInv /\ Read => NumberInv'
<1> SUFFICES ASSUME NumberInv, Read PROVE NumberInv'
  OBVIOUS
<1>1. /\ LineInv /\ Terminated /\ pc = "read" /\ printit
      /\ UNCHANGED <<line, print_buf1, printit, field, p, during, given>>
  BY DEF NumberInv, TextInv, LineInv, CallContext, Read, ReadStatus, ReadLatitude,
         ReadLongitude
<1>2. print_buf1[p] \in Id => print_buf1[p] \in NumbersIn(print_buf1)
  <2>1. /\ print_buf1 \in Seq(Tokens) /\ Len(print_buf1) \in Nat
        /\ p \in Nat \ {0}
    BY <1>1, LenProperties DEF LineInv, TypeOK
  <2>2. p - 1 \in 1 .. Len(print_buf1) /\ print_buf1[p - 1] = Comma
    BY <1>1, <2>1, CommasOfLine DEF Terminated
  <2>3. p - 1 # Len(print_buf1)
    BY <1>1, <2>2 DEF Terminated, Comma, Nul
  <2>4. p \in 1 .. Len(print_buf1)
    BY <2>1, <2>2, <2>3
  <2> QED
    BY <2>4 DEF NumbersIn
<1>3. NoNumber \notin Id
  BY GpsAssumption DEF Id, NoNumber
<1>4. /\ lat' \in {lat, NoNumber} \cup NumbersIn(print_buf1)
      /\ lon' \in {lon, NoNumber} \cup NumbersIn(print_buf1)
  BY <1>1, <1>2 DEF Read, ReadStatus, ReadLatitude, ReadLongitude, Number
<1>5. Parsed' \subseteq Parsed \cup NumbersIn(print_buf1)
  BY <1>3, <1>4 DEF Parsed
<1>6. TextInv'
  BY NextText DEF NumberInv, Next, Parse
<1> QED
  BY <1>1, <1>5, <1>6, ParseNumbers DEF NumberInv

\* The line was replaced under the parser: it may have any of its positions.
LEMMA TornNumbers == NumberInv /\ Torn => NumberInv'
<1> SUFFICES ASSUME NumberInv, Torn PROVE NumberInv'
  OBVIOUS
<1>1. /\ LineInv /\ pc = "torn" /\ printit
      /\ UNCHANGED <<line, print_buf1, printit, p, during, given>>
  BY DEF NumberInv, TextInv, LineInv, CallContext, Torn
<1>2. NumbersIn(print_buf1) = ToSet(print_buf1) \cap Id
  BY <1>1, NumbersInSet DEF LineInv, TypeOK
<1>3. NoNumber \notin Id
  BY GpsAssumption DEF Id, NoNumber
<1>4. /\ lat' \in {lat, NoNumber} \cup NumbersIn(print_buf1)
      /\ lon' \in {lon, NoNumber} \cup NumbersIn(print_buf1)
  BY <1>1, <1>2 DEF Torn
<1>5. Parsed' \subseteq Parsed \cup NumbersIn(print_buf1)
  BY <1>3, <1>4 DEF Parsed
<1>6. TextInv'
  BY NextText DEF NumberInv, Next, Parse
<1> QED
  BY <1>1, <1>5, <1>6, ParseNumbers DEF NumberInv

\* The call ends: what it parsed is used up with the line it came from.
LEMMA ReturnNumbers == NumberInv /\ Return => NumberInv'
<1> SUFFICES ASSUME NumberInv, Return PROVE NumberInv'
  OBVIOUS
<1>1. /\ UNCHANGED <<kind, id, at, damaged, lost, uart_buf1, print_buf1>>
      /\ printit' = FALSE /\ Leave
  BY DEF Return, line
<1>2. /\ NumbersIn(uart_buf1)' = NumbersIn(uart_buf1)
      /\ NumbersIn(print_buf1)' = NumbersIn(print_buf1)
      /\ Oldest' = Oldest /\ \A n : Age(n)' = Age(n)
  BY <1>1 DEF NumbersIn, Oldest, Age
<1>3. Parsed' = {}
  <2>1. NoNumber \notin Id
    BY GpsAssumption DEF Id, NoNumber
  <2> QED
    BY <1>1, <2>1 DEF Leave, Parsed
<1>4. given' \subseteq given \cup Parsed
  BY DEF Return, Returned, Parsed
<1>5. Unused'
  BY <1>1, <1>2, <1>3, <1>4 DEF NumberInv, Unused, Apart
<1>6. Apart'
  BY <1>2, <1>3 DEF NumberInv, Apart
<1>7. NewNumber'
  BY <1>1, <1>2, <1>3, <1>4 DEF NumberInv, NewNumber
<1>8. Recent'
  BY <1>2, <1>3 DEF NumberInv, Recent
<1>9. TextInv'
  BY NextText DEF NumberInv, Next, Parse
<1> QED
  BY <1>5, <1>6, <1>7, <1>8, <1>9 DEF NumberInv

\* The parser ran off the line: it returns, or the device restarts.
LEMMA WildNumbers == NumberInv /\ Wild => NumberInv'
<1> SUFFICES ASSUME NumberInv, Wild PROVE NumberInv'
  OBVIOUS
<1>1. TextInv'
  BY NextText DEF NumberInv, Next, Parse
<1>2. CASE UNCHANGED <<line, print_buf1, printit, p, during, lat, lon, given>>
  <2>1. Parsed' = Parsed
    BY <1>2 DEF Parsed
  <2> QED
    BY <1>1, <1>2, <2>1, ParseNumbers DEF NumberInv
<1>3. CASE /\ uart_buf1' = <<>>
           /\ print_buf1' = <<>>
           /\ Leave
           /\ UNCHANGED <<kind, id, at, lost, given>>
  <2>1. NumbersIn(uart_buf1)' = {} /\ NumbersIn(print_buf1)' = {}
    BY <1>3, NumbersEmpty DEF NumbersIn
  <2>2. Parsed' = {}
    <3>1. NoNumber \notin Id
      BY GpsAssumption DEF Id, NoNumber
    <3> QED
      BY <1>3, <3>1 DEF Leave, Parsed
  <2>3. Unused' /\ Apart' /\ Recent'
    BY <2>1, <2>2 DEF Unused, Apart, Recent
  <2>4. NewNumber'
    BY <1>3, <2>1, <2>2 DEF NewNumber, NumberInv
  <2> QED
    BY <1>1, <2>3, <2>4 DEF NumberInv
<1> QED
  BY <1>2, <1>3 DEF Wild

\* Every step.
LEMMA NextNumbers == EnoughIds /\ NumberInv /\ [Next]_vars => NumberInv'
<1>1. ASSUME NumberInv, Call \/ CallInVain \/ Scan \/ UNCHANGED vars
      PROVE  NumberInv'
  <2>1. /\ UNCHANGED <<line, print_buf1, printit, given>> /\ during' = during
        /\ UNCHANGED <<lat, lon>>
    BY <1>1 DEF Call, CallInVain, Scan, vars, call
  <2>2. Parsed' = Parsed
    BY <2>1 DEF Parsed
  <2>3. TextInv'
    BY <1>1, NextText DEF NumberInv, Next, Parse
  <2> QED
    BY <1>1, <2>1, <2>2, <2>3, ParseNumbers DEF NumberInv
<1> QED
  BY <1>1, LoseNumbers, ReceiveNumberInv, ReadNumbers, ReturnNumbers, TornNumbers,
     WildNumbers DEF Next, Parse

\* The initial state.
LEMMA InitNumbers == Init => NumberInv
<1> SUFFICES ASSUME Init PROVE NumberInv
  OBVIOUS
<1>1. /\ uart_buf1 = <<>> /\ print_buf1 = <<>> /\ given = {} /\ id = 0
      /\ lat = NoNumber /\ lon = NoNumber
  BY DEF Init
<1>2. NumbersIn(uart_buf1) = {} /\ NumbersIn(print_buf1) = {}
  BY <1>1, NumbersEmpty
<1>3. Parsed = {}
  <2>1. NoNumber \notin Id
    BY GpsAssumption DEF Id, NoNumber
  <2> QED
    BY <1>1, <2>1 DEF Parsed
<1>4. Unused /\ Apart /\ NewNumber /\ Recent
  BY <1>1, <1>2, <1>3 DEF Unused, Apart, NewNumber, Recent
<1> QED
  BY <1>4, InitText DEF NumberInv

(* However many characters are lost and wherever they fall between the steps of
   getGPS: a call never reports a position that an earlier one reported.  The
   flag printit, cleared by the call that used the line, is what it rests on. *)
THEOREM NoneUsedTwice ==
    ASSUME EnoughIds PROVE Spec => UsedOnce
<1>1. NumberInv /\ [Next]_vars => NumberInv'
  BY NextNumbers
<1>2. NumberInv /\ [Next]_vars => [Return /\ Fix => {lat, lon} \cap given = {}]_vars
  <2>1. ASSUME NumberInv PROVE {lat, lon} \cap given = {}
    <3>1. given \subseteq Id /\ Parsed \cap given = {}
      BY <2>1, NumberBounds DEF NumberInv, Unused, TypeOK
    <3> QED
      BY <3>1 DEF Parsed
  <2> QED
    BY <2>1
<1> QED
  BY <1>1, <1>2, InitNumbers, PTL DEF Spec, UsedOnce

-----------------------------------------------------------------------------
(* The line in the making: its length, and what it shows of the sentence *)

(* What the run assumes too: the buffer holds the longest sentence and a byte,
   and of all that is sent at most one character is lost.  A line with two
   commas missing would send strchr off its end. *)
Narrow == MaxLost <= 1 /\ BufSize > 16

(* A line feed empties the buffer unless the carriage return before it got
   lost, and then the next dollar does. *)
LengthSoFar ==
    /\ at > 1 => Len(uart_buf1) <= at - 1
    /\ at = 1 => Len(uart_buf1) <= IF lost = 0 THEN 1 ELSE 16
    /\ lost = 0 /\ at > 1 /\ Len(uart_buf1) > 0 =>
          uart_buf1[Len(uart_buf1)] = Sending[at - 1]

\* The first m tokens of the sentence, all of them or all but the one at d.
ShowsAll(b, m) == Len(b) = m /\ \A i \in 1 .. m : b[i] = Sending[i]
MissesOne(b, m) ==
    /\ lost = 1
    /\ Len(b) = m - 1
    /\ \E d \in 2 .. m :
          \A i \in 1 .. m - 1 : b[i] = IF i < d THEN Sending[i] ELSE Sending[i + 1]

(* A line that begins with a dollar is the sentence being sent; between two
   sentences it is there only when something got lost. *)
StartsRight ==
    Len(uart_buf1) > 0 /\ uart_buf1[1] = Dollar =>
        IF at = 1 THEN lost = 1
        ELSE ShowsAll(uart_buf1, at - 1) \/ MissesOne(uart_buf1, at - 1)

ShapeInv == TextInv /\ LengthSoFar /\ StartsRight

\* Where the receiver and the line are.
LEMMA ShapeFacts ==
    ASSUME TypeOK
    PROVE  /\ Len(Sending) \in Nat /\ at \in Nat /\ 1 <= at /\ at <= Len(Sending)
           /\ Len(Sending) >= 5 /\ Len(Sending) <= 16
           /\ uart_buf1 \in Seq(Tokens) /\ Len(uart_buf1) \in Nat
           /\ at < Len(Sending) \/ at = Len(Sending)
           /\ Sending[1] = Dollar /\ Sending[Len(Sending) - 1] = CR
           /\ lost \in Nat
<1>1. /\ kind \in Kinds /\ id \in Id /\ at \in 1 .. Len(Sending)
      /\ Len(Sending) = SentenceLength(kind)
  BY SendingFacts
<1>2. SentenceLength(kind) \in Nat /\ SentenceLength(kind) >= 5
      /\ SentenceLength(kind) <= 16
  BY DEF SentenceLength
<1>3. Sending[1] = Dollar /\ Sending[Len(Sending) - 1] = CR
  <2>1. Len(Sending) - 1 \in 1 .. Len(Sending)
    BY <1>1, <1>2
  <2> QED
    BY <1>1, <2>1, SentenceTokens DEF Sending
<1>4. uart_buf1 \in Seq(Tokens) /\ Len(uart_buf1) \in Nat
  BY LenProperties DEF TypeOK
<1>5. lost \in Nat
  BY GpsAssumption DEF TypeOK
<1> QED
  BY <1>1, <1>2, <1>3, <1>4, <1>5

\* A character gets lost.
LEMMA LoseShape == Narrow /\ ShapeInv /\ Lose => ShapeInv'
<1> SUFFICES ASSUME Narrow, ShapeInv, Lose PROVE ShapeInv'
  OBVIOUS
<1>1. /\ TypeOK /\ Advance(FALSE) /\ FALSE \in BOOLEAN /\ uart_buf1' = uart_buf1
  BY DEF ShapeInv, TextInv, LineInv, Lose
<1>2. lost = 0 /\ lost' = 1
  BY GpsAssumption DEF Narrow, Lose, ShapeInv, TextInv, LineInv, TypeOK
<1>3. TextInv'
  BY NextText DEF ShapeInv, Next
<1>4. /\ at > 1 => Len(uart_buf1) <= at - 1
      /\ at = 1 => Len(uart_buf1) <= 1
      /\ Len(uart_buf1) > 0 /\ uart_buf1[1] = Dollar =>
            at # 1 /\ ShowsAll(uart_buf1, at - 1)
  BY <1>2 DEF ShapeInv, LengthSoFar, StartsRight, MissesOne
<1>5. CASE at < Len(Sending)
  <2>1. Sending' = Sending /\ at' = at + 1
    BY <1>1, <1>5, AdvanceFacts
  <2>2. LengthSoFar'
    BY <1>1, <1>2, <1>4, <2>1, ShapeFacts DEF LengthSoFar
  <2>3. ASSUME Len(uart_buf1) > 0, uart_buf1[1] = Dollar
        PROVE  MissesOne(uart_buf1, at - 1)' /\ at' # 1
    <3>1. at # 1 /\ Len(uart_buf1) = at - 1 /\ \A i \in 1 .. at - 1 : uart_buf1[i] = Sending[i]
      BY <1>4, <2>3 DEF ShowsAll
    <3>2. at \in 2 .. at /\ \A i \in 1 .. at - 1 : i < at
      BY <1>1, <3>1, ShapeFacts
    <3> QED
      BY <1>1, <1>2, <2>1, <3>1, <3>2, ShapeFacts DEF MissesOne
  <2> QED
    BY <1>1, <1>3, <2>1, <2>2, <2>3 DEF ShapeInv, StartsRight
<1>6. CASE at = Len(Sending)
  <2>1. at' = 1
    BY <1>1, <1>6, AdvanceFacts
  <2>2. LengthSoFar'
    BY <1>1, <1>2, <1>4, <1>6, <2>1, ShapeFacts DEF LengthSoFar
  <2>3. StartsRight'
    BY <1>2, <2>1 DEF StartsRight
  <2> QED
    BY <1>3, <2>2, <2>3 DEF ShapeInv
<1> QED
  BY <1>1, <1>5, <1>6, ShapeFacts

\* What the line shows when it got its next character.
LEMMA ShowsStored ==
    ASSUME ShapeInv
    PROVE  LET b == Store(Sending[at])
           IN  /\ b \in Seq(Tokens) /\ b[Len(b)] = Sending[at]
               /\ at = 1 => Len(b) = 1
               /\ at # 1 => Len(b) = Len(uart_buf1) + 1 /\ Len(b) <= at
               /\ lost = 0 /\ Len(b) > 1 => at # 1 /\ b[Len(b) - 1] = Sending[at - 1]
               /\ b[1] = Dollar => ShowsAll(b, at) \/ MissesOne(b, at)
<1> DEFINE c == Sending[at]
           n == Len(uart_buf1)
<1>1. /\ TypeOK /\ c \in Tokens /\ uart_buf1 \in Seq(Tokens)
      /\ (c = Dollar) = (at = 1)
  BY SendingFacts DEF ShapeInv, TextInv, LineInv, TypeOK
<1>2. /\ n \in Nat /\ at \in Nat /\ 1 <= at
  BY <1>1, ShapeFacts
<1>3. /\ Store(c) \in Seq(Tokens) /\ Store(c)[Len(Store(c))] = c
      /\ c = Dollar => Store(c) = <<c>>
      /\ c # Dollar => Len(Store(c)) = n + 1
      /\ c # Dollar => \A i \in 1 .. n : Store(c)[i] = uart_buf1[i]
  BY <1>1, StoreFacts
<1>4. CASE at = 1
  <2>1. Store(c) = <<c>> /\ Len(Store(c)) = 1 /\ Store(c)[1] = Sending[1]
    BY <1>1, <1>3, <1>4
  <2>2. ShowsAll(Store(c), at)
    BY <1>4, <2>1 DEF ShowsAll
  <2> QED
    BY <1>3, <1>4, <2>1, <2>2
<1>5. CASE at # 1
  <2> DEFINE b == Store(c)
  <2>1. /\ b \in Seq(Tokens) /\ b[n + 1] = c /\ Len(b) = n + 1
        /\ \A i \in 1 .. n : b[i] = uart_buf1[i]
    BY <1>1, <1>3, <1>5
  <2> HIDE DEF b
  <2>2. n <= at - 1 /\ at > 1 /\ n + 1 <= at
    BY <1>2, <1>5 DEF ShapeInv, LengthSoFar
  <2>3. lost = 0 /\ n + 1 > 1 => b[n + 1 - 1] = Sending[at - 1]
    <3> SUFFICES ASSUME lost = 0, n + 1 > 1 PROVE b[n + 1 - 1] = Sending[at - 1]
      OBVIOUS
    <3>1. n > 0 /\ n \in 1 .. n /\ n + 1 - 1 = n
      BY <1>2
    <3>2. uart_buf1[n] = Sending[at - 1]
      BY <2>2, <3>1 DEF ShapeInv, LengthSoFar
    <3> QED
      BY <2>1, <3>1, <3>2
  <2>4. ASSUME b[1] = Dollar
        PROVE  ShowsAll(b, at) \/ MissesOne(b, at)
    <3>1. n > 0 /\ uart_buf1[1] = Dollar
      <4>1. n = 0 => b[1] = c
        BY <2>1
      <4>2. n # 0
        BY <1>1, <1>5, <2>4, <4>1
      <4>3. n > 0 /\ 1 \in 1 .. n
        BY <1>2, <4>2
      <4> QED
        BY <2>1, <2>4, <4>3
    <3>2. ShowsAll(uart_buf1, at - 1) \/ MissesOne(uart_buf1, at - 1)
      BY <1>5, <3>1 DEF ShapeInv, StartsRight
    <3>3. CASE ShowsAll(uart_buf1, at - 1)
      <4>1. n = at - 1 /\ \A i \in 1 .. at - 1 : uart_buf1[i] = Sending[i]
        BY <3>3 DEF ShowsAll
      <4>2. \A i \in 1 .. at : i \in 1 .. at - 1 \/ i = at
        BY <1>2
      <4>3. Len(b) = at /\ n + 1 = at
        BY <1>2, <2>1, <4>1
      <4>4. \A i \in 1 .. at : b[i] = Sending[i]
        BY <2>1, <4>1, <4>2, <4>3
      <4> QED
        BY <4>3, <4>4 DEF ShowsAll
    <3>4. CASE MissesOne(uart_buf1, at - 1)
      <4>1. lost = 1 /\ n = at - 1 - 1
        BY <3>4 DEF MissesOne
      <4>2. PICK d \in 2 .. at - 1 :
               \A i \in 1 .. at - 1 - 1 :
                  uart_buf1[i] = IF i < d THEN Sending[i] ELSE Sending[i + 1]
        BY <3>4 DEF MissesOne
      <4>3. /\ Len(b) = at - 1 /\ n = at - 2 /\ at - 1 - 1 = at - 2 /\ d \in 2 .. at
            /\ ~ (at - 1 < d) /\ at - 1 + 1 = at /\ n + 1 = at - 1
        BY <1>2, <2>1, <4>1
      <4>4. \A i \in 1 .. at - 1 : i \in 1 .. at - 2 \/ i = at - 1
        BY <1>2
      <4>5. \A i \in 1 .. at - 2 : b[i] = IF i < d THEN Sending[i] ELSE Sending[i + 1]
        BY <2>1, <4>2, <4>3
      <4>6. b[at - 1] = Sending[at - 1 + 1]
        BY <2>1, <4>3
      <4>7. \A i \in 1 .. at - 1 : b[i] = IF i < d THEN Sending[i] ELSE Sending[i + 1]
        BY <4>3, <4>4, <4>5, <4>6
      <4> QED
        BY <4>1, <4>3, <4>7 DEF MissesOne
    <3> QED
      BY <3>2, <3>3, <3>4
  <2> QED
    BY <1>5, <2>1, <2>2, <2>3, <2>4 DEF b
<1> QED
  BY <1>4, <1>5

\* A character arrives.
LEMMA ReceiveShape == Narrow /\ ShapeInv /\ Receive => ShapeInv'
<1> SUFFICES ASSUME Narrow, ShapeInv, Receive PROVE ShapeInv'
  OBVIOUS
<1> DEFINE b == Store(Sending[at])
<1>1. /\ TypeOK /\ Advance(TRUE) /\ TRUE \in BOOLEAN /\ lost' = lost
  BY DEF ShapeInv, TextInv, LineInv, Receive
<1>2. TextInv'
  BY NextText DEF ShapeInv, Next
<1>3. /\ b \in Seq(Tokens) /\ b[Len(b)] = Sending[at]
      /\ at = 1 => Len(b) = 1
      /\ at # 1 => Len(b) = Len(uart_buf1) + 1 /\ Len(b) <= at
      /\ lost = 0 /\ Len(b) > 1 => at # 1 /\ b[Len(b) - 1] = Sending[at - 1]
      /\ b[1] = Dollar => ShowsAll(b, at) \/ MissesOne(b, at)
  BY ShowsStored
<1>4. \/ Ends(b) /\ uart_buf1' = <<>>
      \/ ~ Ends(b) /\ uart_buf1' = b
      \/ b = <<LF>> /\ uart_buf1' = <<>>
  BY <1>1, ReceiveCases
<1>5. /\ Len(Sending) \in Nat /\ at \in Nat /\ 1 <= at /\ at <= Len(Sending)
      /\ Len(Sending) >= 5 /\ Len(Sending) <= 16
      /\ at < Len(Sending) \/ at = Len(Sending)
      /\ (Sending[at] = LF) = (at = Len(Sending))
      /\ lost \in Nat /\ lost <= 1 /\ Len(b) \in Nat
  <2>1. lost <= 1 /\ Len(b) \in Nat
    BY <1>1, <1>3, GpsAssumption, LenProperties DEF Narrow, TypeOK
  <2> QED
    BY <1>1, <2>1, ShapeFacts, SendingFacts
<1> HIDE DEF b
<1>6. Len(b) >= 1 /\ Len(b) <= at
  <2>1. Len(uart_buf1) \in Nat
    BY <1>1, ShapeFacts
  <2> QED
    BY <1>3, <1>5, <2>1
<1>7. CASE at < Len(Sending)
  <2>1. Sending' = Sending /\ at' = at + 1
    BY <1>1, <1>7, AdvanceFacts
  <2>2. b[Len(b)] # LF
    BY <1>3, <1>5, <1>7
  <2>3. uart_buf1' = b
    <3>1. b # <<LF>>
      BY <2>2
    <3>2. ~ Ends(b)
      BY <2>2 DEF Ends
    <3> QED
      BY <1>4, <3>1, <3>2
  <2>4. at' > 1 /\ at' - 1 = at /\ at' # 1
    BY <1>5, <2>1
  <2>5. LengthSoFar'
    BY <1>3, <1>6, <2>1, <2>3, <2>4 DEF LengthSoFar
  <2>6. StartsRight'
    <3>1. ShowsAll(b, at) => ShowsAll(uart_buf1, at - 1)'
      BY <2>1, <2>3, <2>4 DEF ShowsAll
    <3>2. MissesOne(b, at) => MissesOne(uart_buf1, at - 1)'
      BY <1>1, <2>1, <2>3, <2>4 DEF MissesOne
    <3> QED
      BY <1>3, <2>3, <2>4, <3>1, <3>2 DEF StartsRight
  <2> QED
    BY <1>2, <2>5, <2>6 DEF ShapeInv
<1>8. CASE at = Len(Sending)
  <2>0. at' = 1
    BY <1>1, <1>8, AdvanceFacts
  <2>1. at' = 1 /\ ~ (at' > 1)
    BY ONLY <2>0
  <2>2. CASE uart_buf1' = <<>>
    <3>1. Len(uart_buf1') = 0
      BY <2>2
    <3> QED
      BY <1>1, <1>2, <1>5, <2>1, <3>1 DEF ShapeInv, LengthSoFar, StartsRight
  <2>3. CASE ~ Ends(b) /\ uart_buf1' = b
    <3>1. b[Len(b)] = LF /\ Sending[at - 1] = CR
      BY <1>1, <1>3, <1>5, <1>8, ShapeFacts
    <3>2. lost = 0 => Len(b) = 1
      <4>1. lost = 0 /\ Len(b) > 1 => b[Len(b) - 1] = CR
        BY <1>3, <3>1
      <4>2. lost = 0 => ~ (Len(b) > 1)
        BY <2>3, <3>1, <4>1 DEF Ends
      <4>3. b \in Seq(Tokens) /\ Len(b) >= 1
        BY <1>3, <1>6
      <4>4. Len(b) > 1 \/ Len(b) = 1
        BY ONLY <4>3
      <4> QED
        BY <4>2, <4>4
    <3>3. LengthSoFar'
      <4>1. Len(b) <= 16
        <5>1. Len(b) \in Nat /\ at \in Nat /\ Len(b) <= at /\ at <= 16
          BY <1>5, <1>6, <1>8
        <5> QED
          BY ONLY <5>1
      <4>2. Len(b) <= IF lost = 0 THEN 1 ELSE 16
        <5>1. lost = 0 => Len(b) <= 1
          <6>1. 1 <= 1
            OBVIOUS
          <6> QED
            BY <3>2, <6>1, Zenon
        <5> QED
          BY <4>1, <5>1
      <4> QED
        BY <1>1, <2>1, <2>3, <4>2 DEF LengthSoFar
    <3>4. b[1] = Dollar => lost = 1
      <4>1. lost = 0 => b[1] = LF
        BY <3>1, <3>2
      <4>2. lost = 0 \/ lost = 1
        BY <1>5
      <4> QED
        BY <4>1, <4>2 DEF LF, Dollar
    <3>5. StartsRight'
      BY <1>1, <2>1, <2>3, <3>4 DEF StartsRight
    <3> QED
      BY <1>2, <3>3, <3>5 DEF ShapeInv
  <2> QED
    BY <1>4, <2>2, <2>3
<1> QED
  BY <1>5, <1>7, <1>8

\* Every step.
LEMMA NextShape == Narrow /\ ShapeInv /\ [Next]_vars => ShapeInv'
<1>1. ASSUME ShapeInv, Call \/ CallInVain \/ Parse \/ UNCHANGED vars
      PROVE  ShapeInv'
  <2>1. TextInv'
    BY <1>1, NextText DEF ShapeInv, Next
  <2>2. \/ UNCHANGED line
        \/ uart_buf1' = <<>> /\ UNCHANGED <<kind, id, at, lost>>
    BY <1>1 DEF Call, CallInVain, Parse, Scan, Read, Return, Torn, Wild, vars
  <2>3. CASE UNCHANGED line
    <3>1. Sending' = Sending /\ UNCHANGED <<at, lost, uart_buf1>>
      BY <2>3 DEF line, Sending, Sentence
    <3>2. LengthSoFar'
      BY <1>1, <3>1 DEF ShapeInv, LengthSoFar
    <3>3. StartsRight'
      BY <1>1, <3>1 DEF ShapeInv, StartsRight, ShowsAll, MissesOne
    <3> QED
      BY <2>1, <3>2, <3>3 DEF ShapeInv
  <2>4. CASE uart_buf1' = <<>> /\ UNCHANGED <<kind, id, at, lost>>
    <3>1. Len(uart_buf1') = 0
      BY <2>4
    <3>2. at \in Nat /\ 1 <= at
      BY <1>1, ShapeFacts DEF ShapeInv, TextInv, LineInv
    <3> QED
      BY <2>1, <2>4, <3>1, <3>2 DEF ShapeInv, LengthSoFar, StartsRight
  <2> QED
    BY <2>2, <2>3, <2>4
<1> QED
  BY <1>1, LoseShape, ReceiveShape DEF Next

\* The initial state.
LEMMA InitShape == Init => ShapeInv
<1> SUFFICES ASSUME Init PROVE LengthSoFar /\ StartsRight
  BY InitText DEF ShapeInv
<1>1. Len(uart_buf1) = 0 /\ lost = 0
  BY DEF Init
<1>2. at \in Nat /\ 1 <= at
  BY InitLine, ShapeFacts DEF LineInv
<1> QED
  BY <1>1, <1>2 DEF LengthSoFar, StartsRight

-----------------------------------------------------------------------------
(* The commas of the line being parsed *)

\* Where the commas of the two sentences are that are handed over.
NineOf(k) == IF k = "fix" THEN <<3, 4, 6, 8, 9, 11, 12, 13, 14>>
                          ELSE <<3, 4, 6, 7, 8, 9, 10, 11, 12>>

\* Eight commas, one after the other.
Ladder(l, c) ==
    /\ \A i \in 1 .. 7 : c[i] < c[i + 1]
    /\ \A i \in 1 .. 8 : c[i] \in CommasOf(l)

\* There are as many as the parser counts, and those it has not yet passed are
\* still ahead of it.
EnoughCommas ==
    /\ printit => \E c \in [1 .. 8 -> Nat] : Ladder(print_buf1, c)
    /\ Parsing => \E c \in [1 .. 8 -> Nat] :
                     Ladder(print_buf1, c) /\ p <= c[field + 1]
    /\ pc = "idle" => p = 1

CommaInv == ShapeInv /\ EnoughCommas

LEMMA NineCommas ==
    ASSUME NEW k \in {"fix", "nofix"}, NEW n \in Id
    PROVE  /\ \A i \in 1 .. 9 :
                 /\ NineOf(k)[i] \in 3 .. SentenceLength(k) - 2
                 /\ Sentence(k, n)[NineOf(k)[i]] = Comma
           /\ \A i \in 1 .. 8 : NineOf(k)[i] < NineOf(k)[i + 1]
<1>1. CASE k = "fix"
  BY <1>1 DEF NineOf, Sentence, SentenceLength
<1>2. CASE k = "nofix"
  BY <1>2 DEF NineOf, Sentence, SentenceLength
<1> QED
  BY <1>1, <1>2

\* A line that is handed over has the commas, even with a character missing.
LEMMA LineHasCommas ==
    ASSUME ShapeInv,
           Ends(Store(Sending[at])),
           IsPrefix(<<Dollar, RMC>>, Line(Store(Sending[at])))
    PROVE  \E c \in [1 .. 8 -> Nat] : Ladder(Line(Store(Sending[at])), c)
<1> DEFINE b == Store(Sending[at])
<1>1. /\ TypeOK /\ (Sending[at] = LF) = (at = Len(Sending))
      /\ kind \in Kinds /\ id \in Id /\ Len(Sending) = SentenceLength(kind)
  BY SendingFacts DEF ShapeInv, TextInv, LineInv
<1>2. /\ b \in Seq(Tokens) /\ b[Len(b)] = Sending[at]
      /\ b[1] = Dollar => ShowsAll(b, at) \/ MissesOne(b, at)
  BY ShowsStored
<1>3. Ends(b) /\ IsPrefix(<<Dollar, RMC>>, Line(b))
  OBVIOUS
<1> HIDE DEF b
<1>4. at = Len(Sending)
  BY <1>1, <1>2, <1>3 DEF Ends
<1>5. /\ Line(b) \in Seq(Tokens) /\ Len(Line(b)) = Len(b)
      /\ \A i \in 1 .. Len(b) - 2 : Line(b)[i] = b[i]
      /\ Line(b)[Len(b) - 1] = LF /\ Line(b)[Len(b)] = Nul
      /\ Len(b) > 1
  BY <1>2, <1>3, LineFacts DEF Ends
<1>6. Line(b)[1] = Dollar /\ Line(b)[2] = RMC
  <2> DEFINE l == Line(b)
             d == <<Dollar, RMC>>
  <2>1. d \in Seq(Tokens) /\ Len(d) = 2 /\ d[1] = Dollar /\ d[2] = RMC
    BY GpsAssumption DEF Tokens, Dollar, RMC
  <2>2. SubSeq(d, 1, 2) = SubSeq(l, 1, 2)
    BY <1>3, <2>1 DEF IsPrefix
  <2>3. 2 \in 0 .. Len(d) /\ 2 \in 0 .. Len(l) /\ 1 \in 1 .. 2 /\ 2 \in 1 .. 2
    BY <1>2, <1>5, <2>1
  <2>4. l \in Seq(Tokens)
    BY <1>5
  <2> HIDE DEF l, d
  <2>5. \A i \in 1 .. 2 : SubSeq(d, 1, 2)[i] = d[i]
    BY <2>1, <2>3, PrefixFacts
  <2>6. \A i \in 1 .. 2 : SubSeq(l, 1, 2)[i] = l[i]
    BY <2>3, <2>4, PrefixFacts
  <2> QED
    BY <2>1, <2>2, <2>3, <2>5, <2>6 DEF l
<1>7. Len(b) > 3 /\ b[1] = Dollar /\ b[2] = RMC
  <2>1. 1 # Len(b) - 1 /\ 2 # Len(b) - 1 /\ 2 # Len(b)
    BY <1>5, <1>6 DEF LF, Nul, Dollar, RMC
  <2>2. Len(b) > 3 /\ 1 \in 1 .. Len(b) - 2 /\ 2 \in 1 .. Len(b) - 2
    BY <1>2, <1>5, <2>1
  <2> QED
    BY <1>5, <1>6, <2>2
<1>8. \E c \in [1 .. 8 -> Nat] :
         /\ \A i \in 1 .. 7 : c[i] < c[i + 1]
         /\ \A i \in 1 .. 8 : c[i] \in 1 .. Len(b) - 2 /\ b[c[i]] = Comma
  <2> DEFINE f == NineOf(kind)
  <2>1. ASSUME kind \in {"fix", "nofix"}
        PROVE  /\ \A i \in 1 .. 9 : f[i] \in 3 .. at - 2 /\ Sending[f[i]] = Comma
               /\ \A i \in 1 .. 8 : f[i] < f[i + 1]
    BY <1>1, <1>4, <2>1, NineCommas DEF Sending
  <2>2. at \in Nat /\ at >= 5
    BY <1>1, <1>4, ShapeFacts
  <2>3. CASE ShowsAll(b, at)
    <3>1. Len(b) = at /\ \A i \in 1 .. at : b[i] = Sending[i]
      BY <2>3 DEF ShowsAll
    <3>2. kind \in {"fix", "nofix"}
      <4>1. Sending[2] = RMC
        BY <1>7, <2>2, <3>1
      <4> QED
        BY <1>1, <4>1, SentenceTokens DEF Kinds, Sending
    <3> DEFINE c == [i \in 1 .. 8 |-> f[i]]
    <3> HIDE DEF f
    <3>3. \A i \in 1 .. 8 : i \in 1 .. 9 /\ f[i] \in Nat /\ f[i] \in 1 .. at - 2 /\ f[i] \in 1 .. at
      BY <2>1, <2>2, <3>2
    <3>4. \A i \in 1 .. 7 : i \in 1 .. 8 /\ i + 1 \in 1 .. 8
      OBVIOUS
    <3>5. c \in [1 .. 8 -> Nat] /\ \A i \in 1 .. 8 : c[i] = f[i]
      BY <3>3
    <3> HIDE DEF c
    <3>6. \A i \in 1 .. 7 : c[i] < c[i + 1]
      BY <2>1, <3>2, <3>4, <3>5
    <3>7. \A i \in 1 .. 8 : c[i] \in 1 .. Len(b) - 2 /\ b[c[i]] = Comma
      BY <2>1, <3>1, <3>2, <3>3, <3>5
    <3> QED
      BY <3>5, <3>6, <3>7
  <2>4. CASE MissesOne(b, at)
    <3>1. Len(b) = at - 1
      BY <2>4 DEF MissesOne
    <3>2. PICK d \in 2 .. at :
             \A i \in 1 .. at - 1 : b[i] = IF i < d THEN Sending[i] ELSE Sending[i + 1]
      BY <2>4 DEF MissesOne
    <3>3. kind \in {"fix", "nofix"}
      <4>1. 2 \in 1 .. at - 1 /\ 2 + 1 = 3
        BY <2>2
      <4>2. Sending[2] = RMC \/ Sending[3] = RMC
        BY <1>7, <3>2, <4>1
      <4>3. CASE kind = "other"
        BY <4>2, <4>3 DEF Sending, Sentence, RMC, Comma, Other
      <4> QED
        BY <1>1, <4>3 DEF Kinds
    <3> HIDE DEF f
    <3>4. /\ \A i \in 1 .. 9 : f[i] \in 3 .. at - 2 /\ Sending[f[i]] = Comma
          /\ \A i \in 1 .. 8 : f[i] < f[i + 1]
      BY <2>1, <3>3
    <3> DEFINE c == [i \in 1 .. 8 |-> IF f[i] < d THEN f[i] ELSE f[i + 1] - 1]
    <3>5. \A i \in 1 .. 8 : /\ i \in 1 .. 9 /\ i + 1 \in 1 .. 9
                            /\ f[i] \in Nat /\ f[i + 1] \in Nat
                            /\ 3 <= f[i] /\ f[i] < f[i + 1] /\ f[i + 1] <= at - 2
      BY <2>2, <3>4
    <3>6. ASSUME NEW i \in 1 .. 8
          PROVE  /\ f[i] < d => f[i] \in 1 .. at - 3 /\ b[f[i]] = Comma
                 /\ ~ (f[i] < d) =>
                       f[i + 1] - 1 \in 1 .. at - 3 /\ b[f[i + 1] - 1] = Comma
      <4>1. /\ i \in 1 .. 9 /\ i + 1 \in 1 .. 9
            /\ f[i] \in Nat /\ f[i + 1] \in Nat /\ d \in Nat
            /\ 3 <= f[i] /\ f[i] < f[i + 1] /\ f[i + 1] <= at - 2
        BY <3>2, <3>5
      <4>2. f[i] \in 1 .. at - 3 /\ f[i + 1] - 1 \in 1 .. at - 3
        BY <2>2, <4>1
      <4>3. f[i] \in 1 .. at - 1 /\ f[i + 1] - 1 \in 1 .. at - 1
        BY <2>2, <4>1
      <4>4. f[i] < d => b[f[i]] = Comma
        BY <3>2, <3>4, <4>1, <4>3
      <4>5. ~ (f[i] < d) => b[f[i + 1] - 1] = Comma
        <5>1. ~ (f[i] < d) => ~ (f[i + 1] - 1 < d) /\ f[i + 1] - 1 + 1 = f[i + 1]
          BY <4>1
        <5> QED
          BY <3>2, <3>4, <4>1, <4>3, <5>1
      <4> QED
        BY <4>2, <4>4, <4>5
    <3>7. \A i \in 1 .. 8 : (IF f[i] < d THEN f[i] ELSE f[i + 1] - 1) \in Nat
      BY <3>5
    <3>8. c \in [1 .. 8 -> Nat]
          /\ \A i \in 1 .. 8 : c[i] = IF f[i] < d THEN f[i] ELSE f[i + 1] - 1
      BY <3>7
    <3> HIDE DEF c
    <3>9. \A i \in 1 .. 7 : c[i] < c[i + 1]
      <4> SUFFICES ASSUME NEW i \in 1 .. 7 PROVE c[i] < c[i + 1]
        OBVIOUS
      <4>1. i \in 1 .. 8 /\ i + 1 \in 1 .. 8 /\ i + 1 + 1 = i + 2
        OBVIOUS
      <4>2. /\ c[i] = IF f[i] < d THEN f[i] ELSE f[i + 1] - 1
            /\ c[i + 1] = IF f[i + 1] < d THEN f[i + 1] ELSE f[i + 1 + 1] - 1
        BY <3>8, <4>1
      <4>3. /\ f[i] \in Nat /\ f[i + 1] \in Nat /\ f[i + 1 + 1] \in Nat /\ d \in Nat
            /\ f[i] < f[i + 1] /\ f[i + 1] < f[i + 1 + 1]
        BY <3>2, <3>5, <4>1
      <4> QED
        BY <4>2, <4>3
    <3>10. \A i \in 1 .. 8 : c[i] \in 1 .. Len(b) - 2 /\ b[c[i]] = Comma
      <4>1. at - 3 = Len(b) - 2
        BY <2>2, <3>1
      <4> QED
        BY <3>6, <3>8, <4>1
    <3> QED
      BY <3>8, <3>9, <3>10
  <2> QED
    BY <1>2, <1>7, <2>3, <2>4
<1>9. PICK c \in [1 .. 8 -> Nat] :
         /\ \A i \in 1 .. 7 : c[i] < c[i + 1]
         /\ \A i \in 1 .. 8 : c[i] \in 1 .. Len(b) - 2 /\ b[c[i]] = Comma
  BY <1>8
<1>10. \A i \in 1 .. 8 : c[i] \in 1 .. Len(Line(b)) /\ Line(b)[c[i]] = Comma
  <2>1. \A x \in 1 .. Len(b) - 2 : x \in 1 .. Len(b)
    BY <1>2
  <2> QED
    BY <1>5, <1>9, <2>1
<1>11. Ladder(Line(b), c)
  BY <1>5, <1>9, <1>10, CommasOfLine DEF Ladder
<1> QED
  BY <1>11 DEF b

\* The next of the commas still ahead is one that strchr finds.
LEMMA CommaAhead ==
    ASSUME TypeOK, Terminated, field \in 0 .. 7,
           NEW c \in [1 .. 8 -> Nat], Ladder(print_buf1, c), p <= c[field + 1]
    PROVE  Commas # {} /\ Min(Commas) <= c[field + 1]
<1> DEFINE i == c[field + 1]
<1>1. print_buf1 \in Seq(Tokens) /\ Len(print_buf1) \in Nat /\ p \in Nat \ {0}
  BY LenProperties DEF TypeOK
<1>2. field + 1 \in 1 .. 8
  OBVIOUS
<1>3. i \in 1 .. Len(print_buf1) /\ print_buf1[i] = Comma /\ i \in Nat /\ p <= i
  BY <1>1, <1>2, CommasOfLine DEF Ladder
<1> DEFINE n == Len(print_buf1)
<1> HIDE DEF i
<1>4. i # n
  <2>1. \A j \in 1 .. n : (print_buf1[j] = Nul) = (j = n)
    BY DEF Terminated
  <2>2. Comma # Nul
    BY DEF Comma, Nul
  <2> QED
    BY <1>3, <2>1, <2>2, Zenon
<1>5. \A j \in p .. i : j \in 1 .. n /\ j # n
  <2>1. n \in Nat /\ p \in Nat \ {0} /\ i \in 1 .. n /\ i # n
    BY <1>1, <1>3, <1>4
  <2> HIDE DEF n
  <2> QED
    BY ONLY <2>1
<1>6. \A j \in p .. i : print_buf1[j] # Nul
  BY <1>5 DEF Terminated
<1>7. i \in p .. Len(print_buf1)
  BY <1>1, <1>3
<1>8. i \in Commas
  BY <1>3, <1>6, <1>7 DEF Commas
<1>9. Min(Commas) <= i
  BY <1>3, <1>6, <1>7, <1>8, CommaFacts
<1> QED
  BY <1>8, <1>9 DEF i

\* A character arrives.
LEMMA ReceiveCommas == CommaInv /\ Receive => EnoughCommas'
<1> SUFFICES ASSUME CommaInv, Receive PROVE EnoughCommas'
  OBVIOUS
<1> DEFINE b == Store(Sending[at])
<1>1. /\ ShapeInv /\ EnoughCommas /\ TypeOK /\ UNCHANGED <<field, p>>
  BY DEF CommaInv, ShapeInv, TextInv, LineInv, Receive, call
<1>2. \/ Ends(b) /\ IsPrefix(<<Dollar, RMC>>, Line(b)) /\ TakeLine(Line(b))
      \/ KeepLine
  BY <1>1, ReceiveCases
<1>3. CASE KeepLine
  BY <1>1, <1>3 DEF KeepLine, EnoughCommas, Parsing
<1>4. CASE Ends(b) /\ IsPrefix(<<Dollar, RMC>>, Line(b)) /\ TakeLine(Line(b))
  <2>1. \E c \in [1 .. 8 -> Nat] : Ladder(Line(b), c)
    BY <1>1, <1>4, LineHasCommas
  <2> HIDE DEF b
  <2>2. /\ print_buf1' = Line(b)
        /\ pc' = IF Parsing /\ CommasOf(Line(b)) # CommasOf(print_buf1) THEN "torn" ELSE pc
    BY <1>4 DEF TakeLine
  <2>3. printit' => \E c \in [1 .. 8 -> Nat] : Ladder(print_buf1', c)
    BY <2>1, <2>2
  <2>4. Parsing' => Parsing /\ CommasOf(print_buf1') = CommasOf(print_buf1)
    BY <2>2 DEF Parsing
  <2>5. Parsing' => \E c \in [1 .. 8 -> Nat] :
                      Ladder(print_buf1', c) /\ p' <= c[field' + 1]
    BY <1>1, <2>4 DEF EnoughCommas, Ladder
  <2>6. pc' = "idle" => p' = 1
    BY <1>1, <2>2 DEF EnoughCommas
  <2> QED
    BY <2>3, <2>5, <2>6 DEF EnoughCommas
<1> QED
  BY <1>2, <1>3, <1>4

\* The next comma is found, and one less is ahead.
LEMMA ScanCommas == CommaInv /\ Scan => EnoughCommas'
<1> SUFFICES ASSUME CommaInv, Scan PROVE EnoughCommas'
  OBVIOUS
<1>1. /\ EnoughCommas /\ TypeOK /\ Terminated /\ pc = "scan" /\ field \in 0 .. 7
      /\ UNCHANGED <<print_buf1, printit>>
  BY DEF CommaInv, ShapeInv, TextInv, LineInv, CallContext, TypeOK, Scan
<1>2. PICK c \in [1 .. 8 -> Nat] : Ladder(print_buf1, c) /\ p <= c[field + 1]
  BY <1>1 DEF EnoughCommas, Parsing
<1>3. Commas # {} /\ Min(Commas) <= c[field + 1]
  BY <1>1, <1>2, CommaAhead
<1>4. /\ field' = field + 1 /\ p' = Min(Commas) + 1
      /\ pc' = CASE field' \in {2, 3, 5} -> "read"
                 [] field' = 8 -> "done"
                 [] OTHER -> "scan"
  BY <1>3 DEF Scan
<1>5. Parsing' => field' \in 0 .. 7
  <2>1. field' \in 0 .. 8
    BY <1>1, <1>4
  <2>2. field' = 8 => pc' = "done"
    BY <1>4
  <2>3. field' = 8 \/ field' \in 0 .. 7
    BY <2>1
  <2> QED
    BY <2>2, <2>3 DEF Parsing
<1>6. field' \in 0 .. 7 => p' <= c[field' + 1]
  <2> DEFINE m == Min(Commas)
  <2>1. m \in Nat /\ m <= c[field + 1] /\ p' = m + 1
    <3>1. m \in p .. Len(print_buf1) /\ p \in Nat \ {0}
      BY <1>1, <1>3, CommaFacts DEF TypeOK
    <3>2. m \in Nat
      <4> HIDE DEF m
      <4> QED
        BY <3>1
    <3> QED
      BY <1>3, <1>4, <3>2
  <2> HIDE DEF m
  <2>2. ASSUME field' \in 0 .. 7
        PROVE  /\ field + 1 \in 1 .. 7 /\ field' + 1 = field + 1 + 1
               /\ field + 1 \in 1 .. 8 /\ field + 1 + 1 \in 1 .. 8
    BY <1>1, <1>4, <2>2
  <2>3. \A i \in 1 .. 8 : c[i] \in Nat
    BY <1>2
  <2>4. \A i \in 1 .. 7 : c[i] < c[i + 1]
    BY <1>2 DEF Ladder
  <2>5. ASSUME field' \in 0 .. 7 PROVE p' <= c[field' + 1]
    <3>1. /\ c[field + 1] \in Nat /\ c[field + 1 + 1] \in Nat
          /\ c[field + 1] < c[field + 1 + 1]
      BY <2>2, <2>3, <2>4, <2>5
    <3>2. m + 1 <= c[field + 1 + 1]
      BY <2>1, <3>1
    <3> QED
      BY <2>1, <2>2, <2>5, <3>2
  <2> QED
    BY <2>5
<1>7. Parsing' => \E d \in [1 .. 8 -> Nat] :
                    Ladder(print_buf1', d) /\ p' <= d[field' + 1]
  BY <1>1, <1>2, <1>5, <1>6
<1>8. pc' # "idle"
  BY <1>4
<1> QED
  BY <1>1, <1>7, <1>8 DEF EnoughCommas

\* A call begins at the start of the line.
LEMMA CallCommas == CommaInv /\ Call => EnoughCommas'
<1> SUFFICES ASSUME CommaInv, Call PROVE EnoughCommas'
  OBVIOUS
<1>1. /\ EnoughCommas /\ TypeOK /\ printit /\ p = 1 /\ field = 0 /\ pc' = "scan"
      /\ UNCHANGED <<print_buf1, printit, p, field>>
  BY DEF CommaInv, ShapeInv, TextInv, LineInv, CallContext, Call, EnoughCommas
<1>2. PICK c \in [1 .. 8 -> Nat] : Ladder(print_buf1, c)
  BY <1>1 DEF EnoughCommas
<1>3. p <= c[field + 1]
  <2>1. print_buf1 \in Seq(Tokens)
    BY <1>1 DEF TypeOK
  <2>2. 1 \in 1 .. 8 /\ field + 1 = 1
    BY <1>1
  <2>3. c[1] \in 1 .. Len(print_buf1)
    BY <1>2, <2>1, <2>2, CommasOfLine DEF Ladder
  <2>4. c[1] \in Nat /\ 1 <= c[1]
    BY <1>2, <2>3
  <2> QED
    BY <1>1, <2>2, <2>4
<1> QED
  BY <1>1, <1>2, <1>3 DEF EnoughCommas

\* The other steps.
LEMMA OtherCommas ==
    CommaInv /\ (Lose \/ CallInVain \/ Read \/ Return \/ Torn \/ Wild \/ UNCHANGED vars)
        => EnoughCommas'
<1> SUFFICES ASSUME CommaInv,
                    Lose \/ CallInVain \/ Read \/ Return \/ Torn \/ Wild \/ UNCHANGED vars
             PROVE  EnoughCommas'
  OBVIOUS
<1>1. EnoughCommas
  BY DEF CommaInv
<1>2. CASE Lose \/ CallInVain \/ Read \/ UNCHANGED vars
  <2>1. /\ UNCHANGED <<print_buf1, printit, field, p>>
        /\ pc' = pc \/ (Parsing /\ pc' # "idle")
    BY <1>2 DEF Lose, CallInVain, Read, ReadStatus, ReadLatitude, ReadLongitude, vars,
       call, Parsing
  <2> QED
    BY <1>1, <2>1 DEF EnoughCommas, Parsing
<1>3. CASE Return \/ Torn \/ Wild
  <2>1. /\ pc' \in {"idle", "done", "wild"} /\ (pc' = "idle" => p' = 1)
        /\ UNCHANGED <<print_buf1, printit>> \/ printit' = FALSE
    BY <1>3 DEF Return, Torn, Wild, Leave
  <2> QED
    BY <1>1, <2>1 DEF EnoughCommas, Parsing
<1> QED
  BY <1>2, <1>3

\* Every step.
LEMMA NextCommas == Narrow /\ CommaInv /\ [Next]_vars => CommaInv'
<1> SUFFICES ASSUME Narrow, CommaInv, [Next]_vars PROVE CommaInv'
  OBVIOUS
<1>1. EnoughCommas'
  BY ReceiveCommas, ScanCommas, CallCommas, OtherCommas DEF Next, Parse
<1>2. ShapeInv'
  BY NextShape DEF CommaInv
<1> QED
  BY <1>1, <1>2 DEF CommaInv

(* One lost character is survived: the handler never fills its buffer, and the
   parse of a line that is not replaced under it finds every comma it looks for,
   whichever character of the sentence is missing. *)
THEOREM StaysInBounds ==
    ASSUME Narrow PROVE Spec => []InBounds
<1>1. Init => CommaInv
  <2> SUFFICES ASSUME Init PROVE EnoughCommas
    BY InitShape DEF CommaInv
  <2> QED
    BY DEF Init, EnoughCommas, Parsing
<1>2. CommaInv /\ [Next]_vars => CommaInv'
  BY NextCommas
<1>3. CommaInv => InBounds
  <2> SUFFICES ASSUME CommaInv PROVE InBounds
    OBVIOUS
  <2>1. /\ TypeOK /\ Terminated /\ CallContext /\ LengthSoFar /\ EnoughCommas
    BY DEF CommaInv, ShapeInv, TextInv, LineInv
  <2>2. Len(uart_buf1) < BufSize
    <3>1. Len(uart_buf1) \in Nat /\ at \in Nat /\ 1 <= at /\ at <= 16
      BY <2>1, ShapeFacts
    <3>2. Len(uart_buf1) <= 16
      <4>1. CASE at > 1
        BY <2>1, <3>1, <4>1 DEF LengthSoFar
      <4>2. CASE at = 1
        <5>1. Len(uart_buf1) <= IF lost = 0 THEN 1 ELSE 16
          BY <2>1, <4>2 DEF LengthSoFar
        <5> QED
          BY <3>1, <5>1
      <4> QED
        BY <3>1, <4>1, <4>2
    <3> QED
      BY <3>1, <3>2, GpsAssumption DEF Narrow
  <2>3. ASSUME pc = "scan" PROVE Commas # {}
    <3>1. PICK c \in [1 .. 8 -> Nat] : Ladder(print_buf1, c) /\ p <= c[field + 1]
      BY <2>1, <2>3 DEF EnoughCommas, Parsing
    <3>2. field \in 0 .. 7
      BY <2>1, <2>3 DEF CallContext, TypeOK
    <3> QED
      BY <2>1, <3>1, <3>2, CommaAhead
  <2> QED
    BY <2>2, <2>3 DEF InBounds
<1> QED
  BY <1>1, <1>2, <1>3, PTL DEF Spec
=============================================================================
