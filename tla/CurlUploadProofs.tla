---------------------------- MODULE CurlUploadProofs ----------------------------
(* Proofs about CurlUpload for a body and chunks of any length. *)
EXTENDS CurlUpload, SequenceTheorems, TLAPS

\* libcurl starts within the body.
BaseInBody == base >= DataPointer(length)

Inv == TypeOK /\ WindowInBody /\ SentIsContiguous /\ BaseInBody

\* (size_t) offset: a position below the range of size_t is itself, and a
\* negative one is as far from the end of the range as it is from 0.
LEMMA SizeFacts ==
    ASSUME NEW offset \in (-SizeRange)..(SizeRange - 1)
    PROVE  /\ size_t(offset) \in Nat
           /\ size_t(offset) = IF offset >= 0 THEN offset ELSE SizeRange + offset
<1>1. SizeRange \in Nat /\ SizeRange > 0
  BY MaxBodyAssumption, SizeRangeAssumption
<1>2. CASE offset >= 0
  BY <1>1, <1>2 DEF size_t
<1>3. CASE offset < 0
  BY <1>1, <1>3 DEF size_t
<1>4. QED
  BY <1>2, <1>3

\* What libcurl asks for lies in that range, and is accepted in the body only.
LEMMA OffsetFacts ==
    ASSUME NEW n \in 0..MaxBody, NEW offset \in Offset
    PROVE  /\ offset \in (-SizeRange)..(SizeRange - 1) /\ offset \in Int
           /\ size_t(offset) <= n => offset \in 0..n /\ size_t(offset) = offset
<1>1. offset \in (-SizeRange)..(SizeRange - 1) /\ offset \in Int
  BY MaxBodyAssumption, SizeRangeAssumption DEF Offset
<1>2. size_t(offset) = IF offset >= 0 THEN offset ELSE SizeRange + offset
  BY <1>1, SizeFacts
<1>3. QED
  BY <1>1, <1>2, MaxBodyAssumption, SizeRangeAssumption DEF Offset

\* The chunk a read appends: its length and its bytes.
LEMMA ChunkFacts ==
    ASSUME NEW from \in Nat, NEW k \in Nat
    PROVE  /\ Chunk(from, k) \in Seq(Nat)
           /\ Len(Chunk(from, k)) = k
           /\ \A i \in 1..k : Chunk(from, k)[i] = from + (i - 1)
<1>1. \A i \in 1..k : from + (i - 1) \in Nat
  OBVIOUS
<1>2. QED
  BY <1>1 DEF Chunk

\* What a read appends continues what was sent before.
LEMMA AppendContiguous ==
    ASSUME NEW s \in Seq(Nat), NEW b \in Nat, NEW k \in Nat, NEW from \in Nat,
           from = b + Len(s),
           \A i \in 1..Len(s) : s[i] = b + (i - 1)
    PROVE  /\ s \o Chunk(from, k) \in Seq(Nat)
           /\ Len(s \o Chunk(from, k)) = Len(s) + k
           /\ \A i \in 1..Len(s) + k : (s \o Chunk(from, k))[i] = b + (i - 1)
<1> DEFINE c == Chunk(from, k)
<1>1. c \in Seq(Nat) /\ Len(c) = k /\ \A i \in 1..k : c[i] = from + (i - 1)
  BY ChunkFacts
<1>2. Len(s) \in Nat
  BY LenProperties
<1> HIDE DEF c
<1>3. /\ s \o c \in Seq(Nat)
      /\ Len(s \o c) = Len(s) + k
      /\ \A i \in 1..Len(s) + k : (s \o c)[i] = IF i <= Len(s) THEN s[i] ELSE c[i - Len(s)]
  BY <1>1, ConcatProperties
<1>4. \A i \in 1..Len(s) + k : i <= Len(s) => i \in 1..Len(s)
  BY <1>2
<1>5. \A i \in 1..Len(s) + k : ~(i <= Len(s)) =>
          i - Len(s) \in 1..k /\ from + ((i - Len(s)) - 1) = b + (i - 1)
  BY <1>2
<1>6. \A i \in 1..Len(s) + k : (s \o c)[i] = b + (i - 1)
  BY <1>1, <1>3, <1>4, <1>5
<1>7. QED
  BY <1>3, <1>6 DEF c

\* Before the first callback the window is the body and nothing was sent.
LEMMA InvInit == Init => Inv
BY MaxBodyAssumption
   DEF Init, Inv, TypeOK, WindowInBody, SentIsContiguous, BaseInBody, Total, DataPointer, Start, Null

\* Every callback keeps the window on the body and the sent bytes contiguous.
LEMMA InvStep == Inv /\ [Next]_vars => Inv'
<1> SUFFICES ASSUME Inv, [Next]_vars PROVE Inv'
  OBVIOUS
<1> USE DEF Inv, TypeOK, WindowInBody, BaseInBody
<1>0. length \in Nat /\ Total = length /\ Len(sent) \in Nat
  BY MaxBodyAssumption
<1>1. ASSUME NEW n \in 0..MaxChunk, ReadMemory(n) PROVE Inv'
  <2> DEFINE k == Smaller(size, n)
  <2>1. k \in Nat /\ k <= size
    BY MaxChunkAssumption DEF Smaller
  <2>2. /\ sent' = sent \o Chunk(memory, k) /\ size' = size - k /\ memory' = memory + k
        /\ UNCHANGED <<length, origin, base, seek_result>>
    BY <1>1 DEF ReadMemory
  <2> HIDE DEF k
  <2>3. memory = base + Len(sent)
    BY DEF SentIsContiguous
  <2>4. sent' \in Seq(Nat) /\ Len(sent') = Len(sent) + k
        /\ \A i \in 1..Len(sent) + k : sent'[i] = base + (i - 1)
    BY <2>1, <2>2, <2>3, AppendContiguous DEF SentIsContiguous
  <2>5. SentIsContiguous'
    <3>1. memory' = base' + Len(sent')
      <4>1. memory' = (base + Len(sent)) + k /\ base' = base
        BY <2>2, <2>3
      <4>2. Len(sent') = Len(sent) + k
        BY <2>4
      <4>3. base \in Nat /\ Len(sent) \in Nat /\ k \in Nat
        BY <1>0, <2>1
      <4>4. QED
        BY <4>1, <4>2, <4>3
    <3>2. \A i \in 1..Len(sent') : sent'[i] = base' + (i - 1)
      BY <2>2, <2>4
    <3>3. QED
      BY <3>1, <3>2 DEF SentIsContiguous
  <2>6. Total' = Total /\ memory' >= origin'
    BY <2>1, <2>2 DEF Total
  <2>7. QED
    BY <1>0, <2>1, <2>2, <2>4, <2>5, <2>6
<1>2. ASSUME NEW whence \in {"SEEK_SET", "SEEK_CUR", "SEEK_END"}, NEW offset \in Offset,
             Seek(whence, offset)
      PROVE  Inv'
  <2>1. CASE origin # Null /\ InRange(offset) /\ SeekTo(offset)
    <3>1. origin = Start /\ offset \in Nat /\ offset <= length /\ size_t(offset) = offset
      <4>1. offset \in 0..length /\ size_t(offset) = offset
        BY <1>0, <2>1, OffsetFacts DEF InRange
      <4>2. QED
        BY <1>0, <2>1, <4>1 DEF DataPointer
    <3>2. memory' = Start + offset /\ base' = memory' /\ sent' = <<>> /\ size' = length - offset
      BY <1>0, <2>1, <3>1 DEF SeekTo
    <3>3. UNCHANGED <<length, origin>> /\ seek_result' = "ok"
      BY <2>1 DEF SeekTo
    <3>4. SentIsContiguous'
      BY <3>1, <3>2 DEF SentIsContiguous, Start
    <3>5. Total' = length' /\ memory' >= origin'
      BY <1>0, <3>1, <3>2, <3>3 DEF Total, Start
    <3>6. TypeOK'
      <4>1. memory' \in Nat /\ base' \in Nat /\ size' \in Nat
        BY <1>0, <3>1, <3>2 DEF Start
      <4>2. sent' \in Seq(Nat)
        BY <3>2
      <4>3. QED
        BY <3>3, <4>1, <4>2
    <3>7. WindowInBody'
      BY <3>3, <3>5
    <3>8. BaseInBody'
      BY <3>1, <3>2, <3>3 DEF DataPointer, Start
    <3>9. QED
      BY <3>4, <3>6, <3>7, <3>8
  <2>2. CASE /\ seek_result' \in {"fail", "cantseek"}
             /\ UNCHANGED <<length, memory, size, origin, sent, base>>
    BY <2>2 DEF SentIsContiguous, Total
  <2>3. QED
    BY <1>2, <2>1, <2>2 DEF Seek
<1>3. CASE UNCHANGED vars
  BY <1>3 DEF vars, SentIsContiguous, Total
<1>4. QED
  BY <1>1, <1>2, <1>3 DEF Next

\* The invariant holds in every state.
LEMMA InvAlways == Spec => []Inv
BY InvInit, InvStep, PTL DEF Spec

\* No read or rewind takes the cursor out of the body, for any body and any
\* sequence of callbacks.
THEOREM CursorStaysInBody == Spec => []WindowInBody
<1>1. Inv => WindowInBody
  BY DEF Inv
<1>2. QED
  BY <1>1, InvAlways, PTL

\* What libcurl was given since the last rewind is a run of consecutive bytes of
\* the body that ends where the cursor stands: no read skips or repeats a byte.
THEOREM SentContiguous == Spec => []SentIsContiguous
<1>1. Inv => SentIsContiguous
  BY DEF Inv
<1>2. QED
  BY <1>1, InvAlways, PTL

\* An upload that reaches the end of the body has delivered it uncorrupted.
THEOREM UploadComplete == Spec => []UploadIsComplete
<1>1. ASSUME Inv, size = 0, length > 0 PROVE sent = Chunk(base, Start + length - base)
  <2> DEFINE k == Start + length - base
  <2>1. sent \in Seq(Nat) /\ Len(sent) \in Nat /\ base \in Nat /\ length \in Nat
    BY <1>1, MaxBodyAssumption DEF Inv, TypeOK
  <2>2. k = Len(sent)
    BY <1>1, <2>1 DEF Inv, TypeOK, WindowInBody, SentIsContiguous, Total, DataPointer, Start
  <2> HIDE DEF k
  <2>3. \A i \in 1..k : sent[i] = base + (i - 1)
    BY <1>1, <2>2 DEF Inv, SentIsContiguous
  <2>4. sent = [i \in 1..k |-> sent[i]]
    BY <2>1, <2>2
  <2>5. sent = Chunk(base, k)
    BY <2>3, <2>4 DEF Chunk
  <2>6. QED
    BY <2>5 DEF k
<1>2. Inv => UploadIsComplete
  BY <1>1 DEF UploadIsComplete
<1>3. QED
  BY <1>2, InvAlways, PTL

\* A rewind is accepted for exactly the positions of the body, however far the
\* cursor is, and an empty body has none.  That is so of every offset whose
\* conversion to size_t falls on no other position of the body: with 64 bits
\* that is every curl_off_t, with 32 bits those nearer to 0 than 4 GB less the
\* body (an offset of 4 GB would be taken for 0).
THEOREM RewindsAreAccepted ==
    Spec => [](/\ origin # Null <=> length > 0
               /\ \A offset \in (length + 1 - SizeRange)..(SizeRange - 1) :
                      InRange(offset) <=> offset \in 0..length)
<1>1. ASSUME Inv, NEW offset \in (length + 1 - SizeRange)..(SizeRange - 1)
      PROVE  InRange(offset) <=> offset \in 0..length
  <2>1. length \in 0..MaxBody /\ length \in Nat /\ Total = length
    BY <1>1, MaxBodyAssumption DEF Inv, TypeOK, WindowInBody
  <2>2. offset \in (-SizeRange)..(SizeRange - 1) /\ SizeRange \in Nat
    BY <1>1, <2>1, SizeRangeAssumption
  <2>3. size_t(offset) = IF offset >= 0 THEN offset ELSE SizeRange + offset
    BY <2>2, SizeFacts
  <2>4. QED
    BY <1>1, <2>1, <2>2, <2>3 DEF InRange
<1>2. Inv => (origin # Null <=> length > 0)
  BY MaxBodyAssumption DEF Inv, TypeOK, WindowInBody, DataPointer, Null, Start
<1>3. Inv => /\ origin # Null <=> length > 0
             /\ \A offset \in (length + 1 - SizeRange)..(SizeRange - 1) :
                    InRange(offset) <=> offset \in 0..length
  BY <1>1, <1>2
<1>4. QED
  BY <1>3, InvAlways, PTL

\* Every byte that was sent is one of the body.
THEOREM SentIsOfBody ==
    Spec => [](\A i \in 1..Len(sent) : sent[i] \in Start..(Start + length - 1))
<1>1. ASSUME Inv, NEW i \in 1..Len(sent) PROVE sent[i] \in Start..(Start + length - 1)
  <2>1. /\ Len(sent) \in Nat /\ base \in Nat /\ length \in Nat /\ size \in Nat
        /\ memory = base + Len(sent) /\ sent[i] = base + (i - 1) /\ sent[i] \in Nat
    BY <1>1, MaxBodyAssumption DEF Inv, TypeOK, SentIsContiguous
  <2>2. memory - origin <= length /\ origin \in {0, 1} /\ (origin = 0 <=> length = 0)
    BY <1>1, <2>1 DEF Inv, TypeOK, WindowInBody, Total, DataPointer, Null, Start
  <2>3. length > 0 => base >= Start
    BY <1>1, <2>1 DEF Inv, BaseInBody, DataPointer, Start
  <2>4. length > 0
    BY <2>1, <2>2
  <2>5. QED
    BY <2>1, <2>2, <2>3, <2>4 DEF Start
<1>2. Inv => \A i \in 1..Len(sent) : sent[i] \in Start..(Start + length - 1)
  BY <1>1
<1>3. QED
  BY <1>2, InvAlways, PTL

-----------------------------------------------------------------------------
(* What the server receives. *)

\* The refinement mapping.
AbsStart == IF length = 0 THEN 0 ELSE base - Start
AbsReceived == [i \in 1..Len(sent) |-> sent[i] - Start]

\* The position the server is at is that of the cursor.
LEMMA MappedPosition ==
    ASSUME Inv
    PROVE  /\ length \in Nat /\ size \in Nat /\ Len(sent) \in Nat
           /\ AbsReceived \in Seq(Int) /\ Len(AbsReceived) = Len(sent)
           /\ AbsStart + Len(AbsReceived) = length - size
           /\ \A i \in 1..Len(sent) : sent[i] \in Nat
<1>1. /\ length \in Nat /\ size \in Nat /\ Len(sent) \in Nat /\ base \in Nat
      /\ \A i \in 1..Len(sent) : sent[i] \in Nat
      /\ memory = base + Len(sent) /\ (memory - origin) + size = length
      /\ origin = IF length = 0 THEN 0 ELSE 1
      /\ memory >= origin
  BY MaxBodyAssumption
     DEF Inv, TypeOK, WindowInBody, SentIsContiguous, Total, DataPointer, Null, Start
<1>2. AbsReceived \in Seq(Int) /\ Len(AbsReceived) = Len(sent)
  BY <1>1 DEF AbsReceived, Start
<1>3. AbsStart + Len(sent) = length - size
  BY <1>1 DEF AbsStart, Start
<1>4. QED
  BY <1>1, <1>2, <1>3

\* A read hands the server the next bytes of the body.
LEMMA ReadReceives ==
    ASSUME Inv, NEW n \in 0..MaxChunk, ReadMemory(n)
    PROVE  \E k \in 0..(length - Transfer!Position) : Transfer!Receive(k)
<1>1. PICK k \in Nat : k = Smaller(size, n) /\ k <= size
  BY MaxChunkAssumption DEF Smaller, Inv, TypeOK
<1>2. /\ sent' = sent \o Chunk(memory, k)
      /\ UNCHANGED <<length, base, seek_result>>
  BY <1>1 DEF ReadMemory
<1>3. Transfer!Position = length - size /\ length \in Nat /\ size \in Nat
  BY MappedPosition DEF Transfer!Position, AbsStart, AbsReceived
<1>4. k \in 0..(length - Transfer!Position)
  BY <1>1, <1>3
<1>5. /\ sent \in Seq(Nat) /\ memory \in Nat /\ Len(sent) \in Nat
      /\ length > 0 \/ k = 0
      /\ length > 0 => memory - Start = length - size
  BY <1>1, <1>3 DEF Inv, TypeOK, WindowInBody, Total, DataPointer, Null, Start
<1>6. /\ Chunk(memory, k) \in Seq(Nat) /\ Len(Chunk(memory, k)) = k
      /\ \A i \in 1..k : Chunk(memory, k)[i] = memory + (i - 1)
  BY <1>1, <1>5, ChunkFacts
<1> DEFINE more == [i \in 1..k |-> Transfer!Position + i - 1]
<1>7. AbsReceived' = AbsReceived \o more
  <2>1. Len(more) = k /\ more \in Seq(Int) /\ \A i \in 1..k : more[i] = length - size + i - 1
    BY <1>3
  <2>2. /\ AbsReceived \in Seq(Int) /\ Len(AbsReceived) = Len(sent)
        /\ \A i \in 1..Len(sent) : AbsReceived[i] = sent[i] - Start
    BY MappedPosition DEF AbsReceived
  <2> DEFINE c == Chunk(memory, k)
  <2>3. /\ c \in Seq(Nat) /\ Len(c) = k
        /\ sent' = sent \o c
        /\ \A i \in 1..k : c[i] = memory + (i - 1)
    BY <1>2, <1>6
  <2> HIDE DEF c, more
  <2>4. /\ Len(sent') = Len(sent) + k
        /\ \A i \in 1..(Len(sent) + k) :
               sent'[i] = IF i <= Len(sent) THEN sent[i] ELSE c[i - Len(sent)]
    BY <1>5, <2>3, ConcatProperties
  <2>5. /\ AbsReceived \o more \in Seq(Int) /\ Len(AbsReceived \o more) = Len(sent) + k
        /\ \A i \in 1..(Len(sent) + k) :
               (AbsReceived \o more)[i] =
                   IF i <= Len(sent) THEN AbsReceived[i] ELSE more[i - Len(sent)]
    <3> DEFINE a == AbsReceived
    <3>1. a \in Seq(Int) /\ more \in Seq(Int) /\ Len(a) = Len(sent) /\ Len(more) = k
      BY <2>1, <2>2
    <3> HIDE DEF a
    <3>2. /\ a \o more \in Seq(Int) /\ Len(a \o more) = Len(a) + Len(more)
          /\ \A i \in 1..(Len(a) + Len(more)) :
                 (a \o more)[i] = IF i <= Len(a) THEN a[i] ELSE more[i - Len(a)]
      BY <3>1, ConcatProperties
    <3>3. QED
      BY <3>1, <3>2 DEF a
  <2>6. \A i \in 1..(Len(sent) + k) : (AbsReceived \o more)[i] = sent'[i] - Start
    <3>1. SUFFICES ASSUME NEW i \in 1..(Len(sent) + k)
                   PROVE  (AbsReceived \o more)[i] = sent'[i] - Start
      OBVIOUS
    <3>2. CASE i <= Len(sent)
      <4>1. i \in 1..Len(sent)
        BY <1>5, <3>2
      <4>2. QED
        BY <2>2, <2>4, <2>5, <3>2, <4>1
    <3>3. CASE ~ (i <= Len(sent))
      <4>1. i - Len(sent) \in 1..k /\ k > 0
        BY <1>1, <1>5, <3>3
      <4>2. more[i - Len(sent)] = length - size + (i - Len(sent)) - 1
        BY <2>1, <4>1
      <4>3. sent'[i] = memory + ((i - Len(sent)) - 1)
        BY <2>3, <2>4, <3>3, <4>1
      <4>4. memory - 1 = length - size
        BY <1>5, <4>1 DEF Start
      <4>5. (AbsReceived \o more)[i] = more[i - Len(sent)]
        BY <2>5, <3>3
      <4>6. QED
        BY <1>3, <1>5, <4>1, <4>2, <4>3, <4>4, <4>5 DEF Start
    <3>4. QED
      BY <3>2, <3>3
  <2>7. AbsReceived \o more = [i \in 1..(Len(sent) + k) |-> (AbsReceived \o more)[i]]
    <3> DEFINE r == AbsReceived \o more
    <3>1. r \in Seq(Int) /\ Len(r) = Len(sent) + k
      BY <2>5
    <3> HIDE DEF r
    <3>2. r = [i \in 1..(Len(sent) + k) |-> r[i]]
      BY <3>1
    <3>3. QED
      BY <3>2 DEF r
  <2>8. AbsReceived' = [i \in 1..(Len(sent) + k) |-> sent'[i] - Start]
    BY <2>4 DEF AbsReceived
  <2>9. QED
    BY <2>6, <2>7, <2>8
<1>8. Transfer!Receive(k)
  BY <1>2, <1>7 DEF Transfer!Receive, AbsReceived
<1>9. QED
  BY <1>4, <1>8

\* A rewind starts the server again at the offset, or leaves it alone.
LEMMA SeekRestarts ==
    ASSUME Inv, NEW whence, NEW offset \in Offset, Seek(whence, offset)
    PROVE  Transfer!Next
<1>1. CASE origin # Null /\ InRange(offset) /\ SeekTo(offset)
  <2>1. length \in Nat /\ length > 0 /\ offset \in 0..length
    <3>1. length \in 0..MaxBody /\ length > 0 /\ Total = length
      BY <1>1, MaxBodyAssumption
         DEF Inv, TypeOK, WindowInBody, DataPointer, Null, Start
    <3>2. offset \in 0..length
      BY <1>1, <3>1, OffsetFacts DEF InRange
    <3>3. QED
      BY <3>1, <3>2, MaxBodyAssumption
  <2>2. sent' = <<>> /\ base' = Start + offset /\ seek_result' = "ok" /\ length' = length
    BY <1>1 DEF SeekTo
  <2>3. [i \in 1..Len(sent') |-> sent'[i] - Start] = <<>>
    BY <2>2
  <2>4. (IF length' = 0 THEN 0 ELSE base' - Start) = offset
    BY <2>1, <2>2 DEF Start
  <2>5. Transfer!Restart(offset)
    BY <2>1, <2>2, <2>3, <2>4 DEF Transfer!Restart
  <2>6. QED
    BY <2>1, <2>5 DEF Transfer!Next
<1>2. CASE /\ seek_result' \in {"fail", "cantseek"}
           /\ UNCHANGED <<length, memory, size, origin, sent, base>>
  BY <1>2 DEF Transfer!Next, Transfer!Refuse
<1>3. QED
  BY <1>1, <1>2 DEF Seek

\* The pointers of the callbacks implement the transfer of a body: whatever
\* libcurl asks for, the server gets the next bytes of it or the bytes from the
\* position it was rewound to.
THEOREM TransferImplemented == Spec => ImplementsBodyTransfer
<1>1. Init => Transfer!Init
  <2>1. SUFFICES ASSUME Init PROVE Transfer!Init
    OBVIOUS
  <2>2. length \in Nat /\ sent = <<>> /\ seek_result = "none"
    BY <2>1, MaxBodyAssumption DEF Init
  <2>3. (IF length = 0 THEN 0 ELSE base - Start) = 0
    BY <2>1 DEF Init, DataPointer, Start
  <2>4. [i \in 1..Len(sent) |-> sent[i] - Start] = <<>>
    BY <2>2
  <2>5. QED
    BY <2>2, <2>3, <2>4 DEF Transfer!Init
<1>2. ASSUME Inv, [Next]_vars PROVE [Transfer!Next]_(Transfer!vars)
  <2>1. ASSUME NEW n \in 0..MaxChunk, ReadMemory(n) PROVE Transfer!Next
    BY <1>2, <2>1, ReadReceives DEF Transfer!Next
  <2>2. ASSUME NEW whence \in {"SEEK_SET", "SEEK_CUR", "SEEK_END"},
               NEW offset \in Offset, Seek(whence, offset)
        PROVE  Transfer!Next
    BY <1>2, <2>2, SeekRestarts
  <2>3. CASE UNCHANGED vars
    BY <2>3 DEF vars, Transfer!vars
  <2>4. QED
    BY <1>2, <2>1, <2>2, <2>3 DEF Next
<1>3. Inv /\ [Next]_vars => [Transfer!Next]_(Transfer!vars)
  BY <1>2
<1>4. QED
  BY <1>1, <1>3, InvAlways, PTL DEF Spec, ImplementsBodyTransfer, Transfer!Spec

=============================================================================
