------------------------------ MODULE CurlUpload ------------------------------
(***************************************************************************)
(* Uploading from memory: the cursor (MemoryStruct) that libcurl moves     *)
(* through its read and seek callbacks.  A server that wants              *)
(* authentication, or a redirect, makes libcurl rewind and send the body   *)
(* again, possibly after part of it was already sent.                      *)
(*                                                                         *)
(* Addresses are numbers; the body occupies Start .. Start + length - 1    *)
(* and a byte is identified with its address.  libcurl is external: which  *)
(* callback it calls, and with which arguments, is its own choice.         *)
(***************************************************************************)
EXTENDS Integers, Sequences

CONSTANTS
    MaxBody,    \* bound on the length of the body
    MaxChunk,   \* bound on what libcurl asks for at a time
    SizeRange   \* how many values a size_t has: 2^64, or 2^32 on a 32-bit build

ASSUME MaxBodyAssumption == MaxBody \in Nat
ASSUME MaxChunkAssumption == MaxChunk \in Nat
ASSUME SizeRangeAssumption == SizeRange \in Nat /\ SizeRange > MaxBody + 1

VARIABLES
    length,     \* upload_data.size()
    memory,     \* userdata.memory: the next byte to send
    size,       \* userdata.size: the bytes that remain
    origin,     \* userdata.origin: where SEEK_SET counts from
    (* The server's side. *)
    sent,       \* the bytes received since libcurl last (re)started the body
    base,       \* the byte libcurl then meant to start from
    seek_result \* what the last SeekFunction returned

vars == <<length, memory, size, origin, sent, base, seek_result>>

Null == 0
Start == 1

TypeOK ==
    /\ length \in 0..MaxBody
    /\ memory \in Nat
    /\ size \in Nat
    /\ origin \in Nat
    /\ sent \in Seq(Nat)
    /\ base \in Nat
    /\ seek_result \in {"none", "ok", "fail", "cantseek"}

\* upload_data.data(): an empty vector has no storage.
DataPointer(n) == IF n = 0 THEN Null ELSE Start

\* prepare_data_upload: the window is the whole body and origin its start.
Init ==
    /\ length \in 0..MaxBody
    /\ memory = DataPointer(length)
    /\ size = length
    /\ origin = DataPointer(length)
    /\ sent = <<>>
    /\ base = DataPointer(length)
    /\ seek_result = "none"

Smaller(a, b) == IF a < b THEN a ELSE b

Chunk(from, n) == [i \in 1..n |-> from + (i - 1)]

\* Mutant: origin follows the cursor, so that a rewind starts at the last chunk.
ReadMemoryMovingOrigin(n) ==
    LET k == Smaller(size, n) IN
    /\ sent' = sent \o Chunk(memory, k)
    /\ origin' = memory
    /\ size' = size - k
    /\ memory' = memory + k
    /\ UNCHANGED <<length, base, seek_result>>

\* ReadMemoryCallback: libcurl asks for up to n bytes and sends what it gets.
ReadMemory(n) ==
    LET k == Smaller(size, n) IN
    /\ sent' = sent \o Chunk(memory, k)
    /\ size' = size - k
    /\ memory' = memory + k
    /\ UNCHANGED <<length, origin, base, seek_result>>

Total == (memory - origin) + size

\* Mutant: only the sign is looked at.
NotNegative(offset) == offset >= 0

\* (size_t) offset: a negative offset becomes a huge one, and one that size_t
\* cannot hold loses its upper bits.
size_t(offset) == offset % SizeRange

InRange(offset) == size_t(offset) <= Total

\* Mutant: the remaining size is not computed again.
SeekToKeepingSize(offset) ==
    /\ memory' = origin + offset
    /\ sent' = <<>>
    /\ base' = Start + offset
    /\ seek_result' = "ok"
    /\ UNCHANGED <<length, size, origin>>

\* The part of SeekFunction that moves the cursor; libcurl sends from there.
SeekTo(offset) ==
    /\ memory' = origin + size_t(offset)
    /\ size' = Total - size_t(offset)
    /\ sent' = <<>>
    /\ base' = Start + offset
    /\ seek_result' = "ok"
    /\ UNCHANGED <<length, origin>>

\* SeekFunction: only SEEK_SET, only within the body, only if there is a body.
Seek(whence, offset) ==
    \/ whence = "SEEK_SET" /\ origin # Null /\ InRange(offset) /\ SeekTo(offset)
    \/ /\ whence = "SEEK_SET" /\ origin # Null /\ ~InRange(offset)
       /\ seek_result' = "fail"
       /\ UNCHANGED <<length, memory, size, origin, sent, base>>
    \/ /\ whence # "SEEK_SET" \/ origin = Null
       /\ seek_result' = "cantseek"
       /\ UNCHANGED <<length, memory, size, origin, sent, base>>

\* What libcurl asks for: a position of the body it was told of, or one next to it.
Offset == -1..(MaxBody + 1)

Next ==
    \/ \E n \in 0..MaxChunk : ReadMemory(n)
    \/ \E whence \in {"SEEK_SET", "SEEK_CUR", "SEEK_END"}, offset \in Offset :
           Seek(whence, offset)

Spec == Init /\ [][Next]_vars

-----------------------------------------------------------------------------
(* Properties. *)

\* The window of the cursor always ends where the body ends, so no rewind
\* makes a later read run past the buffer or stop short of its end.
WindowInBody ==
    /\ origin = DataPointer(length)
    /\ memory >= origin
    /\ Total = length

\* The server has received, since the last start, exactly the bytes of the body
\* from that start to the cursor, each once and in order: a rewound upload is
\* not corrupted by what had been sent before.
SentIsContiguous ==
    /\ memory = base + Len(sent)
    /\ \A i \in 1..Len(sent) : sent[i] = base + (i - 1)

\* When libcurl has read the body to its end the server has received all of it
\* from where libcurl started, however often and from wherever it was rewound.
UploadIsComplete ==
    size = 0 /\ length > 0 => sent = Chunk(base, Start + length - base)

\* What the server receives, without the pointers: see BodyTransfer.
Transfer == INSTANCE BodyTransfer WITH
    start <- IF length = 0 THEN 0 ELSE base - Start,
    received <- [i \in 1..Len(sent) |-> sent[i] - Start],
    answer <- seek_result

ImplementsBodyTransfer == Transfer!Spec

=============================================================================
