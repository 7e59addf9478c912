---------------------------- MODULE Sha256Stream ----------------------------
(***************************************************************************)
(* The SHA-256 of llvmboxlib.c around its compression function: how         *)
(* sha256_write cuts what it is given into chunks, across calls, and how    *)
(* sha256_close pads the last one or two.                                   *)
(***************************************************************************)
EXTENDS Integers, Sequences

CONSTANTS
  Chunk,     \* SHA256_CHUNK_SIZE, 64 bytes
  LenBytes,  \* kTotalLenLen, 8 bytes
  Bits,      \* bits of a byte, 8
  MaxTotal   \* bound: bytes written

ASSUME SizesAssumption ==
  /\ LenBytes \in Nat \ {0} /\ Chunk \in Nat /\ Chunk > LenBytes
  /\ Bits \in Nat /\ Bits >= 3 /\ MaxTotal \in Nat

(* A byte is known by its place in the message, or it is one of the padding. *)
Data(i) == <<"data", i>>
Byte(v) == <<"byte", v>>
Junk == <<"junk", 0>>

VARIABLES
  hpc,         \* "idle", "write" or "closed"
  h,           \* all bytes given to sha256_consume_chunk, in order
  chunk,       \* the buffer
  chunk_pos,   \* number of bytes in it
  space_left,
  total_len,
  p,           \* bytes of the message read so far, the pointer p
  len          \* bytes of the current write still to be read

hashVars == <<hpc, h, chunk, chunk_pos, space_left, total_len, p, len>>

HashInit ==
  /\ hpc = "idle" /\ h = <<>>
  /\ chunk = [i \in 1..Chunk |-> Junk]
  /\ chunk_pos = 0 /\ space_left = Chunk
  /\ total_len = 0 /\ p = 0 /\ len = 0

HashWrite ==  \* the call of sha256_write
  /\ hpc = "idle"
  /\ \E n \in 0..(MaxTotal - total_len) : len' = n /\ total_len' = total_len + n
  /\ hpc' = "write"
  /\ UNCHANGED <<h, chunk, chunk_pos, space_left, p>>

WholeChunk_Always == len >= Chunk \* mutant: also with bytes in the buffer

WholeChunk == space_left = Chunk /\ len >= Chunk

HashWhole ==  \* a chunk is consumed from where it is
  /\ hpc = "write" /\ WholeChunk
  /\ h' = h \o [i \in 1..Chunk |-> Data(p + i)]
  /\ len' = len - Chunk /\ p' = p + Chunk
  /\ UNCHANGED <<hpc, chunk, chunk_pos, space_left, total_len>>

Consumed == IF len < space_left THEN len ELSE space_left

HashPart ==  \* bytes are copied into the buffer
  LET n == Consumed
  IN /\ hpc = "write" /\ len > 0 /\ ~WholeChunk
     /\ chunk' = [i \in 1..Chunk |->
                    IF i > chunk_pos /\ i <= chunk_pos + n THEN Data(p + i - chunk_pos)
                    ELSE chunk[i]]
     /\ len' = len - n /\ p' = p + n
     /\ \/ /\ space_left = n
           /\ h' = h \o chunk'
           /\ chunk_pos' = 0 /\ space_left' = Chunk
        \/ /\ space_left # n
           /\ chunk_pos' = chunk_pos + n /\ space_left' = space_left - n
           /\ UNCHANGED h
     /\ UNCHANGED <<hpc, total_len>>

HashWritten ==
  /\ hpc = "write" /\ len = 0
  /\ hpc' = "idle"
  /\ UNCHANGED <<h, chunk, chunk_pos, space_left, total_len, p, len>>

(* A recursive function, of which proofs can say what ^ makes of variables. *)
pow2[k \in Nat] == IF k = 0 THEN 1 ELSE 2 * pow2[k - 1]

(* The bytes from i to the end that memset and the length fill, with left   *)
(* zeros before the length.                                                 *)
LengthByte(j) ==
  IF j = LenBytes THEN (total_len * 8) % pow2[Bits]
  ELSE ((total_len \div pow2[Bits - 3]) \div pow2[Bits * (LenBytes - 1 - j)]) % pow2[Bits]

NeedsSecond_OffByOne(space) == space <= LenBytes \* mutant

NeedsSecond(space) == space < LenBytes

HashClose ==
  LET at == chunk_pos + 1
      first == [i \in 1..Chunk |-> IF i = at THEN Byte(128)
                                   ELSE IF i > at /\ NeedsSecond(space_left - 1) THEN Byte(0)
                                   ELSE chunk[i]]
      from == IF NeedsSecond(space_left - 1) THEN 0 ELSE at
      last == [i \in 1..Chunk |-> IF i <= from THEN first[i]
                                  ELSE IF i <= Chunk - LenBytes THEN Byte(0)
                                  ELSE Byte(LengthByte(i - (Chunk - LenBytes)))]
  IN /\ hpc = "idle"
     /\ h' = h \o (IF NeedsSecond(space_left - 1) THEN first \o last ELSE last)
     /\ chunk' = last
     /\ hpc' = "closed"
     /\ UNCHANGED <<chunk_pos, space_left, total_len, p, len>>

HashNext == HashWrite \/ HashWhole \/ HashPart \/ HashWritten \/ HashClose

HashSpec == HashInit /\ [][HashNext]_hashVars

-----------------------------------------------------------------------------
(* Whatever the sizes of the writes, the chunks consumed and the buffer are *)
(* the bytes written so far, each once and in order, and the buffer always  *)
(* has room for at least one more (sha256_close counts on it).              *)
Streamed ==
  hpc # "closed" =>
    /\ p + len = total_len
    /\ p = Len(h) + chunk_pos
    /\ \A i \in 1..Len(h) : h[i] = Data(i)
    /\ \A i \in 1..chunk_pos : chunk[i] = Data(Len(h) + i)
    /\ chunk_pos + space_left = Chunk /\ space_left > 0

(* FIPS 180: the message, a bit, the fewest zeros that fill the last chunk, *)
(* and the length in bits as one number.                                    *)
Padding(n) ==
  LET zeros == CHOOSE k \in 0..(Chunk - 1) : (n + 1 + k + LenBytes) % Chunk = 0
      size == n + 1 + zeros + LenBytes
  IN [i \in 1..size |->
        IF i <= n THEN Data(i)
        ELSE IF i = n + 1 THEN Byte(128)
        ELSE IF i <= size - LenBytes THEN Byte(0)
        ELSE Byte(((n * 8) \div pow2[Bits * (size - i)]) % pow2[Bits])]

(* What is hashed is the padded message, also where the length takes a      *)
(* second chunk.                                                            *)
Padded == hpc = "closed" => h = Padding(total_len)
=============================================================================
