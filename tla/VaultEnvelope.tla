---------------------------- MODULE VaultEnvelope ----------------------------
(***************************************************************************)
(* Client-side encryption of the Vault (src/workos/vault/_resource.py): an  *)
(* envelope of an IV, a tag, the length of the encrypted keys in LEB128,    *)
(* the keys and the ciphertext, that may reach decrypt() cut short or with  *)
(* a changed length.                                                        *)
(*                                                                         *)
(* A byte stands for itself: the part it was made as, its place there, and, *)
(* should it be read as a length, its value.  AES-GCM is taken to open what *)
(* it sealed and nothing else, and the API to know only the keys it made.   *)
(***************************************************************************)
EXTENDS Integers, Sequences, FiniteSetsExt

CONSTANTS
  KeyLengths,  \* lengths of encrypted keys
  DataLengths, \* lengths of data
  Contexts,    \* associated data other than None and ""
  Fills,       \* values of bytes that are no length
  Changes,     \* values a byte of the length may be changed to
  Absent       \* Python's None

ASSUME EnvelopeAssumption ==
  /\ KeyLengths \subseteq Nat /\ DataLengths \subseteq Nat
  /\ Fills \subseteq 0..255 /\ Changes \subseteq 0..255
  /\ Absent \notin Contexts \cup {""}

\* What the 7-bit groups of a length count; five of them hold the 32 bits that
\* _encode_u32_leb128 takes.
Weight == <<1, 128, 16384, 2097152, 268435456>>

ASSUME LengthAssumption == \A length \in KeyLengths : length \div Weight[5] < 16

VARIABLES
  envelope, \* what encrypt() returned and from what, or Absent
  received, \* the envelope as it reached decrypt()
  opened    \* what decrypt() made of it, or Absent

envelopeVars == <<envelope, received, opened>>

Associated == Contexts \cup {"", Absent}

EnvelopeInit ==
  /\ envelope = Absent
  /\ received = <<>>
  /\ opened = Absent
-----------------------------------------------------------------------------
\* Variant: 128 is taken to fit one group.
GroupCountLoose(value) == Min({i \in 1..4 : value <= Weight[i + 1]} \cup {5})

\* The 7-bit groups that hold a length.
GroupCount(value) == Min({i \in 1..4 : value < Weight[i + 1]} \cup {5})

\* _encode_u32_leb128: low groups first, the high bit on all but the last.
EncodeLeb(value) ==
  [i \in 1..GroupCount(value) |->
     ((value \div Weight[i]) % 128) + (IF i < GroupCount(value) THEN 128 ELSE 0)]

\* _decode_u32_leb128: the length and the bytes it takes, of which there are
\* five at most, or Absent for a ValueError.
DecodeLeb(bytes) ==
  LET ends == {i \in 1..Len(bytes) : bytes[i] < 128}
      n == Min(ends)
      Group(i) == IF i <= n THEN (bytes[i] % 128) * Weight[i] ELSE 0
  IN  IF ends = {} \/ n > 5 \/ (n = 5 /\ bytes[n] >= 16) THEN Absent
      ELSE [length |-> Group(1) + Group(2) + Group(3) + Group(4) + Group(5), taken |-> n]

Bytes(part, length, fill) == [i \in 1..length |-> [of |-> part, at |-> i, value |-> fill]]

\* s[from:to] in Python, which cuts short rather than fail.
Slice(s, from, to) == SubSeq(s, from + 1, Min({to, Len(s)}))

\* "if associated_data": an empty string is none.
Aad(associated) == IF associated = "" THEN Absent ELSE associated

\* The keys of the data key, their length and the ciphertext follow the IV
\* and the tag.
Sealed(keyLength, dataLength, fill) ==
  LET leb == EncodeLeb(keyLength)
  IN  Bytes("iv", 12, fill) \o Bytes("tag", 16, fill)
        \o [i \in DOMAIN leb |-> [of |-> "length", at |-> i, value |-> leb[i]]]
        \o Bytes("keys", keyLength, fill) \o Bytes("data", dataLength, fill)

Made(keyLength, dataLength, associated, fill) ==
  [bytes |-> Sealed(keyLength, dataLength, fill), keys |-> keyLength, data |-> dataLength,
   fill |-> fill, aad |-> Aad(associated), given |-> associated]

Encrypt(keyLength, dataLength, associated, fill) ==
  /\ envelope = Absent
  /\ envelope' = Made(keyLength, dataLength, associated, fill)
  /\ received' = Sealed(keyLength, dataLength, fill)
  /\ UNCHANGED opened

\* An envelope is altered once, which bounds the model.
Unaltered == envelope # Absent /\ opened = Absent /\ received = envelope.bytes

CutShort(n) ==
  /\ Unaltered
  /\ n < Len(received)
  /\ received' = SubSeq(received, 1, n)
  /\ UNCHANGED <<envelope, opened>>

ChangeLength(i, value) ==
  /\ Unaltered
  /\ i \in DOMAIN received
  /\ received[i].of = "length"
  /\ received' = [received EXCEPT ![i].value = value]
  /\ UNCHANGED <<envelope, opened>>

\* _decode_encrypted_payload
Decoded(payload) ==
  LET tail == Slice(payload, 28, Len(payload))
      leb == DecodeLeb([i \in DOMAIN tail |-> tail[i].value])
      index == 28 + leb.taken
      end == index + leb.length
  IN  IF leb = Absent THEN Absent
      ELSE [iv |-> Slice(payload, 0, 12), tag |-> Slice(payload, 12, 28),
            keys |-> Slice(payload, index, end),
            ciphertext |-> Slice(payload, end, Len(payload))]

\* What the API and AES-GCM accept.
Opens(parts, aad) ==
  /\ parts.keys = Bytes("keys", envelope.keys, envelope.fill)
  /\ parts.iv = Bytes("iv", 12, envelope.fill)
  /\ parts.tag = Bytes("tag", 16, envelope.fill)
  /\ parts.ciphertext = Bytes("data", envelope.data, envelope.fill)
  /\ aad = envelope.aad

Decrypt(associated) ==
  /\ envelope # Absent /\ opened = Absent
  /\ LET parts == Decoded(received)
     IN  opened' = [given |-> associated,
                    result |-> IF parts # Absent /\ Opens(parts, Aad(associated))
                               THEN "data" ELSE "error"]
  /\ UNCHANGED <<envelope, received>>

EnvelopeNext ==
  \/ \E keyLength \in KeyLengths, dataLength \in DataLengths, associated \in Associated,
        fill \in Fills : Encrypt(keyLength, dataLength, associated, fill)
  \/ \E n \in 0..Len(received) : CutShort(n)
  \/ \E i \in 29..33, value \in Changes : ChangeLength(i, value)
  \/ \E associated \in Associated : Decrypt(associated)

EnvelopeSpec == EnvelopeInit /\ [][EnvelopeNext]_envelopeVars
-----------------------------------------------------------------------------
Byte == [of : {"iv", "tag", "length", "keys", "data"}, at : Nat, value : Nat]

Envelopes ==
  {Made(keyLength, dataLength, associated, fill) :
     keyLength \in KeyLengths, dataLength \in DataLengths, associated \in Associated,
     fill \in Fills}

Lengths == [length : Nat, taken : Nat]

Parts == [iv : Seq(Byte), tag : Seq(Byte), keys : Seq(Byte), ciphertext : Seq(Byte)]

Results == [given : Associated, result : {"data", "error"}]

\* Absent is none of what it stands for the lack of.
ASSUME AbsentAssumption ==
  Absent \notin Envelopes /\ Absent \notin Lengths /\ Absent \notin Parts
    /\ Absent \notin Results

SameContext(a, b) == a = b \/ {a, b} = {"", Absent}

\* A byte of the content says which it is, so a set of them lacks none.
Content(bytes) == {bytes[i] : i \in {j \in DOMAIN bytes : bytes[j].of # "length"}}

\* An envelope that arrives as it was sent opens with the associated data it
\* was sealed with, whatever the length of its keys; no other associated data
\* and no envelope that lacks a byte of its content opens.  (A length beyond
\* the end is cut to it and does no harm where there is no ciphertext.)
EnvelopeOpens ==
  opened # Absent =>
    LET fits == SameContext(opened.given, envelope.given)
    IN  /\ received = envelope.bytes /\ fits => opened.result = "data"
        /\ opened.result = "data" => fits /\ Content(received) = Content(envelope.bytes)
-----------------------------------------------------------------------------
\* What may have become of an envelope on its way.
Altered(bytes) ==
  \/ \E n \in 0..Len(bytes) : received = SubSeq(bytes, 1, n)
  \/ \E i \in DOMAIN bytes, value \in Changes :
       bytes[i].of = "length" /\ received = [bytes EXCEPT ![i].value = value]

\* The inductive invariant.
EnvelopeIInv ==
  /\ envelope \in Envelopes \cup {Absent}
  /\ envelope = Absent => opened = Absent
  /\ envelope # Absent => received = envelope.bytes \/ Altered(envelope.bytes)
  /\ opened \in Results \cup {Absent}
  /\ EnvelopeOpens
=============================================================================
