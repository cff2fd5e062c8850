---------------------------- MODULE ContentCodec ----------------------------
(***************************************************************************)
(* What the file handlers of pkg/api/handlers/files.go do to the content   *)
(* of a file: HandlePut takes a text and stores what it decodes to, if it  *)
(* is base64, and else the text itself; readFile shows a file as text, or  *)
(* base64-encoded if it looks binary.  One file, one client at a time: the *)
(* races of the handlers are the subject of FileHandler.                   *)
(*                                                                         *)
(* Texts and contents are sequences of bytes, and base64 is computed as    *)
(* the standard encoding of Go computes it.                                *)
(***************************************************************************)
EXTENDS Integers, SequencesExt

CONSTANTS
  Texts,      \* what clients write as it stands
  Contents,   \* what clients encode, and what is in files already
  TextWindow, \* how many bytes isTextContent looks at (512 in the code)
  NULL        \* no file, nothing shown, nothing meant

ASSUME CodecAssumption ==
  /\ Texts \subseteq Seq(0..255) /\ Contents \subseteq Seq(0..255)
  /\ TextWindow \in Nat

VARIABLES
  file,   \* the file's content
  meant,  \* what the client meant to store with the last PUT, and whether
          \* it encoded it, if that was not the answer of a GET
  shown   \* the last answer of a GET

vars == <<file, meant, shown>>

-----------------------------------------------------------------------------
(***************************************************************************)
(* encoding/base64.StdEncoding.                                            *)
(***************************************************************************)
Pad == 61
Newlines == {10, 13}

Alphabet == 65..90 \cup 97..122 \cup 48..57 \cup {43, 47}

Digit(c) == CASE c \in 65..90 -> c - 65
              [] c \in 97..122 -> c - 71
              [] c \in 48..57 -> c + 4
              [] c = 43 -> 62
              [] c = 47 -> 63
              [] c = Pad -> 0

Letter(d) == CHOOSE c \in Alphabet : Digit(c) = d

At(s, i) == IF i \in DOMAIN s THEN s[i] ELSE 0
Power(b, n) == CASE n = 0 -> 1 [] n = 1 -> b [] n = 2 -> b * b [] n = 3 -> b * b * b

\* Newlines in a text are skipped.
Stripped(text) ==
  FlattenSeq([i \in DOMAIN text |-> IF text[i] \in Newlines THEN <<>> ELSE <<text[i]>>])

Pads(s) == IF Len(s) > 1 /\ s[Len(s)] = Pad /\ s[Len(s) - 1] = Pad THEN 2
           ELSE IF Len(s) > 0 /\ s[Len(s)] = Pad THEN 1
           ELSE 0

\* DecodeString returns no error: whole quanta of four, padded at the end.
IsBase64(s) ==
  /\ Len(s) % 4 = 0
  /\ \A i \in 1..(Len(s) - Pads(s)) : s[i] \in Alphabet

\* The 24 bits of the quantum q of s.
Quantum(s, q) ==
  64 * (64 * (64 * Digit(At(s, 4*q + 1)) + Digit(At(s, 4*q + 2)))
        + Digit(At(s, 4*q + 3))) + Digit(At(s, 4*q + 4))

\* A bug for the mutation checks: a byte is not cut to 8 bits.
DecodeWide(s) ==
  [k \in 1..((Len(s) \div 4) * 3 - Pads(s)) |->
     Quantum(s, (k - 1) \div 3) \div Power(256, 2 - ((k - 1) % 3))]

Decode(s) ==
  [k \in 1..((Len(s) \div 4) * 3 - Pads(s)) |->
     (Quantum(s, (k - 1) \div 3) \div Power(256, 2 - ((k - 1) % 3))) % 256]

Triple(b, q) == 256 * (256 * At(b, 3*q + 1) + At(b, 3*q + 2)) + At(b, 3*q + 3)

Encode(b) ==
  [k \in 1..(4 * ((Len(b) + 2) \div 3)) |->
     LET q == (k - 1) \div 4
         j == (k - 1) % 4
     IN  IF 3*q + j > Len(b) THEN Pad
         ELSE Letter((Triple(b, q) \div Power(64, 3 - j)) % 64)]

-----------------------------------------------------------------------------
\* A bug for the mutation checks: what is decoded is decoded once more.
StoredTwice(text) ==
  LET once == IF IsBase64(Stripped(text)) THEN Decode(Stripped(text)) ELSE text
  IN  IF IsBase64(Stripped(once)) THEN Decode(Stripped(once)) ELSE once

\* A bug for the mutation checks: nothing is decoded.
StoredAsIs(text) == text

\* HandlePut: "try base64 first, fallback to plain text".
Stored(text) ==
  IF IsBase64(Stripped(text)) THEN Decode(Stripped(text)) ELSE text

\* A bug for the mutation checks: only the first byte is looked at.
IsTextFirst(content) == At(content \o <<1>>, 1) # 0

\* isTextContent: no NUL among the first bytes.
IsText(content) == \A i \in DOMAIN content : i <= TextWindow => content[i] # 0

\* The length of the UTF-8 character that the byte b begins, if it does.
Width(b) == CASE b < 128 -> 1
              [] b \in 194..223 -> 2
              [] b \in 224..239 -> 3
              [] b \in 240..244 -> 4
              [] OTHER -> 0

\* The second byte: no overlong form, no surrogate, nothing beyond U+10FFFF.
Followers(b) == CASE b = 224 -> 160..191
                  [] b = 237 -> 128..159
                  [] b = 240 -> 144..191
                  [] b = 244 -> 128..143
                  [] OTHER -> 128..191

\* A character of content begins at first.
IsCharacterAt(content, first) ==
  /\ first + Width(content[first]) - 1 <= Len(content)
  /\ \A k \in 1..Width(content[first]) - 1 :
       content[first + k] \in IF k = 1 THEN Followers(content[first]) ELSE 128..191

\* The byte i of content is part of a character.
IsUnicodeAt(content, i) ==
  \E first \in 1..i : IsCharacterAt(content, first) /\ i < first + Width(content[first])

IsUnicode(content) == \A i \in DOMAIN content : IsUnicodeAt(content, i)

\* What comes in a request is Unicode: encoding/json has read it.
ASSUME TextsAssumption == \A text \in Texts : IsUnicode(text)

\* encoding/json writes a byte that is no UTF-8 as U+FFFD, three bytes.
Replacement == <<239, 191, 189>>

MarshalString(content) ==
  FlattenSeq([i \in DOMAIN content |->
    IF IsUnicodeAt(content, i) THEN <<content[i]>> ELSE Replacement])

\* readFile
Shown(content) ==
  [content |-> IF IsText(content) THEN MarshalString(content) ELSE Encode(content),
   isText  |-> IsText(content)]

IsBytes(s) == s = NULL \/ \A i \in DOMAIN s : s[i] \in 0..255

\* A file holds bytes, and what a GET shows is a text.
CodecTypeOK ==
  /\ IsBytes(file)
  /\ meant # NULL => IsBytes(meant.bytes) /\ meant.encoded \in BOOLEAN
  /\ shown # NULL => shown.isText \in BOOLEAN /\ IsBytes(shown.content)
                     /\ IsUnicode(shown.content)

\* A file that is there already came with the volume, or from its users.
Init ==
  /\ file \in Contents \cup {NULL}
  /\ meant = NULL
  /\ shown = NULL

\* A client writes a text as it stands.
PutText ==
  /\ file = NULL
  /\ \E text \in Texts :
       /\ file' = Stored(text)
       /\ meant' = [bytes |-> text, encoded |-> FALSE]
  /\ UNCHANGED shown

\* A client encodes what it writes.
PutEncoded ==
  /\ file = NULL
  /\ \E content \in Contents :
       /\ file' = Stored(Encode(content))
       /\ meant' = [bytes |-> content, encoded |-> TRUE]
  /\ UNCHANGED shown

Get ==
  /\ file # NULL
  /\ shown' = Shown(file)
  /\ UNCHANGED <<file, meant>>

\* A client writes back what a GET gave it.
PutBack ==
  /\ shown # NULL
  /\ file' = Stored(shown.content)
  /\ meant' = NULL
  /\ shown' = NULL

Next == PutText \/ PutEncoded \/ Get \/ PutBack

Spec == Init /\ [][Next]_vars

-----------------------------------------------------------------------------
(***************************************************************************)
(* What clients may rely on.                                               *)
(***************************************************************************)

\* The texts e and s are the same base64 but for bits of the last digit that
\* the padding makes meaningless.
SameBase64(e, s) ==
  /\ Len(e) = Len(s)
  /\ \A i \in DOMAIN s : e[i] = s[i] \/ (Pads(s) > 0 /\ Pads(e) = Pads(s) /\ i = Len(s) - Pads(s))

\* What a client meant to store is stored: whatever bytes it encoded, also
\* those that are base64 themselves, exactly as they were; and a text as it
\* stands, but for one that is the encoding of something itself (HandlePut
\* cannot tell that a client meant the letters: it stores what they encode).
MeantIsStored ==
  meant # NULL =>
    \/ file = meant.bytes
    \/ ~meant.encoded /\ SameBase64(Encode(file), Stripped(meant.bytes))

\* A client that decodes what comes with is_text = false and takes the rest
\* as it stands reads the file, unless that is neither Unicode nor has a NUL
\* where isTextContent looks for one (readFile).
GetIsFaithful ==
  shown # NULL =>
    \/ file = IF shown.isText THEN shown.content ELSE Decode(shown.content)
    \/ ~IsUnicode(file) /\ \A i \in DOMAIN file : i <= TextWindow => file[i] # 0

\* Writing back what was read changes nothing, unless what was read is a
\* text that HandlePut takes for base64 or one that JSON has altered; a
\* binary file is never changed (readFile and HandlePut undo each other).
PutBackKeeps ==
  [][shown # NULL /\ shown' = NULL =>
       \/ file' = file
       \/ shown.isText /\ (~IsUnicode(file) \/ SameBase64(Encode(file'), Stripped(file)))]_vars
=============================================================================
