------------------------------ MODULE Conversion ------------------------------
(***************************************************************************)
(* What becomes of a request's strings on the way into a CRequest and of a *)
(* CRequest's status on the way out (utils.cc, uri_codec.h).  Strings are  *)
(* sequences of bytes, and a map of strings is a function; a list of       *)
(* buffers is a sequence of their sizes and places.                        *)
(***************************************************************************)
EXTENDS Integers, Sequences, SequencesExt

Byte == 0 .. 255

(* The characters the code knows by name.                                  *)
Tab == 9
Space == 32
Percent == 37
Amp == 38
Plus == 43
Equal == 61

(* RFC3986's unreserved characters: 0-9 a-z A-Z -._~                       *)
SAFE == (48 .. 57) \cup (97 .. 122) \cup (65 .. 90) \cup {45, 46, 95, 126}

HEX2DEC(c) ==
  IF c \in 48 .. 57 THEN c - 48
  ELSE IF c \in 65 .. 70 THEN c - 55
  ELSE IF c \in 97 .. 102 THEN c - 87
  ELSE -1

DEC2HEX(d) == IF d < 10 THEN 48 + d ELSE 55 + d

(* A '%' and two hexadecimal digits stand at i.                            *)
Escape(s, i) ==
  /\ i + 2 <= Len(s)
  /\ s[i] = Percent
  /\ HEX2DEC(s[i + 1]) # -1 /\ HEX2DEC(s[i + 2]) # -1

Escaped(s, i) == 16 * HEX2DEC(s[i + 1]) + HEX2DEC(s[i + 2])

(* Mutant: the last place where an escape can stand is taken one too low.  *)
UriDecodeEarlyEnd(s) ==
  LET from[i \in 1 .. Len(s) + 1] ==
        IF i > Len(s) - 3 THEN SubSeq(s, i, Len(s))
        ELSE IF Escape(s, i) THEN <<Escaped(s, i)>> \o from[i + 3]
        ELSE <<IF s[i] = Plus THEN Space ELSE s[i]>> \o from[i + 1]
  IN from[1]

(* Mutant: a '+' is left alone.                                            *)
UriDecodeNoPlus(s) ==
  LET from[i \in 1 .. Len(s) + 1] ==
        IF i > Len(s) - 2 THEN SubSeq(s, i, Len(s))
        ELSE IF Escape(s, i) THEN <<Escaped(s, i)>> \o from[i + 3]
        ELSE <<s[i]>> \o from[i + 1]
  IN from[1]

(* Escapes become the bytes they stand for, '+' a space; the last two      *)
(* characters that no escape took are copied as they are.                  *)
UriDecode(s) ==
  LET from[i \in 1 .. Len(s) + 1] ==
        IF i > Len(s) - 2 THEN SubSeq(s, i, Len(s))
        ELSE IF Escape(s, i) THEN <<Escaped(s, i)>> \o from[i + 3]
        ELSE <<IF s[i] = Plus THEN Space ELSE s[i]>> \o from[i + 1]
  IN from[1]

UriEncode(s) ==
  LET Code(c) == IF c \in SAFE THEN <<c>>
                 ELSE <<Percent, DEC2HEX(c \div 16), DEC2HEX(c % 16)>>
  IN FlattenSeq([i \in DOMAIN s |-> Code(s[i])])

-----------------------------------------------------------------------------
(* The first place from i on where a character of C stands, or past the end.*)
Scan(s, i, C) ==
  CHOOSE j \in i .. Len(s) + 1 :
    /\ j <= Len(s) => s[j] \in C
    /\ \A k \in i .. j - 1 : s[k] \notin C

(* A map with the pair <<key, value>>, in place of the one for that key.   *)
With(map, key, value) ==
  [k \in DOMAIN map \cup {key} |-> IF k = key THEN value ELSE map[k]]

(* Mutant: the map takes the last of several values.                       *)
SplitStringLast(s, delimiter) ==
  LET kv[i \in 1 .. Len(s) + 2] ==
        LET beg == Scan(s, i, Byte \ {Space})
            pdel == Scan(s, beg, {delimiter})
            equal == Scan(SubSeq(s, 1, pdel - 1), beg, {Equal})
            rest == kv[pdel + 1]
            key == SubSeq(s, beg, equal - 1)
        IN IF i > Len(s) \/ beg > Len(s) THEN <<>>
           ELSE IF equal = beg THEN rest
           ELSE IF key \in DOMAIN rest THEN rest
           ELSE With(rest, key, UriDecode(SubSeq(s, equal + 1, pdel - 1)))
  IN kv[1]

(* split_string: the pieces between delimiters, without the spaces they    *)
(* begin with, each cut at its first '='; none without a key is kept, and  *)
(* of several with one key only the first.                                 *)
SplitString(s, delimiter) ==
  LET kv[i \in 1 .. Len(s) + 2] ==
        LET beg == Scan(s, i, Byte \ {Space})
            pdel == Scan(s, beg, {delimiter})
            equal == Scan(SubSeq(s, 1, pdel - 1), beg, {Equal})
            rest == kv[pdel + 1]
            key == SubSeq(s, beg, equal - 1)
        IN IF i > Len(s) \/ beg > Len(s) THEN <<>>
           ELSE IF equal = beg THEN rest
           ELSE With(rest, key, UriDecode(SubSeq(s, equal + 1, pdel - 1)))
  IN kv[1]

(* request->param: tabs become spaces, in the request's own memory.        *)
Param(args) == SplitString(ReplaceAll(args, Tab, Space), Amp)

-----------------------------------------------------------------------------
(* A buffer of a request's body: how much of it, in memory or in a file.   *)
Buffer == [kind : {"memory", "file"}, size : Nat]

(* Mutant: the loop ends at the first buffer in a file.                    *)
GetPostBodyInMemory(bufs) ==
  FoldLeft(LAMBDA n, b : IF b.kind = "file" THEN n ELSE n + b.size, 0, bufs)

(* get_post_body: how much of the body the string gets.  A file's part is  *)
(* as long as the largest buffer the loop needed for one so far.           *)
GetPostBody(bufs) ==
  LET Larger(m, b) == IF b.kind = "file" /\ b.size > m THEN b.size ELSE m
      Add(acc, b) == LET room == Larger(acc.room, b)
                     IN [room |-> room,
                         size |-> acc.size + IF b.kind = "memory" \/ b.size = 0
                                             THEN b.size ELSE room]
  IN FoldLeft(Add, [room |-> 0, size |-> 0], bufs).size

(* Mutant: the status goes out as the plugin left it.                      *)
StatusAsIs(status, empty) == status

(* crequest_to_ngxr: a status the plugin left at 0 depends on the body.    *)
StatusOf(status, empty) ==
  IF status # 0 THEN status ELSE IF empty THEN 500 ELSE 200
=============================================================================
