------------------------------ MODULE Encoding ------------------------------
(***************************************************************************)
(* The byte strings the program builds: the associated data of secrets and *)
(* of cache files, the names of cache files, dotenv lines, values piped    *)
(* through "secrets get" and "secrets set", and what the log shows of a    *)
(* path segment.                                                           *)
(*                                                                         *)
(* The behaviours enumerate strings: two names grow a byte at a time, or a *)
(* value a character at a time; a value is then exported, a byte at a      *)
(* time, to a reader of dotenv files.                                      *)
(***************************************************************************)
EXTENDS Naturals, Sequences, SequencesExt

CONSTANTS NameBytes,   \* the bytes of names and of URLs
          MaxName,     \* bound on their length, below 2^32
          Hashes,      \* the hashes of tokens: 32 bytes each
          Moments,     \* the times of cache files, in seconds, below 2^64
          ValueChars,  \* the characters of values, each its bytes in UTF-8
          MaxValue,    \* bound: a value of as many bytes does not grow
          LogLimit     \* 64 in truncate_for_log

\* v >> 8, v >> 32 and v < 2^32.
Shr(v) == v \div 256
High(v) == Shr(Shr(Shr(Shr(v))))
Fits(v) == High(v) = 0

ASSUME EncodingAssumption ==
  /\ NameBytes \subseteq 0..255
  /\ MaxName \in Nat /\ Fits(MaxName)
  /\ \A g, h \in Hashes : g \in Seq(0..255) /\ Len(g) = Len(h)
  /\ \A t \in Moments : t \in Nat /\ Fits(High(t))
  /\ \A c \in ValueChars :
       /\ c \in Seq(0..255) /\ c # <<>>
       /\ \A i \in DOMAIN c : c[i] \in 128..191 <=> i > 1
  /\ MaxValue \in Nat /\ LogLimit \in Nat

VARIABLES kind,      \* "names"; "value", "export" and "exported"
          first,     \* a name, or the value
          second,    \* another name
          ends,      \* history: where the characters of the value end
          pos,       \* how much of the value was exported
          reader     \* the reader of the dotenv file

evars == <<kind, first, second, ends, pos, reader>>

NameStrings == BoundedSeq(NameBytes, MaxName)

-----------------------------------------------------------------------------
(***************************************************************************)
(* Associated data and file names                                          *)
(***************************************************************************)
\* The low 32 bits, the lowest byte first; and 64 bits.
u32_le(v) == <<v % 256, Shr(v) % 256, Shr(Shr(v)) % 256, Shr(Shr(Shr(v))) % 256>>
u64_le(v) == u32_le(v) \o u32_le(High(v))

\* Mutant: the parts are separated by a zero byte.
Prefixed_Separator(s) == s \o <<0>>

\* A string after its length, as u32.
Prefixed(s) == u32_le(Len(s)) \o s

aad_bytes(project, key) == Prefixed(project) \o Prefixed(key)

\* "\0meta" and "\0verifier", each with one character for its letters.
verifier_aad == aad_bytes(<<0, 1>>, <<0, 2>>)

\* CacheStore::aad, after its constant prefix.
cache_aad(url, hash, project, t) ==
  Prefixed(url) \o hash \o Prefixed(project) \o u64_le(t)

\* Mutant: nothing between the parts.
cache_path_Joined(url, hash, project) == url \o hash \o project

\* What CacheStore::cache_path hashes.
cache_path(url, hash, project) == url \o <<0>> \o hash \o <<0>> \o project

-----------------------------------------------------------------------------
(***************************************************************************)
(* Values                                                                  *)
(***************************************************************************)
LF == 10
CR == 13
Quote == 34
Backslash == 92

EndsIn(s, b) == s # <<>> /\ Last(s) = b

strip_newline(s) ==
  IF EndsIn(s, LF) /\ EndsIn(Front(s), CR) THEN Front(Front(s))
  ELSE IF EndsIn(s, LF) THEN Front(s)
  ELSE s

\* read_secret_value from a pipe: an empty value is refused (<<>>).
read_secret_value(input) == strip_newline(input)

\* "secrets get"
printed(value) == value \o <<LF>>

\* Letters, digits and _ - . / : @
Bare(b) == \/ b \in 48..58 \/ b \in 64..90 \/ b \in 97..122
           \/ b \in {95, 45, 46, 47}

safe(value) == value # <<>> /\ \A i \in DOMAIN value : Bare(value[i])

\* Mutant: backslashes are not escaped.
Escaped_NoBackslash(b) ==
  CASE b = Quote -> <<Backslash, Quote>>
    [] b = LF -> <<Backslash, 110>>
    [] b = CR -> <<Backslash, 114>>
    [] OTHER -> <<b>>

Escaped(b) == CASE b = Backslash -> <<Backslash, Backslash>>
                [] b = Quote -> <<Backslash, Quote>>
                [] b = LF -> <<Backslash, 110>>
                [] b = CR -> <<Backslash, 114>>
                [] OTHER -> <<b>>

\* A reader of dotenv files, which takes the value after a "KEY=", up to the end
\* of its line.
Reading == [mode |-> "start", value |-> <<>>]
Put(r, mode, b) == [mode |-> mode, value |-> Append(r.value, b)]
Mode(r, mode) == [mode |-> mode, value |-> r.value]
ReadByte(r, b) ==
  CASE r.mode = "start" /\ b = Quote -> Mode(r, "quoted")
    [] r.mode \in {"start", "bare", "closed"} /\ b = LF -> Mode(r, "done")
    [] r.mode = "quoted" /\ b = Quote -> Mode(r, "closed")
    [] r.mode = "quoted" /\ b = Backslash -> Mode(r, "escape")
    [] r.mode = "escape" -> Put(r, "quoted", CASE b = 110 -> LF
                                               [] b = 114 -> CR
                                               [] OTHER -> b)
    [] r.mode = "quoted" /\ b \notin {Quote, Backslash} -> Put(r, "quoted", b)
    [] r.mode = "start" /\ b \notin {Quote, LF} -> Put(r, "bare", b)
    [] r.mode = "bare" /\ b # LF -> Put(r, "bare", b)
    [] OTHER -> Mode(r, "malformed")
ReadOne(r, bytes) ==
  IF Len(bytes) = 1 THEN ReadByte(r, bytes[1])
                    ELSE ReadByte(ReadByte(r, bytes[1]), bytes[2])

-----------------------------------------------------------------------------
(***************************************************************************)
(* truncate_for_log                                                        *)
(***************************************************************************)
\* is_char_boundary(i): no continuation byte (10xxxxxx) follows.
Boundary(s, i) == i = Len(s) \/ s[i + 1] \notin 128..191

\* Mutant: cut at the limit, wherever that is.
truncate_for_log_Anywhere(s) ==
  SubSeq(s, 1, IF Len(s) < LogLimit THEN Len(s) ELSE LogLimit)

truncate_for_log(s) ==
  LET start == IF Len(s) < LogLimit THEN Len(s) ELSE LogLimit
      cuts == {i \in 0..start : Boundary(s, i)}
  IN  SubSeq(s, 1, CHOOSE i \in cuts : \A j \in cuts : j <= i)

-----------------------------------------------------------------------------
(***************************************************************************)
(* Behaviours                                                              *)
(***************************************************************************)
EInit == /\ kind \in {"names", "value"} /\ first = <<>> /\ second = <<>>
         /\ ends = {0} /\ pos = 0 /\ reader = Reading

GrowName ==
  /\ kind = "names"
  /\ \E b \in NameBytes :
       \/ Len(first) < MaxName /\ first' = Append(first, b) /\ UNCHANGED second
       \/ Len(second) < MaxName /\ second' = Append(second, b) /\ UNCHANGED first
  /\ UNCHANGED <<kind, ends, pos, reader>>

GrowValue ==
  /\ kind = "value" /\ Len(first) < MaxValue
  /\ \E c \in ValueChars : first' = first \o c
  /\ ends' = ends \cup {Len(first')}
  /\ UNCHANGED <<kind, second, pos, reader>>

\* dotenv_value decides, and opens the quotes that it needs.
Export ==
  /\ kind = "value" /\ kind' = "export"
  /\ reader' = IF safe(first) THEN reader ELSE ReadByte(reader, Quote)
  /\ UNCHANGED <<first, second, ends, pos>>

\* It pushes a byte; the bytes of a longer character are pushed as they are.
PushByte ==
  /\ kind = "export" /\ pos < Len(first) /\ pos' = pos + 1
  /\ reader' = LET b == first[pos + 1]
               IN  ReadOne(reader, IF safe(first) THEN <<b>> ELSE Escaped(b))
  /\ UNCHANGED <<kind, first, second, ends>>

\* It closes the quotes, and export ends the line.
PushEnd ==
  /\ kind = "export" /\ pos = Len(first) /\ kind' = "exported"
  /\ reader' = ReadByte(IF safe(first) THEN reader ELSE ReadByte(reader, Quote), LF)
  /\ UNCHANGED <<first, second, ends, pos>>

ENext == GrowName \/ GrowValue \/ Export \/ PushByte \/ PushEnd

ESpec == EInit /\ [][ENext]_evars

-----------------------------------------------------------------------------
(***************************************************************************)
(* Properties                                                              *)
(***************************************************************************)

NoZero(s) == \A i \in DOMAIN s : s[i] # 0

\* lib.rs: "distinct `(project, key)` pairs can never collide"; and the data of
\* no project's secret, whose name has no zero byte, is the verifier's.
AadUnique == kind = "names" =>
  /\ \A p, k \in NameStrings :
       aad_bytes(p, k) = aad_bytes(first, second) => p = first /\ k = second
  /\ NoZero(first) => aad_bytes(first, second) # verifier_aad

\* The cache file of one server, token, project and moment opens as no other's,
\* and no two of them share a path.  The path has no lengths: that it is unique
\* rests on a URL having no zero byte and on the hash's fixed length (cache.rs).
CacheNamesUnique == kind = "names" =>
  \A url, p \in NameStrings, g, h \in Hashes :
    /\ \A t, u \in Moments :
         cache_aad(url, h, p, t) = cache_aad(first, g, second, u) =>
           url = first /\ h = g /\ p = second /\ t = u
    /\ /\ NoZero(url) /\ NoZero(first)
       /\ cache_path(url, h, p) = cache_path(first, g, second)
       => url = first /\ h = g /\ p = second

\* Values come back as they were, whatever they hold (commands.rs): a dotenv
\* reader gets exactly the value that was exported, and is done with it where its
\* line ends and not before; what "secrets get" prints, piped into "secrets set",
\* is the value again, unless it is empty (refused) or ends in CR (taken for part
\* of the newline).
ValuesSurvive ==
  /\ kind = "exported" => reader = [mode |-> "done", value |-> first]
  /\ kind # "names" /\ first # <<>> /\ ~EndsIn(first, CR) =>
       read_secret_value(printed(first)) = first

\* The log gets whole characters, at most LogLimit bytes, and as many as fit.
LogShowsText == kind # "names" =>
  LET s == truncate_for_log(first)
  IN  /\ s = SubSeq(first, 1, Len(s))
      /\ Len(s) \in ends /\ Len(s) <= LogLimit
      /\ \A e \in ends : e <= LogLimit => e <= Len(s)
=============================================================================
