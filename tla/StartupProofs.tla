--------------------------- MODULE StartupProofs ---------------------------
(***************************************************************************)
(* Proofs about starting and rekeying the server (module Startup), for any *)
(* alphabet and any passphrases.                                           *)
(***************************************************************************)
EXTENDS Startup, SequenceTheorems, TLAPS

-----------------------------------------------------------------------------
(***************************************************************************)
(* Texts                                                                   *)
(***************************************************************************)
Chars == Letters \cup {LF, CR}
String == Seq(Chars)

\* A text that is not empty is its front and its last character.
LEMMA FrontLast ==
  ASSUME NEW s \in String, s # <<>>
  PROVE  /\ Front(s) \in String /\ Last(s) \in Chars /\ Len(s) \in Nat \ {0}
         /\ Len(Front(s)) = Len(s) - 1
         /\ \A i \in 1..(Len(s) - 1) : Front(s)[i] = s[i]
         /\ s = Front(s) \o <<Last(s)>>
<1>1. Len(s) \in Nat \ {0} BY EmptySeq DEF String
<1>2. \A i \in 1..Len(s) : s[i] \in Chars BY ElementOfSeq DEF String
<1>3. /\ SubSeq(s, 1, Len(s) - 1) \in Seq(Chars)
      /\ Len(SubSeq(s, 1, Len(s) - 1)) = Len(s) - 1
      /\ \A i \in 1..(Len(s) - 1) : SubSeq(s, 1, Len(s) - 1)[i] = s[i]
  <2>1. PICK n : n = Len(s) - 1 OBVIOUS
  <2>2. n \in Nat /\ \A i \in 1..n : s[i] \in Chars BY <1>1, <1>2, <2>1
  <2>3. /\ SubSeq(s, 1, n) \in Seq(Chars)
        /\ Len(SubSeq(s, 1, n)) = IF 1 <= n THEN n - 1 + 1 ELSE 0
        /\ \A i \in 1..(n - 1 + 1) : SubSeq(s, 1, n)[i] = s[1 + i - 1]
    BY <2>2, SubSeqProperties
  <2>4. n - 1 + 1 = n /\ (\A i \in 1..n : 1 + i - 1 = i)
    BY <2>2
  <2>5. Len(SubSeq(s, 1, n)) = n BY <2>2, <2>3
  <2>6. \A i \in 1..n : SubSeq(s, 1, n)[i] = s[i] BY <2>3, <2>4
  <2> QED BY <2>1, <2>3, <2>5, <2>6
<1>4. s = SubSeq(s, 1, Len(s) - 1) \o <<s[Len(s)]>>
  <2>1. 1 \in 1..Len(s) /\ Len(s) \in 1..Len(s) BY <1>1
  <2>2. SubSeq(s, 1, Len(s)) = SubSeq(s, 1, Len(s) - 1) \o <<s[Len(s)]>>
    BY <2>1, SubSeqRecursiveSecond DEF String
  <2>3. SubSeq(s, 1, Len(s)) = s BY SubSeqFull DEF String
  <2> QED BY <2>2, <2>3
<1>5. Last(s) \in Chars BY <1>1, <1>2 DEF Last
<1>6. Front(s) = SubSeq(s, 1, Len(s) - 1) /\ Last(s) = s[Len(s)]
  BY DEF Front, Last
<1> QED BY <1>1, <1>3, <1>4, <1>5, <1>6 DEF String

\* And a text with a character added has that text for its front.
LEMMA FrontOfAdded ==
  ASSUME NEW s \in String, NEW c \in Chars
  PROVE  /\ s \o <<c>> \in String /\ Len(s \o <<c>>) = Len(s) + 1
         /\ Last(s \o <<c>>) = c /\ Front(s \o <<c>>) = s
         /\ \A i \in 1..Len(s) : (s \o <<c>>)[i] = s[i]
<1>1. <<c>> \in Seq(Chars) /\ Len(<<c>>) = 1 /\ <<c>>[1] = c OBVIOUS
<1>2. Len(s) \in Nat BY LenProperties DEF String
<1>3. PICK t : t = s \o <<c>> OBVIOUS
<1>4. /\ t \in Seq(Chars) /\ Len(t) = Len(s) + 1
      /\ \A i \in 1..(Len(s) + 1) : t[i] = IF i <= Len(s) THEN s[i]
                                                        ELSE <<c>>[i - Len(s)]
  BY <1>1, <1>3, ConcatProperties DEF String
<1>5. t[Len(s) + 1] = c
  BY <1>1, <1>2, <1>4
<1>6. \A i \in 1..Len(s) : t[i] = s[i] BY <1>2, <1>4
<1>7. Front(t) = s
  <2>1. t # <<>> BY <1>2, <1>4, EmptySeq
  <2>2. /\ Front(t) \in String /\ Len(Front(t)) = Len(s)
        /\ \A i \in 1..Len(s) : Front(t)[i] = t[i]
    <3>1. Len(t) - 1 = Len(s) BY <1>2, <1>4
    <3>2. t \in String BY <1>4 DEF String
    <3> QED BY <2>1, <3>1, <3>2, FrontLast
  <2> QED BY <1>6, <2>2, SeqEqual DEF String
<1> QED BY <1>3, <1>4, <1>5, <1>6, <1>7 DEF Last, String

\* The same, of a text t that is s with c added.
Adds(t, s, c) == t = s \o <<c>>

\* What is so added.
LEMMA Adding ==
  ASSUME NEW s \in String, NEW c \in Chars, NEW t, Adds(t, s, c)
  PROVE  /\ t \in String /\ Len(t) = Len(s) + 1 /\ Last(t) = c /\ Front(t) = s
         /\ \A i \in 1..Len(s) : t[i] = s[i]
BY FrontOfAdded DEF Adds

\* CR LF is CR and then LF.
LEMMA CrLf ==
  ASSUME NEW s \in String
  PROVE  s \o <<CR, LF>> = (s \o <<CR>>) \o <<LF>>
<1>1. <<CR>> \in Seq(Chars) /\ <<LF>> \in Seq(Chars) /\ <<CR, LF>> \in Seq(Chars)
  BY DEF Chars
<1>2. <<CR>> \o <<LF>> = <<CR, LF>>
  <2>1. PICK t : t = <<CR>> \o <<LF>> OBVIOUS
  <2>2. /\ Len(<<CR>>) = 1 /\ Len(<<LF>>) = 1 /\ Len(<<CR, LF>>) = 2
        /\ <<CR>>[1] = CR /\ <<LF>>[1] = LF
        /\ <<CR, LF>>[1] = CR /\ <<CR, LF>>[2] = LF
    OBVIOUS
  <2>3. /\ t \in Seq(Chars) /\ Len(t) = 2
        /\ \A i \in 1..2 : t[i] = IF i <= 1 THEN <<CR>>[i] ELSE <<LF>>[i - 1]
    <3>1. PICK a, b : a = <<CR>> /\ b = <<LF>> OBVIOUS
    <3>2. /\ a \in Seq(Chars) /\ b \in Seq(Chars) /\ t = a \o b
          /\ Len(a) = 1 /\ Len(b) = 1
      BY <1>1, <2>1, <2>2, <3>1
    <3>3. /\ a \o b \in Seq(Chars) /\ Len(a \o b) = Len(a) + Len(b)
          /\ \A i \in 1..(Len(a) + Len(b)) : (a \o b)[i] =
               IF i <= Len(a) THEN a[i] ELSE b[i - Len(a)]
      BY <3>2, ConcatProperties
    <3>4. /\ t \in Seq(Chars) /\ Len(t) = 2
          /\ \A i \in 1..2 : t[i] = IF i <= 1 THEN a[i] ELSE b[i - 1]
      BY <3>2, <3>3
    <3> QED BY <3>1, <3>4
  <2>4. t[1] = CR /\ t[2] = LF BY <2>2, <2>3
  <2>5. \A i \in 1..2 : t[i] = <<CR, LF>>[i] BY <2>2, <2>4
  <2>6. t = <<CR, LF>> BY <1>1, <2>2, <2>3, <2>5, SeqEqual
  <2> QED BY <2>1, <2>6
<1> QED BY <1>1, <1>2, ConcatAssociative DEF String

\* strip_single_trailing_newline drops a newline, LF or CR LF, and nothing else.
LEMMA StripOnlyNewline ==
  ASSUME NEW s \in String
  PROVE  Holds(s, strip_single_trailing_newline(s))
<1> DEFINE crlf == Len(s) >= 2 /\ Last(s) = LF /\ s[Len(s) - 1] = CR
           lf == s # <<>> /\ Last(s) = LF
<1>1. CASE crlf
  <2>1. strip_single_trailing_newline(s) = Front(Front(s))
    BY <1>1 DEF strip_single_trailing_newline
  <2>2. s # <<>> BY <1>1, EmptySeq
  <2>3. /\ Front(s) \in String /\ Len(Front(s)) = Len(s) - 1
        /\ \A i \in 1..(Len(s) - 1) : Front(s)[i] = s[i]
        /\ s = Front(s) \o <<LF>> /\ Len(s) \in Nat
    BY <1>1, <2>2, FrontLast
  <2>4. Front(s) # <<>> /\ Last(Front(s)) = CR
    <3>1. Len(Front(s)) # 0 /\ Len(s) - 1 \in 1..(Len(s) - 1) BY <1>1, <2>3
    <3> QED BY <1>1, <2>3, <3>1, EmptySeq DEF Last
  <2>5. Front(Front(s)) \in String /\ Front(s) = Front(Front(s)) \o <<CR>>
    BY <2>3, <2>4, FrontLast
  <2>6. s = Front(Front(s)) \o <<CR, LF>> BY <2>3, <2>5, CrLf
  <2> QED BY <2>1, <2>6 DEF Holds
<1>2. CASE ~crlf /\ lf
  <2>1. strip_single_trailing_newline(s) = Front(s)
    BY <1>2 DEF strip_single_trailing_newline
  <2>2. s = Front(s) \o <<LF>> BY <1>2, FrontLast
  <2> QED BY <2>1, <2>2 DEF Holds
<1>3. CASE ~crlf /\ ~lf
  <2>1. strip_single_trailing_newline(s) = s
    BY <1>3 DEF strip_single_trailing_newline
  <2> QED BY <2>1 DEF Holds
<1> QED BY <1>1, <1>2, <1>3

\* And it finds a word of any length, whichever way its line ends.
LEMMA StripFindsWord ==
  ASSUME NEW w \in String, w # <<>>, Last(w) \notin {LF, CR}, NEW s, Holds(s, w)
  PROVE  strip_single_trailing_newline(s) = w
<1>1. LF \in Chars /\ CR \in Chars BY DEF Chars
<1>2. Len(w) \in Nat \ {0} /\ Len(w) \in 1..Len(w) /\ w[Len(w)] \notin {LF, CR}
  BY FrontLast DEF Last
<1>3. CASE s = w
  BY <1>3 DEF strip_single_trailing_newline
<1>4. CASE s = w \o <<LF>>
  <2>1. Adds(s, w, LF) BY <1>4 DEF Adds
  <2>2. /\ Len(s) = Len(w) + 1 /\ Last(s) = LF /\ Front(s) = w
        /\ \A i \in 1..Len(w) : s[i] = w[i]
    BY <1>1, <2>1, Adding
  <2>3. Len(s) - 1 = Len(w) /\ Len(s) # 0 BY <1>2, <2>2
  <2>4. s[Len(s) - 1] # CR BY <1>2, <2>2, <2>3
  <2>5. s # <<>> BY <2>3, EmptySeq
  <2> QED BY <2>2, <2>4, <2>5 DEF strip_single_trailing_newline
<1>5. CASE s = w \o <<CR, LF>>
  <2>1. PICK t : t = w \o <<CR>> OBVIOUS
  <2>2. Adds(t, w, CR) BY <2>1 DEF Adds
  <2>3. t \in String /\ Len(t) = Len(w) + 1 /\ Last(t) = CR /\ Front(t) = w
    BY <1>1, <2>2, Adding
  <2>4. Adds(s, t, LF) BY <1>5, <2>1, CrLf DEF Adds
  <2>5. /\ Len(s) = Len(t) + 1 /\ Last(s) = LF /\ Front(s) = t
        /\ \A i \in 1..Len(t) : s[i] = t[i]
    BY <1>1, <2>3, <2>4, Adding
  <2>6. Len(s) >= 2 /\ Len(s) - 1 = Len(t) /\ Len(t) \in 1..Len(t)
    BY <1>2, <2>3, <2>5
  <2>7. s[Len(s) - 1] = CR BY <2>3, <2>5, <2>6 DEF Last
  <2> QED BY <2>3, <2>5, <2>6, <2>7 DEF strip_single_trailing_newline
<1> QED BY <1>3, <1>4, <1>5 DEF Holds

-----------------------------------------------------------------------------
(***************************************************************************)
(* Where the passphrase comes from                                         *)
(***************************************************************************)

\* The texts of the files and variables are strings.
LEMMA TextsAreStrings ==
  /\ Words \subseteq String /\ Lines \subseteq String /\ TwoNewlines \subseteq String
  /\ <<>> \in String /\ <<LF>> \in String
  /\ Lines \subseteq Texts /\ Words \subseteq Lines
<1>1. LF \in Chars /\ CR \in Chars BY DEF Chars
<1>2. Words \subseteq String BY StartupAssumption DEF String, Chars
<1>3. ASSUME NEW w \in Words
      PROVE  /\ w \o <<LF>> \in String /\ w \o <<CR, LF>> \in String
             /\ (w \o <<LF>>) \o <<LF>> \in String
  <2>1. w \in String BY <1>2
  <2>2. w \o <<CR>> \in String /\ w \o <<LF>> \in String
    BY <1>1, <2>1, FrontOfAdded
  <2>3. /\ (w \o <<CR>>) \o <<LF>> \in String
        /\ (w \o <<LF>>) \o <<LF>> \in String
    BY <1>1, <2>2, FrontOfAdded
  <2> QED BY <2>1, <2>2, <2>3, CrLf
<1>4. <<>> \in String /\ <<LF>> \in String BY <1>1 DEF String
<1> QED BY <1>2, <1>3, <1>4 DEF Lines, TwoNewlines, Texts

\* The surroundings of a command, as far as the proofs need to know.
EnvOK(e) ==
  /\ e.file \in String \cup {Unset, Refused}
  /\ e.cred \in String \cup {Unset, Refused}

\* They are so for every command.
LEMMA EnvTypes == \A e \in Envs : EnvOK(e)
<1>1. ASSUME NEW e \in ServeEnvs PROVE EnvOK(e)
  BY TextsAreStrings DEF ServeEnvs, EnvOK, Lines
<1>2. ASSUME NEW e \in RekeyEnvs PROVE EnvOK(e)
  BY TextsAreStrings DEF RekeyEnvs, EnvOK, Lines
<1> QED BY <1>1, <1>2 DEF Envs

\* The passphrase that is taken is the one the first source that is set holds.
LEMMA TakenIsSaid ==
  ASSUME NEW e, EnvOK(e), NEW pw, acquire_passphrase(e) = <<pw>>
  PROVE  /\ \/ e.var \notin {Unset, Garbled} /\ e.var = pw
            \/ e.var \in {Unset, Garbled} /\ Holds(e.file, pw)
            \/ e.var \in {Unset, Garbled} /\ e.file = Unset /\ Holds(e.cred, pw)
            \/ e.var \in {Unset, Garbled} /\ e.file = Unset /\ e.cred = Unset
                 /\ e.tty = pw
         /\ pw # <<>>
<1>1. ASSUME NEW t, NotEmpty(t) = <<pw>> PROVE t = pw /\ t # <<>>
  BY <1>1 DEF NotEmpty, Fail
<1>2. ASSUME NEW s \in String \cup {Unset, Refused}, s # Unset,
             read_passphrase_file(s) = <<pw>>
      PROVE  Holds(s, pw) /\ pw # <<>>
  <2>1. s # Refused BY <1>2 DEF read_passphrase_file, Fail
  <2>2. strip_single_trailing_newline(s) = pw /\ pw # <<>>
    BY <1>1, <1>2, <2>1 DEF read_passphrase_file
  <2> QED BY <1>2, <2>1, <2>2, StripOnlyNewline
<1>3. CASE e.var \notin {Unset, Garbled}
  BY <1>1, <1>3 DEF acquire_passphrase
<1>4. CASE e.var \in {Unset, Garbled} /\ e.file # Unset
  BY <1>2, <1>4 DEF acquire_passphrase, EnvOK
<1>5. CASE e.var \in {Unset, Garbled} /\ e.file = Unset /\ e.cred # Unset
  BY <1>2, <1>5 DEF acquire_passphrase, EnvOK
<1>6. CASE e.var \in {Unset, Garbled} /\ e.file = Unset /\ e.cred = Unset
  BY <1>1, <1>6 DEF acquire_passphrase, Fail
<1> QED BY <1>3, <1>4, <1>5, <1>6

\* A word that the surroundings say is taken.
LEMMA SaidIsTaken ==
  ASSUME NEW e, NEW w \in Words, Says(e, w)
  PROVE  acquire_passphrase(e) = <<w>>
<1>1. /\ w \in String /\ w # <<>> /\ Last(w) \notin {LF, CR}
      /\ w \notin {Unset, Garbled, None, Refused}
  BY TextsAreStrings, StartupAssumption
<1>2. NotEmpty(w) = <<w>> BY <1>1 DEF NotEmpty
<1>3. ASSUME NEW s, Holds(s, w)
      PROVE  s \notin {Unset, Refused} /\ read_passphrase_file(s) = <<w>>
  <2>1. s \in Texts BY <1>3 DEF Holds, Texts, Lines
  <2>2. s \notin {Unset, Refused} BY <2>1, StartupAssumption
  <2>3. strip_single_trailing_newline(s) = w BY <1>1, <1>3, StripFindsWord
  <2> QED BY <1>2, <2>2, <2>3 DEF read_passphrase_file
<1> QED BY <1>1, <1>2, <1>3 DEF Says, acquire_passphrase

-----------------------------------------------------------------------------
(***************************************************************************)
(* The invariant                                                           *)
(***************************************************************************)
Bounded(params) == \A i \in 1..3 : InBounds(i, params[i][1])

\* The metadata is a record; unless somebody else changed it, the parameters it
\* names are known ones and those the key was derived with.
MetaOK(m) ==
  /\ \E pw, with, params, damaged :
       m = [pw |-> pw, with |-> with, params |-> params, damaged |-> damaged]
  /\ ~m.damaged => m.params \in Known /\ m.params = m.with

Inv == /\ meta # None => MetaOK(meta)
       /\ env # None => env \in Envs /\ EnvOK(env)
       /\ CostBounded

\* The known parameters are within the bounds.
LEMMA KnownUsable == \A k \in Known : Usable(k)
<1>1. Usable(STRONG)
  BY DEF STRONG, Usable, validate_kdf_params, InBounds, KdfMin, KdfMax
<1>2. Usable(BASELINE)
  BY DEF BASELINE, Usable, validate_kdf_params, InBounds, KdfMin, KdfMax
<1> QED BY <1>1, <1>2 DEF Known

\* Whatever the stored parameters are, a key is derived only within the bounds.
LEMMA DerivedBounded ==
  ASSUME NEW m
  PROVE  \A params \in Derived(m) \cup {STRONG} : Bounded(params)
<1>1. \A params : Usable(params) => Bounded(params)
  BY DEF Usable, validate_kdf_params, Bounded
<1>2. Usable(STRONG) BY KnownUsable DEF Known
<1> QED BY <1>1, <1>2 DEF Derived

\* The metadata that the program writes is in order.
LEMMA MetaForOK == \A pw : MetaOK(MetaFor(pw))
<1> SUFFICES ASSUME NEW pw PROVE MetaOK(MetaFor(pw)) OBVIOUS
<1>1. MetaFor(pw).damaged = FALSE /\ MetaFor(pw).params = STRONG
      /\ MetaFor(pw).with = STRONG
  BY DEF MetaFor
<1>2. STRONG \in Known BY DEF Known
<1>3. \E p, with, params, damaged :
        MetaFor(pw) = [pw |-> p, with |-> with, params |-> params,
                       damaged |-> damaged]
  BY DEF MetaFor
<1> QED BY <1>1, <1>2, <1>3 DEF MetaOK

\* The first state: no database, or one that an earlier version made.
LEMMA InitInv == Init => Inv
<1> SUFFICES ASSUME Init PROVE Inv OBVIOUS
<1>1. CostBounded BY DEF Init, CostBounded, NoCommand
<1>2. ASSUME meta # None PROVE MetaOK(meta)
  <2>1. PICK w : meta = [MetaFor(w) EXCEPT !.with = BASELINE, !.params = BASELINE]
    BY <1>2 DEF Init
  <2>2. /\ meta.damaged = FALSE /\ meta.params = BASELINE /\ meta.with = BASELINE
    BY <2>1 DEF MetaFor
  <2>3. \E p, with, params, damaged :
          meta = [pw |-> p, with |-> with, params |-> params, damaged |-> damaged]
    BY <2>1 DEF MetaFor
  <2>4. BASELINE \in Known BY DEF Known
  <2> QED BY <2>2, <2>3, <2>4 DEF MetaOK
<1>3. env = None BY DEF Init
<1> QED BY <1>1, <1>2, <1>3 DEF Inv

\* A command that ends with keys derived within the bounds.
LEMMA EndInv ==
  ASSUME NEW cmd, NEW ok, NEW derived, End(cmd, ok, derived),
         \A params \in derived : Bounded(params),
         meta' # None => MetaOK(meta')
  PROVE  Inv'
<1>1. last'.derived = derived /\ env' = None BY DEF End
<1>2. CostBounded' BY <1>1 DEF CostBounded, Bounded
<1> QED BY <1>1, <1>2 DEF Inv

\* How serve ends: it fails, makes the first key, or tells whether the
\* passphrase it was given is the one of the database.
LEMMA ServeEnds ==
  ASSUME Serve
  PROVE  /\ env # None
         /\ \/ End("serve", FALSE, {}) /\ meta' = meta
            \/ /\ meta = None
               /\ \E pw, ok : /\ acquire_passphrase(env) = <<pw>>
                              /\ meta' = MetaFor(pw) /\ End("serve", ok, {STRONG})
            \/ /\ meta # None /\ meta' = meta
               /\ \E pw, ok : /\ acquire_passphrase(env) = <<pw>>
                              /\ ok = (env.fails = "nothing" /\ Verifies(meta, pw))
                              /\ End("serve", ok, Derived(meta))
<1>1. ASSUME acquire_passphrase(env) # Fail
      PROVE  acquire_passphrase(env) = <<acquire_passphrase(env)[1]>>
  BY <1>1 DEF acquire_passphrase, read_passphrase_file, NotEmpty, Fail
<1>2. PICK got : got = acquire_passphrase(env) OBVIOUS
<1>3. env # None BY DEF Serve
<1>4. CASE env.fails = "early" \/ got = Fail BY <1>2, <1>3, <1>4 DEF Serve
<1>5. CASE ~(env.fails = "early" \/ got = Fail) /\ meta = None
  <2>1. PICK pw : got = <<pw>> /\ pw = got[1] BY <1>1, <1>2, <1>5
  <2>2. meta' = MetaFor(got[1]) /\ End("serve", env.fails = "nothing", {STRONG})
    BY <1>2, <1>5 DEF Serve
  <2> QED BY <1>2, <1>3, <1>5, <2>1, <2>2
<1>6. CASE ~(env.fails = "early" \/ got = Fail) /\ meta # None
  <2>1. PICK pw : got = <<pw>> /\ pw = got[1] BY <1>1, <1>2, <1>6
  <2>2. /\ meta' = meta
        /\ End("serve", env.fails = "nothing" /\ Verifies(meta, got[1]),
               Derived(meta))
    BY <1>2, <1>6 DEF Serve
  <2> QED BY <1>2, <1>3, <1>6, <2>1, <2>2
<1> QED BY <1>4, <1>5, <1>6

\* How rekey ends: it fails and changes nothing, or it was given the passphrase
\* of the database and another one.
LEMMA RekeyEnds ==
  ASSUME Rekey
  PROVE  /\ env # None
         /\ \/ \E derived \in {{}, Derived(meta)} :
                 End("rekey", FALSE, derived) /\ meta' = meta
            \/ /\ meta # None
               /\ \E pw, new : /\ acquire_passphrase(env) = <<pw>> /\ pw # new
                               /\ Verifies(meta, pw) /\ meta' = MetaFor(new)
                               /\ End("rekey", TRUE, Derived(meta) \cup {STRONG})
<1>1. ASSUME acquire_passphrase(env) # Fail
      PROVE  acquire_passphrase(env) = <<acquire_passphrase(env)[1]>>
  BY <1>1 DEF acquire_passphrase, read_passphrase_file, NotEmpty, Fail
<1>2. ASSUME NEW cur, acquire_new_passphrase(env, cur) # Fail
      PROVE  /\ acquire_new_passphrase(env, cur) # cur
             /\ acquire_new_passphrase(env, cur) =
                  <<acquire_new_passphrase(env, cur)[1]>>
  BY <1>2 DEF acquire_new_passphrase, NotEmpty, Fail
<1>3. PICK got : got = acquire_passphrase(env) OBVIOUS
<1>4. PICK new : new = IF got = Fail THEN Fail ELSE acquire_new_passphrase(env, got)
  OBVIOUS
<1>5. env # None BY DEF Rekey
<1>6. CASE env.fails = "early" \/ new = Fail \/ meta = None
  BY <1>3, <1>4, <1>5, <1>6 DEF Rekey
<1>7. CASE ~(env.fails = "early" \/ new = Fail \/ meta = None)
  <2>1. got # Fail /\ new = acquire_new_passphrase(env, got) BY <1>4, <1>7
  <2>2. PICK pw : got = <<pw>> /\ pw = got[1] BY <1>1, <1>3, <2>1
  <2>3. PICK n : new = <<n>> /\ n = new[1] /\ new # got BY <1>2, <1>7, <2>1
  <2>4. pw # n BY <2>2, <2>3
  <2>5. CASE Verifies(meta, got[1])
    <3>1. /\ meta' = MetaFor(new[1])
          /\ End("rekey", TRUE, Derived(meta) \cup {STRONG})
      BY <1>3, <1>4, <1>7, <2>5 DEF Rekey
    <3> QED BY <1>3, <1>5, <1>7, <2>2, <2>3, <2>4, <2>5, <3>1
  <2>6. CASE ~Verifies(meta, got[1])
    <3>1. End("rekey", FALSE, Derived(meta)) /\ meta' = meta
      BY <1>3, <1>4, <1>7, <2>6 DEF Rekey
    <3> QED BY <1>5, <3>1
  <2> QED BY <2>5, <2>6
<1> QED BY <1>6, <1>7

\* Every step preserves the invariant.
LEMMA NextInv == Inv /\ [Next]_vars => Inv'
<1> SUFFICES ASSUME Inv, [Next]_vars PROVE Inv' OBVIOUS
<1>1. ASSUME Configure PROVE Inv'
  BY <1>1, EnvTypes DEF Configure, Inv, CostBounded
<1>2. ASSUME Serve PROVE Inv'
  <2>1. meta' # None => MetaOK(meta') BY <1>2, ServeEnds, MetaForOK DEF Inv
  <2>2. \E ok, derived : /\ End("serve", ok, derived)
                         /\ derived \in {{}, {STRONG}, Derived(meta)}
    BY <1>2, ServeEnds
  <2> QED BY <2>1, <2>2, EndInv, DerivedBounded
<1>3. ASSUME Rekey PROVE Inv'
  <2>1. meta' # None => MetaOK(meta') BY <1>3, RekeyEnds, MetaForOK DEF Inv
  <2>2. \E ok, derived : /\ End("rekey", ok, derived)
                         /\ derived \in {{}, Derived(meta),
                                         Derived(meta) \cup {STRONG}}
    BY <1>3, RekeyEnds
  <2> QED BY <2>1, <2>2, EndInv, DerivedBounded
<1>4. ASSUME NEW i, NEW v, Tamper(i, v) PROVE Inv'
  <2>1. PICK pw, with, params, damaged :
          meta = [pw |-> pw, with |-> with, params |-> params, damaged |-> damaged]
    BY <1>4 DEF Tamper, Inv, MetaOK
  <2>2. meta' = [meta EXCEPT !.params[i] = v, !.damaged = TRUE] /\ env' = env
        /\ last' = NoCommand
    BY <1>4 DEF Tamper
  <2>3. meta'.damaged = TRUE BY <2>1, <2>2
  <2>4. \E p, w, q, d : meta' = [pw |-> p, with |-> w, params |-> q, damaged |-> d]
    BY <2>1, <2>2
  <2>5. MetaOK(meta') BY <2>3, <2>4 DEF MetaOK
  <2>6. CostBounded' BY <2>2 DEF CostBounded, NoCommand
  <2> QED BY <2>2, <2>5, <2>6 DEF Inv
<1>5. CASE UNCHANGED vars BY <1>5 DEF vars, Inv, CostBounded
<1> QED BY <1>1, <1>2, <1>3, <1>4, <1>5 DEF Next

-----------------------------------------------------------------------------
(***************************************************************************)
(* The theorems                                                            *)
(***************************************************************************)

\* The invariant holds in every reachable state.
THEOREM Invariance == Spec => []Inv
<1>1. Init => Inv BY InitInv
<1>2. Inv /\ [Next]_vars => Inv' BY NextInv
<1> QED BY <1>1, <1>2, PTL DEF Spec

\* However table meta was damaged, no key is derived at a cost outside the
\* bounds (crypto_state.rs, validate_kdf_params).
THEOREM CostStaysBounded == Spec => []CostBounded
<1>1. Inv => CostBounded BY DEF Inv
<1> QED BY <1>1, Invariance, PTL

\* A command that has ended was serve or rekey.
LEMMA CommandEnds ==
  ASSUME [Next]_vars, env # None, env' = None
  PROVE  Serve \/ Rekey
BY DEF Next, Configure, Tamper, vars

\* Whether a command succeeded is what it ended with.
LEMMA EndOk ==
  ASSUME NEW cmd, NEW ok, NEW derived, End(cmd, ok, derived)
  PROVE  last'.ok = ok
BY DEF End

\* A rekey that succeeded was given the old passphrase, and wrote another.
LEMMA RekeyedRenews ==
  ASSUME [Next]_vars, Rekeyed, last'.ok
  PROVE  meta'.pw # meta.pw /\ meta'.params = STRONG
<1>1. Rekey
  <2>1. Serve \/ Rekey BY CommandEnds DEF Rekeyed
  <2>2. Serve => last'.cmd = "serve" BY ServeEnds DEF End
  <2> QED BY <2>1, <2>2 DEF Rekeyed
<1>2. PICK pw, new : pw # new /\ Verifies(meta, pw) /\ meta' = MetaFor(new)
  <2>1. ASSUME NEW derived PROVE ~End("rekey", FALSE, derived) BY DEF End
  <2> QED BY <1>1, <2>1, RekeyEnds
<1> QED BY <1>2 DEF Verifies, MetaFor

\* A rekey leaves a database that needs another passphrase and has the current
\* KDF parameters, whatever it was made with (crypto_state.rs, rekey).
THEOREM RekeyAlwaysRenews == Spec => RekeyRenews
<1>1. [Next]_vars =>
        [Rekeyed /\ last'.ok => meta'.pw # meta.pw /\ meta'.params = STRONG]_vars
  BY RekeyedRenews
<1> QED BY <1>1, PTL DEF Spec, RekeyRenews

\* What a command takes for its passphrase is what the first source that is set
\* holds, and it is not empty.
LEMMA TakenIsHeard ==
  ASSUME Inv, env # None, NEW pw, acquire_passphrase(env) = <<pw>>
  PROVE  Says(Heard(env), pw) /\ pw # <<>>
<1>1. EnvOK(env) /\ env \in Envs BY DEF Inv
<1>2. /\ Heard(env).file = env.file /\ Heard(env).cred = env.cred
      /\ Heard(env).tty = env.tty
      /\ env.var \in {Unset, Garbled} => Heard(env).var = Unset
      /\ env.var \notin {Unset, Garbled} => Heard(env).var = env.var
  BY <1>1 DEF Heard, Envs, ServeEnvs, RekeyEnvs
<1> QED BY <1>1, <1>2, TakenIsSaid DEF Says

\* A first start initializes with the passphrase it took; a rekey does not
\* initialize.
LEMMA FirstStart ==
  ASSUME Inv, [Next]_vars, meta = None, meta' # None, Served \/ Rekeyed
  PROVE  Served /\ meta'.pw # <<>> /\ Says(Heard(env), meta'.pw)
<1>1. Serve
  <2>1. Serve \/ Rekey BY CommandEnds DEF Served, Rekeyed
  <2>2. ~Rekey BY RekeyEnds
  <2> QED BY <2>1, <2>2
<1>2. PICK pw : acquire_passphrase(env) = <<pw>> /\ meta' = MetaFor(pw)
  BY <1>1, ServeEnds
<1>3. last'.cmd = "serve" BY <1>1, ServeEnds DEF End
<1>4. meta'.pw = pw BY <1>2 DEF MetaFor
<1> QED BY <1>2, <1>3, <1>4, TakenIsHeard DEF Served, Rekeyed

\* A command on an existing database succeeds only with its passphrase, and
\* changes the metadata only as a rekey that succeeds.
LEMMA PassphraseNeeded ==
  ASSUME Inv, [Next]_vars, meta # None, Served \/ Rekeyed
  PROVE  /\ last'.ok => Says(Heard(env), meta.pw)
         /\ meta' # meta => Rekeyed /\ last'.ok
<1>1. Serve \/ Rekey BY CommandEnds DEF Served, Rekeyed
<1>2. ASSUME NEW pw, acquire_passphrase(env) = <<pw>>, Verifies(meta, pw)
      PROVE  Says(Heard(env), meta.pw)
  <2>1. meta.pw = pw BY <1>2 DEF Verifies
  <2>2. env # None BY DEF Served, Rekeyed
  <2> QED BY <1>2, <2>1, <2>2, TakenIsHeard
<1>3. CASE Serve
  <2>1. meta' = meta BY <1>3, ServeEnds
  <2>2. ASSUME last'.ok
        PROVE  \E pw : acquire_passphrase(env) = <<pw>> /\ Verifies(meta, pw)
    <3>1. PICK pw, ok : /\ acquire_passphrase(env) = <<pw>>
                        /\ ok = (env.fails = "nothing" /\ Verifies(meta, pw))
                        /\ End("serve", ok, Derived(meta))
      BY <1>3, <2>2, ServeEnds, EndOk
    <3>2. ok BY <2>2, <3>1, EndOk
    <3>3. Verifies(meta, pw) BY <3>1, <3>2
    <3> QED BY <3>1, <3>3
  <2> QED BY <1>2, <2>1, <2>2
<1>4. CASE Rekey
  <2>1. CASE \E derived : End("rekey", FALSE, derived) /\ meta' = meta
    BY <2>1 DEF End
  <2>2. CASE \E pw, new, derived : /\ acquire_passphrase(env) = <<pw>>
                                   /\ Verifies(meta, pw)
                                   /\ End("rekey", TRUE, derived)
    BY <1>2, <1>4, <2>2, RekeyEnds DEF End, Rekeyed
  <2> QED BY <1>4, <2>1, <2>2, RekeyEnds
<1> QED BY <1>1, <1>3, <1>4

\* Whoever does not give the passphrase of the database, by the first source
\* that is set, neither starts nor rekeys it; and the first start makes the
\* passphrase that source gives the database's (config.rs, crypto_state.rs).
THEOREM PassphraseRequired == Spec => OnlyItsPassphrase
<1>1. Inv /\ [Next]_vars =>
        [Served \/ Rekeyed =>
           IF meta = None
             THEN meta' # None => /\ Served
                                  /\ meta'.pw # <<>> /\ Says(Heard(env), meta'.pw)
             ELSE /\ last'.ok => Says(Heard(env), meta.pw)
                  /\ meta' # meta => Rekeyed /\ last'.ok]_vars
  BY FirstStart, PassphraseNeeded
<1> QED BY <1>1, Invariance, PTL DEF Spec, OnlyItsPassphrase

\* Metadata that nobody else touched verifies with its passphrase.
LEMMA PassphraseAccepted ==
  ASSUME Inv, [Next]_vars, NEW w \in Words, Served, env.fails = "nothing",
         meta # None, meta.pw = w, ~meta.damaged, Says(env, w)
  PROVE  last'.ok
<1>1. Serve
  <2>1. Serve \/ Rekey BY CommandEnds DEF Served
  <2>2. Rekey => last'.cmd = "rekey" BY RekeyEnds DEF End
  <2> QED BY <2>1, <2>2 DEF Served
<1>2. acquire_passphrase(env) = <<w>> BY SaidIsTaken
<1>3. Verifies(meta, w) BY KnownUsable DEF Inv, MetaOK, Verifies
<1>4. PICK got : got = acquire_passphrase(env) /\ got = <<w>> BY <1>2
<1>5. got # Fail /\ got[1] = w BY <1>4 DEF Fail
<1>6. End("serve", env.fails = "nothing" /\ Verifies(meta, got[1]), Derived(meta))
  BY <1>1, <1>4, <1>5 DEF Serve
<1>7. last'.ok = (env.fails = "nothing" /\ Verifies(meta, got[1]))
  BY <1>6, EndOk
<1> QED BY <1>3, <1>5, <1>7

\* The passphrase of the database starts the server again, from whichever source
\* and with or without a newline after it, whatever commands were run since
\* (config.rs, crypto_state.rs).
THEOREM PassphraseStarts == Spec => SamePassphraseStarts
<1>1. Inv /\ [Next]_vars =>
        [\A w \in Words :
           /\ Served /\ env.fails = "nothing"
           /\ meta # None /\ meta.pw = w /\ ~meta.damaged
           /\ Says(env, w)
           => last'.ok]_vars
  BY PassphraseAccepted
<1> QED BY <1>1, Invariance, PTL DEF Spec, SamePassphraseStarts
=============================================================================
