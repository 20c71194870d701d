------------------------------ MODULE Startup ------------------------------
(***************************************************************************)
(* Starting the server and rekeying it, one command after the other: where *)
(* the master passphrase comes from (config.rs), what the stored KDF       *)
(* metadata must look like before a key is derived (crypto_state.rs) and   *)
(* which commands the operator's next one can follow.  What happens when   *)
(* commands overlap is in module Vault, how files are opened in            *)
(* PrivateFile.                                                            *)
(*                                                                         *)
(* A text is a sequence of characters; LF and CR are the ones that matter. *)
(***************************************************************************)
EXTENDS Naturals, Sequences, FiniteSets, SequencesExt

CONSTANTS Letters,    \* characters other than LF and CR
          Words,      \* passphrases that operators choose
          None,
          Unset,      \* a source that is not there
          Refused,    \* a file that cannot be used: no name, open or checks fail
          Garbled     \* an environment variable that is not UTF-8

VARIABLES
  meta,    \* what the database has of the master key, or None
  env,     \* the surroundings of the command to run next, or None
  last     \* how the last command ended

vars == <<meta, env, last>>

LF == "LF"
CR == "CR"
Lines == Words \cup {w \o <<LF>> : w \in Words} \cup {w \o <<CR, LF>> : w \in Words}
TwoNewlines == {(w \o <<LF>>) \o <<LF>> : w \in Words}
Texts == Lines \cup TwoNewlines \cup {<<>>, <<LF>>}

\* A passphrase is a text of any length that does not end in a newline.
ASSUME StartupAssumption ==
  /\ LF \notin Letters /\ CR \notin Letters
  /\ \A w \in Words : /\ w \in Seq(Letters \cup {LF, CR}) /\ w # <<>>
                      /\ Last(w) \notin {LF, CR}
  /\ Texts \cap {None, Unset, Refused, Garbled} = {}

\* var, file, cred: SECRETS_PASSPHRASE, the file SECRETS_PASSPHRASE_FILE names,
\* the systemd credential; tty: what is entered at the prompt, if there is one.
\* newvar, newtty: the same for the new passphrase, which is entered twice.
\* fails: what else goes wrong, before the passphrase is needed or after the
\* key is there (the audit log, the socket).
ServeEnvs ==
  [cmd : {"serve"},
   var : Words \cup {w \o <<LF>> : w \in Words} \cup {<<>>, Unset, Garbled},
   file : Lines \cup TwoNewlines \cup {<<>>, <<LF>>, Unset, Refused},
   cred : {w \o <<LF>> : w \in Words} \cup {<<>>, Unset, Refused},
   tty : Words \cup {<<>>, None},
   newvar : {Unset}, newtty : {<<<<>>, <<>>>>},
   fails : {"nothing", "early", "late"}]
RekeyEnvs ==
  [cmd : {"rekey"},
   var : Words \cup {<<>>, Unset, Garbled},
   file : {w \o <<LF>> : w \in Words} \cup {Unset},
   cred : {Unset},
   tty : Words \cup {<<>>, None},
   newvar : Words \cup {<<>>, Unset, Garbled},
   newtty : (Words \cup {<<>>}) \X (Words \cup {<<>>}),
   fails : {"nothing", "early"}]
Envs == ServeEnvs \cup RekeyEnvs

-----------------------------------------------------------------------------
(***************************************************************************)
(* KDF parameters: memory in KiB, passes, lanes.  A stored one is <<n>>, or *)
(* <<>> if its row is missing or is not four bytes.                        *)
(***************************************************************************)
STRONG == <<<<256 * 1024>>, <<4>>, <<1>>>>
BASELINE == <<<<64 * 1024>>, <<3>>, <<1>>>>    \* of a database made earlier
KdfMin == <<8, 1, 1>>
KdfMax == <<1024 * 1024, 32, 8>>

\* Something else wrote to table meta: a value at the edge of what is allowed or
\* past it, or no value.
Damage(i) == {<<>>, <<KdfMin[i] - 1>>, <<KdfMin[i]>>, <<KdfMax[i]>>,
              <<KdfMax[i] + 1>>}
Known == {STRONG, BASELINE}
Params == Known \cup {[k EXCEPT ![i] = v] : k \in Known, i \in 1..3,
                       v \in UNION {Damage(j) : j \in 1..3}}

InBounds(i, n) == KdfMin[i] <= n /\ n <= KdfMax[i]

\* Mutant: only the memory cost is checked.
validate_kdf_params_Memory(params) == InBounds(1, params[1][1])

validate_kdf_params(params) == \A i \in 1..3 : InBounds(i, params[i][1])

\* get_required and le_to_u32 for the three, then the bounds.
Usable(params) == /\ \A i \in 1..3 : params[i] # <<>>
                  /\ validate_kdf_params(params)

-----------------------------------------------------------------------------
(***************************************************************************)
(* Passphrases: <<text>>, or <<>> when the command fails                   *)
(***************************************************************************)
Fail == <<>>
NotEmpty(text) == IF text = <<>> THEN Fail ELSE <<text>>

\* Mutant: CR LF is not treated as a newline.
strip_single_trailing_newline_Unix(s) ==
  IF s # <<>> /\ Last(s) = LF THEN Front(s) ELSE s

strip_single_trailing_newline(s) ==
  IF Len(s) >= 2 /\ Last(s) = LF /\ s[Len(s) - 1] = CR THEN Front(Front(s))
  ELSE IF s # <<>> /\ Last(s) = LF THEN Front(s)
  ELSE s

read_passphrase_file(content) ==
  IF content = Refused THEN Fail
  ELSE NotEmpty(strip_single_trailing_newline(content))

\* Mutant: an empty SECRETS_PASSPHRASE counts as none.
acquire_passphrase_SkipsEmpty(e) ==
  IF e.var \notin {Unset, Garbled, <<>>} THEN NotEmpty(e.var)
  ELSE IF e.file # Unset THEN read_passphrase_file(e.file)
  ELSE IF e.cred # Unset THEN read_passphrase_file(e.cred)
  ELSE IF e.tty # None THEN NotEmpty(e.tty)
  ELSE Fail

\* env::var fails for a variable that is not Unicode as for one that is not set.
acquire_passphrase(e) ==
  IF e.var \notin {Unset, Garbled} THEN NotEmpty(e.var)
  ELSE IF e.file # Unset THEN read_passphrase_file(e.file)
  ELSE IF e.cred # Unset THEN read_passphrase_file(e.cred)
  ELSE IF e.tty # None THEN NotEmpty(e.tty)
  ELSE Fail

acquire_new_passphrase(e, current) ==
  LET entered == IF e.newvar \notin {Unset, Garbled} THEN NotEmpty(e.newvar)
                 ELSE IF e.tty # None /\ e.newtty[1] = e.newtty[2]
                   THEN NotEmpty(e.newtty[1])
                 ELSE Fail
  IN  IF entered = current THEN Fail ELSE entered

-----------------------------------------------------------------------------
(***************************************************************************)
(* Commands                                                                *)
(***************************************************************************)
\* pw and with: what the key of the verifier was derived from; params: what the
\* database says it was derived with; damaged: history, somebody changed that.
Metas == [pw : Texts \ {<<>>}, with : Known, params : Params, damaged : BOOLEAN]
MetaFor(pw) ==
  [pw |-> pw, with |-> STRONG, params |-> STRONG, damaged |-> FALSE]
NoCommand == [cmd |-> "none", ok |-> FALSE, derived |-> {}]
Outcomes == [cmd : {"none", "serve", "rekey"}, ok : BOOLEAN,
             derived : SUBSET Params]   \* parameters a key was derived with

\* The master key never comes from nothing: an empty variable, an empty file or
\* one that holds a newline only, or an empty answer at the prompt, initializes
\* no database and rekeys none (config.rs: "never silently proceed").
TypeOK ==
  /\ meta \in Metas \cup {None}
  /\ env \in Envs \cup {None}
  /\ last \in Outcomes

Init ==
  /\ meta \in {None} \cup {[MetaFor(w) EXCEPT !.with = BASELINE,
                                             !.params = BASELINE] : w \in Words}
  /\ env = None /\ last = NoCommand

\* The operator prepares the next command.
Configure == env = None /\ env' \in Envs /\ UNCHANGED <<meta, last>>

End(cmd, ok, derived) ==
  /\ last' = [cmd |-> cmd, ok |-> ok, derived |-> derived]
  /\ env' = None

\* verify, of a database that has a salt; the key is derived before the verifier
\* tells whether it is the right one.
Derived(m) == IF Usable(m.params) THEN {m.params} ELSE {}
Verifies(m, pw) == Usable(m.params) /\ m.params = m.with /\ m.pw = pw

\* serve: configuration and lock, passphrase, first run or verification, then
\* the audit log and the socket.
Serve ==
  LET got == acquire_passphrase(env)
  IN  /\ env # None /\ env.cmd = "serve"
      /\ IF env.fails = "early" \/ got = Fail
           THEN End("serve", FALSE, {}) /\ UNCHANGED meta
           ELSE IF meta = None
           THEN /\ meta' = MetaFor(got[1])
                /\ End("serve", env.fails = "nothing", {STRONG})
           ELSE /\ End("serve", env.fails = "nothing" /\ Verifies(meta, got[1]),
                       Derived(meta))
                /\ UNCHANGED meta

\* Mutant: the new KDF parameters are not stored.
Rekey_OldParams ==
  LET got == acquire_passphrase(env)
      new == IF got = Fail THEN Fail ELSE acquire_new_passphrase(env, got)
  IN  /\ env # None /\ env.cmd = "rekey"
      /\ IF env.fails = "early" \/ new = Fail \/ meta = None
           THEN End("rekey", FALSE, {}) /\ UNCHANGED meta
           ELSE IF Verifies(meta, got[1])
           THEN /\ meta' = [MetaFor(new[1]) EXCEPT !.params = meta.params]
                /\ End("rekey", TRUE, Derived(meta) \cup {STRONG})
           ELSE End("rekey", FALSE, Derived(meta)) /\ UNCHANGED meta

\* rekey: configuration and lock, both passphrases, then the database.
Rekey ==
  LET got == acquire_passphrase(env)
      new == IF got = Fail THEN Fail ELSE acquire_new_passphrase(env, got)
  IN  /\ env # None /\ env.cmd = "rekey"
      /\ IF env.fails = "early" \/ new = Fail \/ meta = None
           THEN End("rekey", FALSE, {}) /\ UNCHANGED meta
           ELSE IF Verifies(meta, got[1])
           THEN /\ meta' = MetaFor(new[1])
                /\ End("rekey", TRUE, Derived(meta) \cup {STRONG})
           ELSE End("rekey", FALSE, Derived(meta)) /\ UNCHANGED meta

\* The KDF metadata is not authenticated: something else may change it.
Tamper(i, v) ==
  /\ meta # None /\ env = None
  /\ ~meta.damaged
  /\ meta' = [meta EXCEPT !.params[i] = v, !.damaged = TRUE]
  /\ last' = NoCommand
  /\ UNCHANGED env

Next ==
  \/ Configure \/ Serve \/ Rekey
  \/ \E i \in 1..3 : \E v \in Damage(i) : Tamper(i, v)

Spec == Init /\ [][Next]_vars

-----------------------------------------------------------------------------
(***************************************************************************)
(* Properties                                                              *)
(***************************************************************************)
Served == env # None /\ env' = None /\ last'.cmd = "serve"
Rekeyed == env # None /\ env' = None /\ last'.cmd = "rekey"

\* What holds word w, as an operator would write it down.
Holds(text, w) == text \in {w, w \o <<LF>>, w \o <<CR, LF>>}
Says(e, w) == \/ e.var = w
              \/ e.var = Unset /\ Holds(e.file, w)
              \/ e.var = Unset /\ e.file = Unset /\ Holds(e.cred, w)
              \/ e.var = Unset /\ e.file = Unset /\ e.cred = Unset /\ e.tty = w

\* The passphrase of the database, from whichever source, with or without the
\* newline an editor adds to a file, starts the server again, whatever commands,
\* failed ones too, were run since it was set; so nothing the program itself
\* writes (the KDF parameters too) keeps it from starting.
SamePassphraseStarts == [][
  \A w \in Words :
    /\ Served /\ env.fails = "nothing"
    /\ meta # None /\ meta.pw = w /\ ~meta.damaged
    /\ Says(env, w)
    => last'.ok]_vars

\* A command that is not given the database's passphrase, by the first source
\* that is set (an unreadable variable counts as none), does not succeed, and
\* only a rekey that succeeds changes what the database holds.  The first start
\* initializes it with what that same source holds: if the source is empty or
\* cannot be used, the next one is not asked and there is no database
\* (config.rs, acquire_passphrase).
Heard(e) == [e EXCEPT !.var = IF @ = Garbled THEN Unset ELSE @]

OnlyItsPassphrase == [][
  Served \/ Rekeyed =>
    IF meta = None
      THEN meta' # None => /\ Served
                           /\ meta'.pw # <<>> /\ Says(Heard(env), meta'.pw)
      ELSE /\ last'.ok => Says(Heard(env), meta.pw)
           /\ meta' # meta => Rekeyed /\ last'.ok]_vars

\* A rekey leaves a database that needs another passphrase than before and has
\* the current parameters, whatever it was made with.
RekeyRenews == [][
  Rekeyed /\ last'.ok => meta'.pw # meta.pw /\ meta'.params = STRONG]_vars

\* However the stored parameters were damaged, no key is derived at a cost
\* outside the bounds (crypto_state.rs: "refusing to derive a key").
CostBounded ==
  \A params \in last.derived : \A i \in 1..3 : InBounds(i, params[i][1])
=============================================================================
