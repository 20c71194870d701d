----------------------------- MODULE MCEncoding -----------------------------
(***************************************************************************)
(* Small instances of Encoding for TLC.                                    *)
(***************************************************************************)
EXTENDS Encoding, TLC

\* Bytes that look like lengths and separators.
SomeNameBytes == {0, 1, 2}
SomeHashes == {<<0, 0>>, <<0, 1>>, <<1, 0>>}

\* LF, CR, quote, backslash, n, the letter a, space, and characters of two and
\* three bytes.
SomeValueChars == {<<10>>, <<13>>, <<34>>, <<92>>, <<110>>, <<97>>, <<32>>,
                   <<195, 169>>, <<226, 130, 172>>}
=============================================================================
