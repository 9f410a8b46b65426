----------------------------- MODULE MCSatsuLex -----------------------------
(***************************************************************************)
(* Texts for the lexer.                                                    *)
(***************************************************************************)
EXTENDS SatsuLex, TLC

UpTo(n, S) == UNION {[1..k -> S] : k \in 0..n}

MCLetters == {"i", "f", "n"}
MCDigits == {"1"}
MCKeyword == (<<"i", "f">> :> "KWIF") @@ (<<"f", "i", "n", "i">> :> "KWFUNC")
MCBehind == {"=", "/", " "}

\* Everything, words and numbers, strings, operators and comments.
MCTexts ==
  UpTo(4, {"i", "1", ".", "\"", "\\", " ", "\n", "/", "=", "@"})
    \union UpTo(5, {"i", "f", "n", "1", "="})
    \union UpTo(5, {"1", ".", "f", "-"})
    \union UpTo(6, {"\"", "\\", "n"})
    \union UpTo(6, {"/", "\n", "="})
    \union UpTo(3, {p[1] : p \in Pair} \union {s[1] : s \in Single})
=============================================================================
