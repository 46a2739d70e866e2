--------------------------- MODULE WildcardMatch ---------------------------
(***************************************************************************)
(* wildcard.Match (pkg/util/wildcard), the loop behind the matches         *)
(* operator and the filters on names, one iteration a step.  A text is a   *)
(* sequence of bytes: the first byte of a character stands for it, the     *)
(* others are continuation bytes, which DecodeRuneInString takes for a     *)
(* character of their own when the loop comes to lie on one.  The position *)
(* in the pattern moves by whole characters only, so a pattern is a        *)
(* sequence of characters.  Texts and patterns are valid UTF-8 and have    *)
(* no U+FFFD, which would equal a continuation byte.                       *)
(***************************************************************************)
EXTENDS Naturals, Sequences

CONSTANTS
    WcChar,      \* characters
    WcWidth,     \* character -> the number of its bytes
    WcTexts,
    WcPatterns

Cont == "~"

\* A continuation byte belongs to the character before it, which is whole.
Utf8(t) ==
    \A i \in DOMAIN t :
        /\ t[i] = Cont <=> \E b \in 1 .. i - 1 : t[b] # Cont /\ i < b + WcWidth[t[b]]
        /\ t[i] # Cont => i + WcWidth[t[i]] <= Len(t) + 1

ASSUME WcAssumption ==
    /\ Cont \notin WcChar
    /\ WcWidth \in [WcChar -> Nat \ {0}]
    /\ WcTexts \subseteq Seq(WcChar \cup {Cont}) /\ \A t \in WcTexts : Utf8(t)
    /\ WcPatterns \subseteq Seq(WcChar \cup {"*", "?"})
    /\ \A c \in WcChar \cap {"*", "?"} : WcWidth[c] = 1

VARIABLES
    pattern, text,
    patAt, textAt,   \* p and s
    wildcardIdx,     \* the last star, or 0
    matchIdx,        \* where the text is matched from behind it
    verdict          \* "none", or what Match returned

wcVars == <<pattern, text, patAt, textAt, wildcardIdx, matchIdx, verdict>>

\* The size DecodeRuneInString returns.
RuneSize(t, i) == IF t[i] = Cont THEN 1 ELSE WcWidth[t[i]]

WcInit ==
    /\ pattern \in WcPatterns /\ text \in WcTexts
    /\ patAt = 1 /\ textAt = 1
    /\ wildcardIdx = 0 /\ matchIdx = 1
    /\ verdict = "none"

Searching == verdict = "none" /\ textAt <= Len(text)

AtPattern(c) == patAt <= Len(pattern) /\ pattern[patAt] = c

MatchAny ==
    /\ Searching
    /\ AtPattern("?")
    /\ patAt' = patAt + 1 /\ textAt' = textAt + RuneSize(text, textAt)
    /\ UNCHANGED <<pattern, text, wildcardIdx, matchIdx, verdict>>

MatchStar ==
    /\ Searching
    /\ AtPattern("*")
    /\ wildcardIdx' = patAt /\ matchIdx' = textAt
    /\ patAt' = patAt + 1
    /\ UNCHANGED <<pattern, text, textAt, verdict>>

MatchLiteral ==
    /\ Searching
    /\ AtPattern(text[textAt]) /\ pattern[patAt] \notin {"?", "*"}
    /\ patAt' = patAt + 1 /\ textAt' = textAt + RuneSize(text, textAt)
    /\ UNCHANGED <<pattern, text, wildcardIdx, matchIdx, verdict>>

Mismatch == Searching /\ \A c \in {"?", "*", text[textAt]} : ~AtPattern(c)

\* The text is matched from where it was left off.
BacktrackHere ==
    /\ Mismatch
    /\ wildcardIdx # 0
    /\ patAt' = wildcardIdx + 1
    /\ matchIdx' = textAt + 1 /\ textAt' = textAt + 1
    /\ UNCHANGED <<pattern, text, wildcardIdx, verdict>>

\* One byte further on behind the last star.
Backtrack ==
    /\ Mismatch
    /\ wildcardIdx # 0
    /\ patAt' = wildcardIdx + 1
    /\ matchIdx' = matchIdx + 1 /\ textAt' = matchIdx + 1
    /\ UNCHANGED <<pattern, text, wildcardIdx, verdict>>

GiveUp ==
    /\ Mismatch
    /\ wildcardIdx = 0
    /\ verdict' = "no"
    /\ UNCHANGED <<pattern, text, patAt, textAt, wildcardIdx, matchIdx>>

SkipStar ==
    /\ verdict = "none" /\ textAt > Len(text)
    /\ AtPattern("*")
    /\ patAt' = patAt + 1
    /\ UNCHANGED <<pattern, text, textAt, wildcardIdx, matchIdx, verdict>>

Conclude ==
    /\ verdict = "none" /\ textAt > Len(text)
    /\ ~AtPattern("*")
    /\ verdict' = IF patAt = Len(pattern) + 1 THEN "yes" ELSE "no"
    /\ UNCHANGED <<pattern, text, patAt, textAt, wildcardIdx, matchIdx>>

WcNext ==
    MatchAny \/ MatchStar \/ MatchLiteral \/ Backtrack \/ GiveUp \/ SkipStar \/ Conclude

WcSpec == WcInit /\ [][WcNext]_wcVars
-----------------------------------------------------------------------------
\* Where characters start, and the end.
Starts(t) == {i \in DOMAIN t : t[i] # Cont} \cup {Len(t) + 1}

\* Character i of pattern x stands for the text between f[i] and f[i + 1]: a
\* star for any characters, a question mark for one, another for itself.
Stands(x, t, f, i) ==
    IF x[i] = "*" THEN f[i] <= f[i + 1]
    ELSE f[i] <= Len(t) /\ f[i + 1] = f[i] + RuneSize(t, f[i]) /\ x[i] \in {"?", t[f[i]]}

\* What a pattern is meant to match.
Glob(x, t) ==
    \E f \in [1 .. Len(x) + 1 -> Starts(t)] :
        /\ f[1] = 1 /\ f[Len(x) + 1] = Len(t) + 1
        /\ \A i \in DOMAIN x : Stands(x, t, f, i)

\* The text has a character of three bytes or more and the pattern a question
\* mark behind a star: stepping by a byte, the loop may take the second and the
\* third byte of the character for one each.
Torn(x, t) ==
    /\ \E i \in DOMAIN t : t[i] # Cont /\ WcWidth[t[i]] > 2
    /\ \E i, j \in DOMAIN x : i < j /\ x[i] = "*" /\ x[j] = "?"

\* The loop of wildcard.Match, which goes back only to the last star and by
\* single bytes, never refuses a text that the pattern matches, and accepts no
\* other one.  The second part claims nothing of a text and a pattern with which
\* the loop may tear a character.
WcDecides ==
    /\ verdict = "no" => ~Glob(pattern, text)
    /\ verdict = "yes" /\ ~Torn(pattern, text) => Glob(pattern, text)
=============================================================================
