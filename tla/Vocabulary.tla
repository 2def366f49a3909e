----------------------------- MODULE Vocabulary -----------------------------
(***************************************************************************)
(* turbomemory_graph::extract: the concepts a text mentions, and the       *)
(* vocabulary that maps a learned alias to its canonical concept.          *)
(*                                                                         *)
(* A word is a number, in the order of the strings; a text is the sequence *)
(* of its words.  Extraction is modelled at max_ngram_len = 1, the default.*)
(***************************************************************************)
EXTENDS Integers, Sequences, FiniteSets, SequencesExt

CONSTANTS
    StopWords,          \* tokens tokenize_filtered drops
    Opposing            \* words that mark an opposition ("not", "never", ...)

\* A sequence without its later duplicates: a loop with a `seen` set.
Distinct(s) ==
    LET Keep(out, x) == IF x \in ToSet(out) THEN out ELSE Append(out, x)
    IN FoldLeft(Keep, <<>>, s)

\* The elements of a set in some order.
Listed(S) == FoldSet(LAMBDA x, s : Append(s, x), <<>>, S)

FirstOf(s, n) == SubSeq(s, 1, IF n < Len(s) THEN n ELSE Len(s))

-----------------------------------------------------------------------------
(* ConceptVocabulary: aliases is a function from an alias to its canonical *)
(* form.                                                                   *)

add_alias(aliases, alias, canonical) ==
    LET root == IF canonical \in DOMAIN aliases THEN aliases[canonical] ELSE canonical
    IN [c \in DOMAIN aliases \cup {alias} |-> IF c = alias THEN root ELSE aliases[c]]

\* Follows the chain; `seen` stops it where a form comes up again.
resolve(aliases, concept) ==
    LET n == Cardinality(DOMAIN aliases) + 1
        walk[k \in 0 .. n] ==
            IF k = 0 THEN [at |-> concept, seen |-> {}]
            ELSE LET w == walk[k - 1] IN
                 IF w.at \in DOMAIN aliases /\ aliases[w.at] \notin w.seen
                 THEN [at |-> aliases[w.at], seen |-> w.seen \cup {aliases[w.at]}]
                 ELSE w
    IN walk[n].at

resolve_all(aliases, concepts) ==
    Distinct([i \in 1 .. Len(concepts) |-> resolve(aliases, concepts[i])])

-----------------------------------------------------------------------------
tokenize_filtered(text) == SelectSeq(text, LAMBDA w : w \notin StopWords)

\* Words by how often they occur, then alphabetically.  (The bonus for long
\* words is left out, and a single word is never subsumed by another.)
extract_concepts(text, max_concepts, min_freq) ==
    LET tokens == tokenize_filtered(text)
        Freq(w) == Cardinality({i \in 1 .. Len(tokens) : tokens[i] = w})
        frequent == SelectSeq(Distinct(tokens), LAMBDA w : Freq(w) >= min_freq)
    IN FirstOf(SortSeq(frequent, LAMBDA a, b : Freq(a) > Freq(b) \/ (Freq(a) = Freq(b) /\ a < b)),
               max_concepts)

\* The caller's concepts first; extracted ones fill what is left of `max`.
\* The bound is looked at after a push: with max = 0 one concept of the
\* caller gets in.
merge_concepts(caller, text, max, aliases) ==
    LET own == FirstOf(resolve_all(aliases, caller), IF max = 0 THEN 1 ELSE max)
        found == resolve_all(aliases, extract_concepts(text, 2 * (max - Len(own)), 1))
    IN IF Len(own) >= max THEN own
       ELSE FirstOf(Distinct(own \o found), max)

\* Overlap of two texts, in percent.
text_jaccard_similarity(a, b) ==
    LET A == ToSet(extract_concepts(a, 100, 1))
        B == ToSet(extract_concepts(b, 100, 1))
    IN IF A = {} \/ B = {} THEN 0
       ELSE (100 * Cardinality(A \cap B)) \div Cardinality(A \cup B)

has_opposition_marker(text) == ToSet(text) \cap Opposing # {}

=============================================================================
