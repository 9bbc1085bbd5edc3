------------------------------- MODULE Corpus -------------------------------
(***************************************************************************)
(* The corpus index of packages/core/src/corpus/index-corpus.ts.           *)
(*                                                                         *)
(* A corpus is a sequence of symbols [phoneme, ayah, word].  A location is *)
(* abstracted to its ayah (surah and ayah in one number) and the word in   *)
(* that ayah; validateCorpus makes the locations strictly monotonic, so a  *)
(* symbol's own number is its position.  Positions count from 0, ranges    *)
(* are end-exclusive.                                                      *)
(***************************************************************************)
EXTENDS Integers, Sequences, FiniteSets, SequencesExt

\* The elements of S in the strict total order Before, without enumerating
\* the sequences over S.
SortedSeq(S, Before(_, _)) ==
  [k \in 1..Cardinality(S) |->
     CHOOSE x \in S : Cardinality({y \in S : Before(y, x)}) = k - 1]

Positions(symbols)   == 0 .. Len(symbols) - 1
SymbolAt(symbols, p) == symbols[p + 1]

\* What validateCorpus accepts of the order of symbols: locations never go
\* back, so each word and each ayah is one run of symbols.
ValidCorpus(symbols) ==
  \A p, q \in Positions(symbols) :
    LET left == SymbolAt(symbols, p)  right == SymbolAt(symbols, q)
    IN  p < q => \/ left.ayah < right.ayah
                 \/ left.ayah = right.ayah /\ left.word <= right.word

RangeOf(S) == [start |-> CHOOSE p \in S : \A q \in S : p <= q,
               end   |-> (CHOOSE p \in S : \A q \in S : p >= q) + 1]

SameAyah(s, t) == s.ayah = t.ayah
SameWord(s, t) == s.ayah = t.ayah /\ s.word = t.word

\* ayahSymbolRanges, looked up with the symbol at position p.
AyahRange(symbols, p) ==
  RangeOf({q \in Positions(symbols) : SameAyah(SymbolAt(symbols, q), SymbolAt(symbols, p))})

\* wordSymbolRanges in the order orderedWords gives them: words are numbered
\* by the position of their first symbol.
OrderedWordRanges(symbols) ==
  LET RangeAt(p) ==
        RangeOf({q \in Positions(symbols) : SameWord(SymbolAt(symbols, q), SymbolAt(symbols, p))})
  IN  SortedSeq({RangeAt(p) : p \in Positions(symbols)}, LAMBDA r, s : r.start < s.start)

\* wordIdsBySymbol: the number of the word that holds position p.
WordIdsBySymbol(symbols) ==
  LET words == OrderedWordRanges(symbols)
  IN  [p \in Positions(symbols) |->
         CHOOSE w \in DOMAIN words : words[w].start <= p /\ p < words[w].end]

\* addNgramPostings: the ascending positions at which a key of one to three
\* phonemes begins.
Postings(symbols, key) ==
  SortedSeq({p \in Positions(symbols) :
                  /\ p + Len(key) <= Len(symbols)
                  /\ \A k \in 1..Len(key) : symbols[p + k].phoneme = key[k]},
               LAMBDA p, q : p < q)
=============================================================================
