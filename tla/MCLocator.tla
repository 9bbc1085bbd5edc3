----------------------------- MODULE MCLocator ------------------------------
\* Every corpus of five symbols over two phonemes (up to renaming them), in
\* two or three ayat; every observation of up to four of its phonemes and
\* every observation of up to three that may hold a phoneme it lacks.
EXTENDS Locator

CorpusLength == 5
ObservationLength == 4

Alphabet == {"a", "b"}
Foreign  == "x"

AyahLayouts == {<<1, 1, 2, 2, 2>>, <<1, 2, 3, 3, 3>>}

MCCorpora ==
  {[k \in 1..CorpusLength |-> [phoneme |-> text[k], ayah |-> ayat[k], word |-> 1]] :
     text \in {t \in [1..CorpusLength -> Alphabet] : t[1] = "a"}, ayat \in AyahLayouts}

MCObserved ==
  UNION {[1..n -> Alphabet] : n \in 1..ObservationLength}
    \cup UNION {[1..n -> Alphabet \cup {Foreign}] : n \in 1 .. ObservationLength - 1}
=============================================================================
