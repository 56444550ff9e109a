----------------------------- MODULE Screening ------------------------------
(***************************************************************************)
(* What services/python-ner/trinity_ner/ner_service.py makes of names and  *)
(* texts: the similarity behind a sanctions match and the key of a cached  *)
(* prediction.  A name is a sequence of words in lower case; words are     *)
(* taken to have one letter, so that a name contains another as a string   *)
(* exactly when it does as a sequence.                                     *)
(***************************************************************************)
EXTENDS SequencesExt, Integers

Within(text1, text2) == text1 \in SubSeqs(text2)

(* _calculate_similarity, a quotient <<n, d>>: 1, 0.9 or the share of the  *)
(* words the two have in common.                                           *)
Similarity(text1, text2) ==
  LET words1 == ToSet(text1)  words2 == ToSet(text2) IN
  IF text1 = text2 THEN <<1, 1>>
  ELSE IF Within(text1, text2) \/ Within(text2, text1) THEN <<9, 10>>
  ELSE <<Cardinality(words1 \cap words2), Cardinality(words1 \cup words2)>>

(* Slip: >= 0.8.                                                           *)
SimilarAtLeast(text1, text2) ==
  LET sim == Similarity(text1, text2) IN 10 * sim[1] >= 8 * sim[2]

(* sim > 0.8.  The double 4/5 is the double 0.8.                           *)
Similar(text1, text2) ==
  LET sim == Similarity(text1, text2) IN 10 * sim[1] > 8 * sim[2]

(* _match_sanctions: at most one match for an entry of the list, a direct  *)
(* one before one of its aliases, the first alias before the others.       *)
MatchEntry(entity, entry) ==
  LET alias == SelectInSeq(entry.aliases, LAMBDA a : Similar(entity, a)) IN
  CASE Similar(entity, entry.name) -> <<[type |-> "direct", alias |-> 0]>>
    [] ~Similar(entity, entry.name) /\ alias # 0 -> <<[type |-> "alias", alias |-> alias]>>
    [] OTHER -> <<>>

(* The matches after each entry, and at the end.                           *)
Matches(entity, list) ==
  LET matches[n \in 0..Len(list)] ==
        IF n = 0 THEN <<>> ELSE matches[n - 1] \o MatchEntry(entity, list[n])
  IN matches
MatchSanctions(entity, list) == Matches(entity, list)[Len(list)]

(* _prediction_cache_key: the text, "|", and the labels joined by commas.  *)
(* The digest taken of it is one to one.                                   *)
Joined(labels) ==
  LET joined[n \in 0..Len(labels)] ==
        IF n = 0 THEN <<>>
        ELSE IF n = 1 THEN labels[1]
        ELSE joined[n - 1] \o <<",">> \o labels[n]
  IN joined
Join(labels) == Joined(labels)[Len(labels)]

(* Slip: one separator for everything.                                     *)
PredictionCacheKeyAllCommas(text, labels) == text \o <<",">> \o Join(labels)

PredictionCacheKey(text, labels) == text \o <<"|">> \o Join(labels)

-----------------------------------------------------------------------------
(* A name of at most four words is matched by a text that contains it or   *)
(* is contained in it and by one with the same words in any order; sharing *)
(* all but one of five words is not enough, whatever the rounding of 0.8   *)
(* (_match_sanctions).                                                     *)
SameName(entity, name) ==
  Within(entity, name) \/ Within(name, entity) \/ ToSet(entity) = ToSet(name)

MatchFor(entity, list) ==
  LET matches == MatchSanctions(entity, list) IN
  matches # <<>> <=>
    \E i \in DOMAIN list : \E name \in {list[i].name} \cup ToSet(list[i].aliases) :
      SameName(entity, name)

(* Two requests with one cache key have one text, unless a label has a "|" *)
(* in it, and one list of labels, unless a label is empty or has a         *)
(* separator in it.  Labels are the client's, and nothing validates them   *)
(* (_prediction_cache_key, DetectRequest).                                 *)
Without(mark, labels) == \A i \in DOMAIN labels : mark \notin ToSet(labels[i])
Ordinary(labels) ==
  /\ Without("|", labels) /\ Without(",", labels)
  /\ \A i \in DOMAIN labels : labels[i] # <<>>

KeyFor(text1, labels1, text2, labels2) ==
  PredictionCacheKey(text1, labels1) = PredictionCacheKey(text2, labels2) =>
    /\ Without("|", labels1) /\ Without("|", labels2) => text1 = text2
    /\ Ordinary(labels1) /\ Ordinary(labels2) => text1 = text2 /\ labels1 = labels2
=============================================================================
