---------------------------- MODULE AddressLookup ----------------------------
(***************************************************************************)
(* What findPublicAddress promises to the menus that call it: a call waits *)
(* until it has a word (an address, or Nil for an error); while it waits,  *)
(* other calls may be made inside it and words may come for any call under *)
(* way, even one that replaces an earlier word; only the innermost call    *)
(* returns, and it does once it has a word.  `words` holds the words of    *)
(* the calls under way, the innermost last.  PortMapper implements this.   *)
(***************************************************************************)
EXTENDS Integers, Sequences

CONSTANTS Addresses,    \* public addresses
          Nil,          \* no address: an error
          Waiting       \* no word yet

VARIABLE words

Words == Addresses \cup {Nil, Waiting}
Innermost == words[Len(words)]
Pending == words # <<>> /\ Innermost = Waiting

Init == words = <<>>

Ask ==
  /\ words = <<>> \/ Pending
  /\ words' = Append(words, Waiting)

Hear ==
  /\ Pending
  /\ \E i \in DOMAIN words, word \in Words : words' = [words EXCEPT ![i] = word]

Return ==
  /\ words # <<>> /\ Innermost # Waiting
  /\ words' = SubSeq(words, 1, Len(words) - 1)

Next == Ask \/ Hear \/ Return

Spec == Init /\ [][Next]_words

\* A call that has its word and nothing inside it returns.
FairSpec == Spec /\ WF_words(Return)
=============================================================================
