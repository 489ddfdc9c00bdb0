---------------------------- MODULE MCModelStore ----------------------------
EXTENDS ModelStore, TLC
CONSTANTS zh, en, ttsZh, ttsEn, melo
\* The Chinese and the English voice are two catalogue entries of one file.
MCCapOf == (zh :> ttsZh) @@ (en :> ttsEn)
MCNeeds == [m \in Models |-> <<melo>>]
MCSize == [f \in Files |-> 2]
MCDefault == [c \in Capabilities |-> None]
\* Tasks are interchangeable, and so are the two entries with their capabilities.
Interchangeable ==
  {p @@ q : p \in Permutations(Tasks),
            q \in {<<>>, (zh :> en) @@ (en :> zh) @@ (ttsZh :> ttsEn) @@ (ttsEn :> ttsZh)}}
=============================================================================
