----------------------------- MODULE MCPainting -----------------------------
EXTENDS Painting

MCUpdates ==
    LET ops == {Fill(0, 2, 1), Copy(0, 1, 2), Img(1, 2, 2, 0), Img(0, 1, 3, 0), Blit(2, 1, 4, FALSE)}
    IN  {<<a>> : a \in ops} \cup {<<a, b>> : a \in ops, b \in ops}
        \cup {<<[type |-> "resize", w |-> w]>> : w \in {2, 4}}
        \cup {<<a, [type |-> "resize", w |-> 2]>> : a \in {Img(0, 1, 3, 0)}}

ASSUME OrderedUpdates == PlainBeforeResize /\ NoViews
=============================================================================
