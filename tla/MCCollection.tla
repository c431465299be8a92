----------------------------- MODULE MCCollection -----------------------------
(* An instance of CollectionClient: two card codes of which the server's card data knows one, *)
(* one saved list, an inventory of three slots and the offhand.                                *)
EXTENDS CollectionClient, TLC

CONSTANTS x, y      \* contents of a list

Counts(first, second) == [code \in Codes |-> IF code = 1 THEN first ELSE second]
Data(revision, counts, decks, active) ==
    [revision |-> revision, counts |-> counts, decks |-> decks, active |-> active]

\* A collection to withdraw from, all copies of one code for a stack and an empty slot but not
\* all of the other, while copies are carried in two slots.  The revision of the second world
\* is lower than the one the client knows from the first.
FirstWorld ==
    [data |-> Data(2, Counts(2, 4), 1 :> x, 1),
     slots |-> <<Slot(1, 1), Slot(Foreign, 1), EmptySlot, Slot(1, 2)>>]
SecondWorld ==
    [data |-> Data(0, Counts(0, 1), Empty, NoDeck),
     slots |-> <<Slot(Foreign, 1), EmptySlot, EmptySlot, EmptySlot>>]
MCWorlds == {FirstWorld, SecondWorld}

\* The player joins the first world first.  On his second connection, to either, he only looks
\* at his collection, with one request at a time, until he is shown it.
LaterLooks ==
    /\ connection.generation = 0 => data = FirstWorld.data
    /\ connection.generation > 2 =>
        /\ changes' = changes /\ connection'.up
        /\ Cardinality(DOMAIN client'.pending) <= 1 /\ client.view = NoView
=============================================================================
