---------------------------- MODULE MCNativeBridge ----------------------------
(***************************************************************************)
(* Instances of the native bridge for TLC.                                 *)
(***************************************************************************)
EXTENDS NativeBridge

CONSTANTS a, b, constant, utility, script, noElement

MCBootstrap == <<constant, utility>>

\* For the run about card data, without scripts.
NoBootstrap == <<>>

-----------------------------------------------------------------------------
(* Databases: an ordinary one, one without the table, one that does not open. *)

File(rows) ==
    [opens |-> TRUE, prepares |-> TRUE, rows |-> rows, delivers |-> Len(rows)]

Row(id) ==
    [id |-> id, alias |-> 0, setcode |-> 0, type |-> 1, level |-> 1, atk |-> 1, def |-> 1]

PlainDatabases ==
    {[main |-> File(<<Row(1)>>),
      extra |-> [File(<<>>) EXCEPT !.opens = FALSE]]}

\* One column at its limits, and two that meet in one field.
OddRows ==
    {[Row(1) EXCEPT !.setcode = n] : n \in {1, 4, 49, 66, 195, 255, -1, 256 + 16}}
        \cup {[Row(1) EXCEPT !.level = n] : n \in {3, 4, 5, 8, 11, 15, 27, -3}}
        \cup {[Row(1) EXCEPT !.atk = n] : n \in {7, 8, 15, 16, -1, -2, -9}}
        \cup {[Row(1) EXCEPT !.type = t, !.def = n] : t \in {3, 4, 6, 12, 20, -8},
                                                      n \in {0, 5, 9, -2, 17}}
        \cup {[Row(1) EXCEPT !.alias = n] : n \in {2, 18, -1}}
        \cup {Row(n) : n \in {2, 17, -1, -15}}

\* Two files that meet in the code 1; the first may break off after a row, the second may
\* lack the table.
OddDatabases ==
    {[main |-> [File(<<Row(1), row>>) EXCEPT !.delivers = n],
      extra |-> [File(<<[Row(17) EXCEPT !.level = 2]>>) EXCEPT !.prepares = p]] :
        row \in OddRows, n \in {1, 2}, p \in BOOLEAN}

-----------------------------------------------------------------------------
(* Configurations: the extra file fails where it does not open. *)

Configuration(dbs) == [dbs |-> dbs, scripts |-> <<a, noElement, b>>]

PlainConfigurations == {Configuration(<<"main">>), Configuration(<<"main", "extra">>)}

OddConfigurations ==
    {Configuration(dbs) : dbs \in {noElement, <<>>, <<"main">>, <<noElement, "main", "extra">>,
                                   <<"extra", "main">>}}

-----------------------------------------------------------------------------
(* Scripts *)

Disk(inA, inB) == [dir \in {a, b} |-> IF dir = a THEN inA ELSE inB]
Whole(names) == [name \in Names |-> IF name \in names THEN "whole" ELSE "absent"]

\* Both directories complete; one bootstrap script nowhere, the card script in both.
PlainDisks ==
    {Disk(Whole({constant, script}), Whole(Names)),
     Disk(Whole({constant, script}), [name \in Names |-> IF name = script THEN "whole"
                                                         ELSE IF name = utility THEN "empty"
                                                         ELSE "absent"])}

NoScripts == {Disk(Whole({}), Whole({}))}
=============================================================================
