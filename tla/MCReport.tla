---- MODULE MCReport ----
(* Small files, texts and clocks for Report.                                *)
EXTENDS Report

Prototype(type, name, args, right) ==
  [return_type |-> type, name |-> <<name>>, arg_types |-> args, params_right |-> right]

\* With a + on the first, the second or no argument, and f stated twice
MCStated ==
  {Prototype("int", "f", <<"int", "string">>, 2),
   Prototype("int", "f", <<"string2", "int", "int">>, 2),
   Prototype("void", "g", <<"format">>, 0)}

\* A comment; more arguments than MAX_ARGS; no type; no argument list; two
\* argument lists; spaces and an empty type
MCOtherLine ==
  {<<";", " ", "f">>,
   <<"int", " ", "g", "(", "int", ",", "int", ",", "int", ",", "+", "int", ")">>,
   <<"int", " ", "f", "(", "some", ")">>,
   <<"int", " ", "f", "(", ")", ")", ",", " ", "(", "(">>,
   <<"int", " ", "g", "(", "int", ")", " ", "(", "int", ",", ")">>,
   <<" ", "int", " ", "g", "(", ",", " ", "+", "int", " ", ")", ";">>}

Piece(chars, values) == [chars |-> chars, values |-> values]

\* More than umovestr reads, with a limit of 6, of memory it cannot read
Unreadable == Piece([i \in 1..8 |-> Unread], Beyond)

\* A character, one that takes two on the line, the conversions, one that
\* display_format does not know the end of, and the end of the memory
MCPieces ==
  {Piece(<<"a">>, << >>), Piece(<<"\n">>, << >>), Piece(<<"%", "%">>, << >>),
   Piece(<<"%", "l", "d">>, <<"d">>), Piece(<<"%", "s">>, <<"s">>),
   Piece(<<"%", "*", "d">>, <<"*", "d">>), Piece(<<"%", "f">>, <<"...">>),
   Piece(<<"%", "p">>, Beyond), Unreadable}

MCLengths == {-4, -1, 1, 3}
====
