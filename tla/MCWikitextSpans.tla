---------------------------- MODULE MCWikitextSpans ----------------------------
(* Instances of WikitextSpans: the pieces texts are made of.               *)
EXTENDS WikitextSpans

mc_word(chars, token, editor) == [chars |-> chars, token |-> token, editor |-> editor]
mc_markup(chars) == mc_word(chars, chars, "e1")
mc_blank(chars)  == mc_word(chars, <<>>, "e1")

mc_line_break == <<"W", "L">>
mc_open     == mc_markup(<<"{", "{">>)
mc_close    == mc_markup(<<"}", "}">>)

(* Templates and links, markup that crosses or never ends, a heading,      *)
(* words of two editors, one of them a capital and one a capital that is   *)
(* two characters in lower case, a line break, a token of another text.    *)
mc_pieces ==
  {mc_open, mc_close}
    \cup { mc_markup(<<"[", "[">>), mc_markup(<<"]", "]">>), mc_markup(<<"[">>),
           mc_markup(<<"{", "|">>), mc_markup(<<"<b">>), mc_markup(<<"=">>),
           mc_word(<<"A">>, <<"a">>, "e1"), mc_word(<<"b">>, <<"b">>, "e2"),
           mc_word(<<"I.">>, <<"i", "dot">>, "e2"), mc_word(<<>>, <<"z">>, "e1"),
           mc_blank(<<"\n">>) }

(* Templates in a template; words beside line breaks.                      *)
mc_nested == { mc_open, mc_close, mc_word(<<"b">>, <<"b">>, "e2") }
mc_lines  == { mc_word(<<"b">>, <<"b">>, "e2"), mc_word(<<"w">>, <<"w">>, "e1"),
               mc_blank(<<"\n">>), mc_blank(<<" ">>) }
=============================================================================
