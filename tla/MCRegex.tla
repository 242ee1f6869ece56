------------------------------- MODULE MCRegex -------------------------------
(* Expressions over the letters 1, 2 and 3, the last in no word. *)
EXTENDS Regex

str(text) == <<"string", text>>
one == str(<<1>>)
two == str(<<2>>)
MCPool ==
    <<<<"Empty">>, <<"End">>, <<"Dot">>, one, str(<<1, 2>>),
      <<"range", <<1, 3>>, FALSE>>, <<"range", <<1>>, TRUE>>, <<"range", <<2>>, TRUE>>,
      <<"and", <<"and", one, <<"repeat", two, <<0, NoLimit>>>>>>, one>>,
      <<"or", <<"repeat", one, <<2, NoLimit>>>>, two>>,
      <<"repeat", two, <<1, NoLimit>>>>>>
MCRepeats == {<<0, NoLimit>>, <<0, 1>>, <<2, 3>>}
=============================================================================
