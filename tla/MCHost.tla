------------------------------- MODULE MCHost -------------------------------
(* Instance for TLC: strings with no, one trailing or one inner newline.     *)
EXTENDS LegacyHost

MCTexts == {<<>>, <<FALSE>>, <<TRUE, FALSE>>}
MCArgvs == {<<"prog", BadUtf8>>, <<"prog", NULL, "x">>}
=============================================================================
