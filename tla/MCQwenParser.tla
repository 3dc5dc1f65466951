----------------------------- MODULE MCQwenParser ------------------------------
(* A small instance of QwenParser for TLC: a message without thinking,     *)
(* one that ends where a tag may begin, and one with thinking.             *)
EXTENDS QwenParser

MCChar == {"<", "/", ">", "a", " "}
MCOpenTag == <<"<", ">">>
MCCloseTag == <<"<", "/", ">">>
MCBlank == {" "}
MCMessage == {<<"a">>, <<"a", "<">>, <<"<", ">", "a", "<", "/", ">", " ", "a">>}
MCCallId == {"call"}
MCGenerated == <<>>

(* The messages here are such that DividedOnce is proved for them, too.    *)
ASSUME MessagesContinue == Continuing
================================================================================
