-------------------------- MODULE MCNetworkPrograms --------------------------
(***************************************************************************)
(* Three clients, of which c1 is polite; what they say in each part.       *)
(***************************************************************************)
EXTENDS NetworkPrograms

CONSTANTS c1, c2, c3

(* 04 to 07: c1 sends a line and a command that is not safe, c2 may leave. *)
MCSessTalks ==
  {[c \in {c1, c2} |-> IF c = c1 THEN << <<"x", "nl">>, <<"rm">> >>
                                 ELSE << <<"y">>, <<"z">> >>]}

(* 11 and 12: c2 and c3 only connect. *)
MCMuxTalks == {[c \in {c1, c2, c3} |-> IF c = c1 THEN << <<"x", "nl">> >> ELSE <<>>]}

(* 14: c1 sends more than one read takes; two answers fill the send buffer. *)
MCEchoTalks ==
  {[c \in {c1, c2, c3} |-> CASE c = c1 -> << <<"x", "nl">> >>
                             [] c = c2 -> << <<"y">> >>
                             [] OTHER -> <<>>]}

(* 08: every kind of request at the boundaries of a 4-bit int. *)
MCIntMin == -8
Format == INSTANCE Protocol WITH IntMin <- MCIntMin
MCCalcTalks ==
  {[c \in {c1, c2} |-> IF c = c1
                        THEN <<Format!Encode(r), Format!Encode(<<1, "+", 2>>)>>
                        ELSE <<Format!Encode(<<2, "+", 1>>)>>] :
     r \in {<<-8, "/", -1>>, <<7, "+", 2>>, <<-3, "%", 2>>, <<7, "/", 0>>,
            <<7, "%", 0>>, <<-8, "-", 2>>, <<-8, "*", -1>>, <<1, "?", 2>>}}

(* 09: two logins and a lookup that race, or do not; pages; a directory.   *)
(* The blank line makes a difference only before a body.                   *)
Request(line) == << <<<<"line", line>>, <<"eol">>>> >>
Login(word) == << <<<<"line", "POST /login">>, <<"eol">>, <<"blank">>, <<"body", word>>>> >>
User(cookie) == << <<<<"line", "/user">>, <<"eol">>, <<"cookie", cookie>>>> >>
MCHttpTalks ==
  {[c \in {c1, c2, c3} |-> CASE c = c1 -> t[1] [] c = c2 -> t[2] [] OTHER -> t[3]] :
     t \in {<<Request("GET /login"), Login("good"), User(c1)>>,
            <<Login("bad"), Request("/bilibili"), <<>>>>,
            <<Request("/"), Request("/x"), <<>>>>,
            <<Request("/user.html"), Request("/."), <<>>>>}}

(* 01 to 03: empty, to be cut to three characters, quitting. *)
MCTexts == {<<>>, <<"q", "cr", "nl">>, <<"hi">>, <<"hi", "q", "r", "s">>}
MCWords == {<<"hi">>}
MCQuitWords == {<<"q">>}

(* The cloud drive: contents with a blank line and with a line break. *)
MCDatas == {<<"x">>, <<"x", "blank", "y">>, <<"crlf--">>, <<>>}
=============================================================================
