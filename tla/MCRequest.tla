----------------------------- MODULE MCRequest -----------------------------
(* Instances of Request for TLC. *)
EXTENDS Request

Ask(method, uri, version, headers, body) ==
  [bad |-> FALSE, method |-> method, uri |-> uri, version |-> version, headers |-> headers,
   body |-> body]
Garbage(raw) == [bad |-> TRUE, raw |-> raw]

(* The URIs that get_callback's comment speaks of, and others. *)
Uris == {<<"/">>, <<"/", "0">>, <<"/", "0", "/">>, <<"/", "/">>, <<"/", "x">>, <<"x">>, <<>>,
         <<"/", "/", "0">>, <<"/", "1">>}

Gets == {Ask("GET", uri, "HTTP/1.1", <<>>, <<>>) : uri \in Uris}
          \cup {Ask(method, <<"/">>, "HTTP/1.0", <<"x">>, <<>>) : method \in {"GET", "HEAD"}}

(* Pastes, one of which looks like the end of the headers, with fewer headers than         *)
(* MAX_HEADERS and with more; without Content-Length; and one to the wrong URI.            *)
Posts ==
  {Ask("POST", <<"/">>, "HTTP/1.1", h, b) :
     h \in {<<"CL">>, <<"x", "CL">>, <<"CL", "x", "x", "x">>}, b \in {<<"p">>, <<"CR", "LF", "q">>}}
  \cup {Ask("POST", <<"/">>, "HTTP/1.1", <<>>, <<>>), Ask("POST", <<"/", "0">>, "HTTP/1.1", <<"CL">>, <<"p">>)}

Malformed ==
  {Garbage(raw) : raw \in
     {<<"GET", " ", "/">> \o CRLF \o CRLF,
      <<"x", " ", "/", " ", "HTTP/1.1">> \o CRLF \o CRLF,
      <<"GET", " ", "/", " ", "x">> \o CRLF \o CRLF,
      <<"GET", " ", "/", " ", "HTTP/1.1">> \o CRLF \o <<"LF">>,
      <<"GET", " ", "/", " ", "HTTP/1.1">> \o CRLF \o <<"x">> \o CRLF \o CRLF,
      <<"POST", " ", "/", " ", "HTTP/1.1">> \o CRLF \o <<"Content-Length", ":", "9">> \o CRLF \o CRLF}}

(* Lengths that parse_request takes though they are negative or no int: with INT_MAX = 127 *)
(* the second becomes 1, and the last one, which is no long either, -1.                    *)
Lengths == {<<"-", "1">>, <<"2", "5", "7">>, <<"2", "0", "0", "0">>}
Announcing ==
  {Garbage(<<method, " ", "/", " ", "HTTP/1.1">> \o CRLF \o <<"Content-Length", ":">> \o len
             \o CRLF \o CRLF \o <<"p">>) : method \in {"GET", "POST"}, len \in Lengths}
  \cup {Garbage(<<"POST", " ", "/", " ", "HTTP/1.1">> \o CRLF \o <<"Content-Length", ":", "1", "0", "0">>
             \o CRLF \o CRLF)}

AllMessages == Gets \cup Posts \cup Malformed \cup Announcing
============================================================================
