---------------------------- MODULE MCHttpClient ----------------------------
(***************************************************************************)
(* TLC instances of HttpClient: what the servers may answer.               *)
(***************************************************************************)
EXTENDS HttpClient

\* An answer of each framing, with both line ends and with CR and LF in the body; one
\* whose lines are mixed; and a redirect to another origin that changes the method.
MCResponses ==
    {Response(200, 0, "length", <<"CR", "LF">>, "crlf", "crlf"),
     Response(200, 0, "chunked", <<"LF">>, "crlf", "lf"),
     Response(200, 0, "close", <<"byte">>, "lf", "lf"),
     Response(200, 0, "length", <<"CR", "LF", "CR", "LF">>, "lf", "lf"),
     Response(302, 2, "length", <<>>, "lf", "lf")}

MCRequests == {<<"Execute", "GET">>, <<"Execute", "POST">>, <<"Open", "GET">>, <<"Upload", "POST">>}
=============================================================================
