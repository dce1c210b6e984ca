---------------------------- MODULE MCLineChannel ----------------------------
(***************************************************************************)
(* Small instances of LineChannel: messages with every special character   *)
(* where it could hurt, and lines that are no messages.                    *)
(***************************************************************************)
EXTENDS LineChannel

Sent(m) == [text |-> Serialize(m), means |-> m]
Typed(t, m) == [text |-> t, means |-> m]

Lists == {
    <<>>,                                     \* no parameter
    << <<>> >>,                               \* one empty parameter
    << <<>>, <<>> >>,                         \* two empty parameters
    << <<"a", Space, "a">> >>,
    << <<Bar>>, <<"n">> >>,
    << <<LineFeed>>, <<Return>> >>,           \* raw line ends in the data
    << <<"a", Backslash>>, <<"a">> >>,        \* a backslash before the delimiter
    << <<Backslash, "n">> >>,                 \* a backslash and n, not a line end
    << <<Backslash, Backslash, Bar>> >> }

Messages ==
    {Request("1", <<"a">>, list) : list \in Lists}
    \cup {Request("2", <<Space, Backslash>>, << <<"a">> >>),
          ResponseSuccess("1", << <<Return>> >>),
          ResponseError("2", "1", <<Bar, "n">>)}

Example == Request("1", <<"a">>, << <<"a">> >>)

\* A line ended by CR LF, and lines that parse refuses.
Lines ==
    {Typed(Serialize(Example) \o <<Return>>, Example),
     Typed(<<>>, Malformed("0")),
     Typed(<<"a">>, Malformed("0")),
     Typed(<<"request", Space, "2", Return>>, Malformed("2")),
     Typed(<<"request", Space, "a", Space, "a">>, Malformed("0")),
     Typed(<<"request", Space, "1", Space, "a", Space, "a", Space, "a">>,
           Malformed("1")),
     Typed(<<"request", Space, "2", Space, "a", Space, "a", Backslash>>,
           Malformed("2")),
     Typed(<<"response", Space, "1", Space, "error", Space, "a", Bar, "a">>,
           Malformed("1"))}

AllInputs == {Sent(m) : m \in Messages} \cup Lines

\* The two commands of README lines 58 and 60.
ReadmeInputs ==
    {Typed(<<"request", Space, "1", Space, "register", Space, "docker_user", Bar,
             "secret123", Bar, "Docker", Space, "User", Bar,
             "docker_user@example.com">>,
           Request("1", <<"register">>,
                   << <<"docker_user">>, <<"secret123">>,
                      <<"Docker", Space, "User">>, <<"docker_user@example.com">> >>)),
     Typed(<<"request", Space, "2", Space, "calculate", Space, "1", Bar, "2", Bar, "3">>,
           Request("2", <<"calculate">>, << <<"1">>, <<"2">>, <<"3">> >>))}
=============================================================================
