------------------------------ MODULE MCServer ------------------------------
EXTENDS Server

MCKeys == {"server", "core", "host", "port", "base_dir", "handle_threads", "listen_que"}

\* Some keys with a default left out, or what must be there.
MCConfigFiles == {MCKeys \ {"port", "listen_que"}, {"server", "core"}, {"server", "base_dir"}, {"core"}}

\* The words in the order of their codes, the final 0 first.
MCWords == <<"NUL", "/", "res", "a", "b", "HTTP/1.0", "200", "OK", " ", ": ", "CRLF",
             "Content-Type", "Content-Length", "html", "x", "0", "1", "2", "3">>
MCCode == [w \in {MCWords[k] : k \in DOMAIN MCWords} |->
               (CHOOSE k \in DOMAIN MCWords : MCWords[k] = w) - 1]

MCCwd  == <<"/">>
MCBase == <<"res">>
Path(name) == <<"/", "/", "res", "/">> \o name

\* Three connections: a file of one word, a method that is not served, and a file
\* that is missing.
Get(name) == [method |-> "GET", path |-> name]
MCFiles    == [p \in {Path(<<"a">>)} |-> <<"x">>]
MCRequests == <<Get(<<"a">>), [method |-> "POST", path |-> <<"a">>], Get(<<"b">>)>>
MCNumber   == <<<<"0">>, <<"1">>, <<"2">>, <<"3">>>>
=============================================================================
