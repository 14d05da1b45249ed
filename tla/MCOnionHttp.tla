--------------------------- MODULE MCOnionHttp ---------------------------
(***************************************************************************)
(* OnionHttp with a client that sends messages of every kind.              *)
(***************************************************************************)
EXTENDS OnionHttp

StartLineOf(method, url, version) == [method |-> method, url |-> url, version |-> version]

MCLines == <<
    StartLineOf("GET", <<47>>, "HTTP/1.1"),
    StartLineOf("POST", <<47, 97>>, "HTTP/1.1"),
    StartLineOf("BREW", <<47>>, "HTTP/1.1"),
    StartLineOf("GET", <<47, 7>>, "HTTP/1.1"),
    StartLineOf("GET", <<47, 97, 97>>, "HTTP/1.1"),
    StartLineOf("PUT", <<47>>, "HTTP/1.0")
>>

Field(name, value) == [name |-> name, value |-> value]

MCFields == <<
    Field(Host, <<32, 97>>),
    Field(<<104>>, <<>>),
    Field(<<88, 45>>, <<9, 200>>),
    Field(TransferEncoding, <<32, 32, 67>>),
    Field(TransferEncoding, <<103>>),
    Field(ContentLength, <<48>>),
    Field(ContentLength, <<32, 49>>),
    Field(<<99>>, <<43, 50, 59>>),
    Field(ContentLength, <<45, 49>>),
    Field(<<88, 40>>, <<97>>),
    Field(<<88>>, <<97, 7>>),
    Field(<<88, 88, 88>>, <<97>>),
    Field(<<88>>, <<97, 97, 97, 97>>)
>>

Line(i) == Token("line", i)
Said(i) == Token("field", i)
Junk == Token("junk", 0)
Bytes(n) == [i \in 1 .. n |-> Token("byte", i)]

AHost == Said(1)
Other == Said(3)
InChunks == Said(4)

\* A header field that says the length n of the body
Length(n) == Said(6 + n)

Message(line, fields, coding, body) ==
    [line |-> line, fields |-> fields, coding |-> coding, body |-> body]

Served == {
    Message(Line(1), <<AHost, Length(2)>>, "length", <<Bytes(2)>>),
    Message(Line(2), <<Length(1), Said(2), InChunks>>, "chunked", <<Bytes(1)>>),
    Message(Line(1), <<InChunks, AHost>>, "chunked", <<Bytes(3), Bytes(2)>>)
}

Refused ==
    { Message(Line(1), <<InChunks, AHost>>, "chunked", <<Bytes(8), Bytes(8)>>),
      Message(Line(1), <<AHost, Length(0)>>, "length", <<>>),
      Message(Line(1), <<Said(5), Said(9), AHost>>, "length", <<Bytes(2)>>),
      Message(Line(1), <<Other, Other, AHost, Length(1)>>, "length", <<Bytes(1)>>),
      Message(Line(1), [i \in 1 .. 17 |-> Other], "none", <<>>),
      Message(Line(1), <<Other, Other, AHost, Said(13)>>, "none", <<>>),
      Message(Line(1), <<Other, Junk>>, "none", <<>>),
      Message(Line(1), <<Other, Length(1)>>, "length", <<Bytes(1)>>),
      Message(Line(1), <<>>, "none", <<>>),
      Message(Junk, <<AHost>>, "none", <<>>) }
    \cup { Message(Line(i), <<AHost>>, "none", <<>>) : i \in {1} \cup 3 .. 6 }
    \cup { Message(Line(1), <<AHost, Said(i)>>, "none", <<>>) : i \in 10 .. 13 }

MCMessages == Served \cup Refused

\* Sent without a pause: those that are served, and one without a body, so that its
\* end and the end of its header fields are the same.
MCStreamed ==
    Served \cup {Message(Line(1), <<AHost>>, "none", <<>>)}
==========================================================================
