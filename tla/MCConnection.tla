---------------------------- MODULE MCConnection ----------------------------
EXTENDS HttpProperties

CONSTANTS c1, c2

Request(route, head, host, version, header, expect) ==
  [route |-> route, head |-> head, host |-> host, version |-> version,
   header |-> header, expect |-> expect]

Get     == Request("page", FALSE, TRUE, "1.1", "none", FALSE)
GetHead == Request("page", TRUE, TRUE, "1.1", "none", FALSE)
NoHost  == Request("page", TRUE, FALSE, "1.1", "none", FALSE)
Lost    == Request("missing", FALSE, TRUE, "1.1", "none", FALSE)
Upload  == Request("page", FALSE, TRUE, "1.1", "none", TRUE)
Stream  == Request("big", FALSE, FALSE, "1.0", "none", FALSE)
Socket  == Request("upgrade", FALSE, TRUE, "1.1", "none", FALSE)
File    == Request("file", TRUE, TRUE, "1.1", "none", FALSE)

MCChunks ==
  c1 :> {<<>>, <<GetHead, Upload>>, <<NoHost>>, <<Lost>>, <<Get, Stream>>, <<Socket>>}
  @@ c2 :> {<<File>>}
MCMaxChunks == c1 :> 2 @@ c2 :> 1
=============================================================================
