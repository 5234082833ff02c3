---------------------------- MODULE MCConnection ----------------------------
EXTENDS Connection

Request(head, old, close, expect, chunked, upload) ==
  [head |-> head, old |-> old, close |-> close, expect |-> expect,
   chunked |-> chunked, upload |-> upload]

\* A HEAD request, one without a body, one of HTTP/1.0, uploads of both forms.
MCKinds == {Request(TRUE, FALSE, FALSE, FALSE, FALSE, 0),
            Request(FALSE, TRUE, TRUE, FALSE, FALSE, 0),
            Request(FALSE, FALSE, FALSE, TRUE, FALSE, 2),
            Request(FALSE, FALSE, FALSE, FALSE, TRUE, 2)}

\* From one buffer in memory, and from a callback.
InMemory(code, size) == [code |-> code, size |-> size, reader |-> FALSE,
                         iov |-> FALSE, enforced |-> FALSE, strict |-> FALSE]
FromReader(size) == [InMemory("200", size) EXCEPT !.reader = TRUE]

\* From memory, as one part and in chunks, from a vector, from a callback with a
\* known and an unknown size, without chunks for HTTP/1.0, without a body, the
\* interim reply, the upgrade.
MCReplies == {InMemory("200", 2),
              [InMemory("200", 2) EXCEPT !.enforced = TRUE],
              [InMemory("200", 2) EXCEPT !.iov = TRUE],
              FromReader(2), FromReader(MHD_SIZE_UNKNOWN),
              [FromReader(MHD_SIZE_UNKNOWN) EXCEPT !.strict = TRUE],
              InMemory("204", 0), InMemory("102", 0), InMemory("101", 0)}

\* For liveness: an upload of each form, a reply of each form.
LiveKinds == {Request(FALSE, FALSE, FALSE, TRUE, FALSE, 2),
              Request(FALSE, FALSE, FALSE, FALSE, TRUE, 1)}

LiveReplies == {FromReader(1), FromReader(MHD_SIZE_UNKNOWN), InMemory("102", 0)}
=============================================================================
