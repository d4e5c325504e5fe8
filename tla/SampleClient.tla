---------------------------- MODULE SampleClient ----------------------------
(***************************************************************************)
(* application/reference-code/sclient.c: as krb5-api/client.c, but every   *)
(* result is checked, a refusal is an answer, and the server's reply is    *)
(* read with net_read.                                                     *)
(***************************************************************************)
EXTENDS Krb5Lib

SInitContext ==
    /\ cprog = "sample"
    /\ \/ KGoOn("context", "resolve") /\ UNCHANGED linkVars
       \/ LibFails /\ kpc = "context" /\ KExit("error")

\* getaddrinfo and krb5_sname_to_principal.
SResolve ==
    /\ cprog = "sample" /\ kpc = "resolve"
    /\ \/ /\ kaddrs' \in Resolutions /\ kserver' = TRUE /\ kpc' = "connect"
          /\ UNCHANGED <<linkVars, kres, ktold, kgot, kret>>
       \/ (LibFails \/ SysFails) /\ KExit("error")

\* One round of the loop; a socket that cannot be made or connected is skipped.
SConnect ==
    /\ cprog = "sample" /\ kpc = "connect" /\ kaddrs # <<>>
    /\ kaddrs' = Tail(kaddrs)
    /\ \/ Head(kaddrs) = "server" /\ Connectable /\ Connect /\ kpc' = "cache"
       \/ /\ Head(kaddrs) = "server" => ~Connectable \/ SysFails
          /\ UNCHANGED <<linkVars, kpc>>
    /\ UNCHANGED <<kserver, kres, ktold, kgot, kret>>

SNoAddressLeft ==
    cprog = "sample" /\ kpc = "connect" /\ kaddrs = <<>> /\ KExit("error")

SCache ==
    /\ cprog = "sample"
    /\ \/ cache /\ KGoOn("cache", "versions") /\ UNCHANGED linkVars
       \/ (LibFails \/ ~cache) /\ kpc = "cache" /\ KExit("error")

\* Faulty variant of SReturned: every error is shown as a rejection.
SReturnedRejected ==
    /\ cprog = "sample" /\ kpc = "returned"
    /\ \/ /\ kres = "ok" /\ ktold' = TRUE /\ kpc' = "length"
          /\ UNCHANGED <<linkVars, kaddrs, kserver, kres, kgot, kret>>
       \/ kres # "ok" /\ KExit("ok")

\* krb5_sendauth has returned; a rejection is printed, and exit(0).
SReturned ==
    /\ cprog = "sample" /\ kpc = "returned"
    /\ \/ /\ kres = "ok" /\ ktold' = TRUE /\ kpc' = "length"
          /\ UNCHANGED <<linkVars, kaddrs, kserver, kres, kgot, kret>>
       \/ kres = "rejected" /\ KExit("ok")
       \/ kres = "error" /\ KExit("error")

\* net_read of the length, which the kernel does not cut.
SReadLength ==
    /\ cprog = "sample"
    /\ \/ Take("client") /\ KGoOn("length", "text")
       \/ KReadFails /\ kpc = "length" /\ KExit("error")

\* Faulty variant of SReadText: a single recv instead of net_read.
SReadTextOnce ==
    /\ cprog = "sample" /\ kpc = "text"
    /\ \/ /\ kgot = 0 /\ Take("client")
          /\ kgot' = 1
          /\ UNCHANGED <<kpc, kaddrs, kserver, kres, ktold, kret>>
       \/ kgot # 0 /\ KExit("ok")
       \/ kgot = 0 /\ KReadFails /\ KExit("error")

\* Faulty variant of SReadText: recv is called again at the end of the stream.
SReadTextSpinning ==
    /\ cprog = "sample" /\ kpc = "text"
    /\ \/ /\ kgot < TextParts /\ Take("client")
          /\ kgot' = kgot + 1
          /\ UNCHANGED <<kpc, kaddrs, kserver, kres, ktold, kret>>
       \/ kgot = TextParts /\ KExit("ok")
       \/ kgot < TextParts /\ RecvBroken("client") /\ KExit("error")

\* net_read of the text: recv until it is complete.  At the end of the stream
\* the count so far is returned, and only 0 is an error for main.
SReadText ==
    /\ cprog = "sample" /\ kpc = "text"
    /\ \/ /\ kgot < TextParts /\ Take("client")
          /\ kgot' = kgot + 1
          /\ UNCHANGED <<kpc, kaddrs, kserver, kres, ktold, kret>>
       \/ /\ kgot = TextParts \/ (kgot > 0 /\ AtEof("client"))
          /\ KExit("ok")
       \/ /\ kgot < TextParts
          /\ RecvBroken("client") \/ (kgot = 0 /\ AtEof("client"))
          /\ KExit("error")

ReferenceClient ==
    \/ SInitContext \/ SResolve \/ SConnect \/ SNoAddressLeft \/ SCache
    \/ SReturned \/ SReadLength \/ SReadText
=============================================================================
