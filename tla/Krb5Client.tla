----------------------------- MODULE Krb5Client -----------------------------
(***************************************************************************)
(* application/krb5-api/client.c, from main's first library call to exit.  *)
(***************************************************************************)
EXTENDS Krb5Lib

\* krb5_init_context.
DInitContext ==
    /\ cprog = "demo"
    /\ \/ KGoOn("context", "resolve") /\ UNCHANGED linkVars
       \/ LibFails /\ kpc = "context" /\ KExit("error")

\* getaddrinfo; then the name of the service, which nobody checks: server may
\* stay unset, and printing its name may crash.
DResolve ==
    /\ cprog = "demo" /\ kpc = "resolve"
    /\ \/ /\ kaddrs' \in Resolutions
          /\ kserver' \in {TRUE} \cup (IF LibFails THEN {FALSE} ELSE {})
          /\ kpc' = "connect"
          /\ UNCHANGED <<linkVars, kres, ktold, kgot, kret>>
       \/ SysFails /\ KExit("error")
       \/ LibFails /\ KExit("killed")

\* One round of the loop: a new socket, and connect.
DConnect ==
    /\ cprog = "demo" /\ kpc = "connect" /\ kaddrs # <<>>
    /\ \/ /\ kaddrs' = Tail(kaddrs)
          /\ \/ Head(kaddrs) = "server" /\ Connectable /\ Connect /\ kpc' = "cache"
             \/ /\ Head(kaddrs) = "server" => ~Connectable \/ SysFails
                /\ UNCHANGED <<linkVars, kpc>>
          /\ UNCHANGED <<kserver, kres, ktold, kgot, kret>>
       \/ SysFails /\ KExit("error")

\* The loop ends without a connection, and main goes on.
DUnconnected ==
    /\ cprog = "demo" /\ kaddrs = <<>>
    /\ KGoOn("connect", "cache") /\ UNCHANGED linkVars

\* The credential cache and the principal in it, once connected.
DCache ==
    /\ cprog = "demo"
    /\ \/ cache /\ KGoOn("cache", "versions") /\ UNCHANGED linkVars
       \/ (LibFails \/ ~cache) /\ kpc = "cache" /\ KExit("error")

\* Faulty variant of DReturned: retval is printed and not tested.
DReturnedUnchecked ==
    /\ cprog = "demo" /\ kpc = "returned"
    /\ ktold' = TRUE /\ kpc' = "free"
    /\ UNCHANGED <<linkVars, kaddrs, kserver, kres, kgot, kret>>

\* krb5_sendauth has returned.
DReturned ==
    /\ cprog = "demo" /\ kpc = "returned"
    /\ \/ /\ kres = "ok"
          /\ ktold' = TRUE /\ kpc' = "free"
          /\ UNCHANGED <<linkVars, kaddrs, kserver, kres, kgot, kret>>
       \/ kres # "ok" /\ KExit("error")

\* Everything is freed and main returns 0.
DFree == cprog = "demo" /\ kpc = "free" /\ KExit("ok")

DemoClient ==
    \/ DInitContext \/ DResolve \/ DConnect \/ DUnconnected \/ DCache
    \/ DReturned \/ DFree
=============================================================================
