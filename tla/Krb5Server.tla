----------------------------- MODULE Krb5Server -----------------------------
(***************************************************************************)
(* application/krb5-api/server.c, from main's first library call to exit.  *)
(***************************************************************************)
EXTENDS Krb5Lib

DemoServes(at, then) == sprog = "demo" /\ VGoOn(at, then) /\ UNCHANGED linkVars
DemoFails(at) == sprog = "demo" /\ vpc = at /\ VExit("error")

\* krb5_init_context and, with -S, krb5_kt_resolve, whose result replaces the
\* other's: the failure of the first goes unnoticed and context stays unset.
VInitContext ==
    \/ DemoServes("context", "sname")
    \/ LibFails /\ DemoServes("context", "sname_unset")
    \/ LibFails /\ DemoFails("context")

\* krb5_sname_to_principal; without a context it fails or crashes.
VServiceName ==
    \/ DemoServes("sname", "bind")
    \/ LibFails /\ (DemoFails("sname") \/ DemoFails("sname_unset"))
    \/ sprog = "demo" /\ vpc = "sname_unset" /\ VExit("killed")

\* create_socket and bind_socket.
VBind == DemoServes("bind", "listen") \/ (SysFails /\ DemoFails("bind"))

\* receive_connection.
VListen ==
    \/ sprog = "demo" /\ VGoOn("listen", "accept") /\ Listen
    \/ SysFails /\ DemoFails("listen")
VAccept ==
    \/ linked /\ DemoServes("accept", "versions")
    \/ SysFails /\ DemoFails("accept")

\* krb5_recvauth has returned; the client's name is printed if there is one.
VReturned ==
    /\ sprog = "demo" /\ vpc = "returned"
    /\ VExit(IF vres = "ok" THEN "ok" ELSE "error")

DemoServer ==
    VInitContext \/ VServiceName \/ VBind \/ VListen \/ VAccept \/ VReturned
=============================================================================
