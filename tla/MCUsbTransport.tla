--------------------------- MODULE MCUsbTransport ---------------------------
\* UsbTransport on a small instance: its constants are plain values.
EXTENDS UsbTransport

=============================================================================
